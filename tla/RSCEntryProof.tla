---------------------------- MODULE RSCEntryProof ----------------------------
(***************************************************************************)
(* RSCEntry for any number of threads, files and blocks: the types and the *)
(* mutexes, whose bytes a reader gets, that a locked entry is not freed,   *)
(* that the stale list loses no node and keeps no freed one, and where it  *)
(* can stop the program.                                                   *)
(*                                                                         *)
(* Proved of one inductive invariant, EntryInv, which says of every step a *)
(* thread can be at what it holds and what it has in hand.  The stale list *)
(* is one from its header (RSCInduction), and pre undoes next (Chain).     *)
(***************************************************************************)
EXTENDS RSCEntry, RSCInduction

\* The steps at which a thread has a file of its own
PathPcs == {"gap", "linked", "open", "alloc", "again", "victim", "write",
            "found", "reading", "toCut", "cutting", "unlinking", "cut", "header"}
\* The steps at which it holds the table mutex
TablePcs == {"open", "rm", "return", "alloc", "again", "victim", "write", "found"}

\* The fields of a thread, and of the stale list
Thread == [pc : PathPcs \cup {"idle", "rm", "return"},
           path : Paths \cup {None}, victim : Paths \cup {None},
           blk : Blocks \cup {None}, live : BOOLEAN]

List == [header : Paths \cup {None}, tail : Paths \cup {None},
         pre : [Paths -> Paths \cup {None}], next : [Paths -> Paths \cup {None}]]

\* A thread has the file, the victim and the block that its step uses.
ThreadsOK ==
  /\ th \in [Threads -> Thread]
  /\ \A t \in Threads :
       /\ th[t].pc \in PathPcs => th[t].path \in Paths
       /\ th[t].pc \in {"rm", "return"} => th[t].victim \in Paths
       /\ th[t].pc \in {"write", "found", "reading"} => th[t].blk \in Blocks

\* The types.  A thread that found the stale list not empty, and holds the table
\* mutex, still finds it so.
TypeInv ==
  /\ table \in Threads \cup {None} /\ staleMt \in Threads \cup {None}
  /\ freelist \in Threads \cup {None} /\ cutMt \in [Paths -> Threads \cup {None}]
  /\ tab \subseteq Paths /\ free \subseteq Blocks
  /\ blk \in [Paths -> Blocks \cup {None}]
  /\ data \in [Blocks -> Paths \cup {None}]
  /\ sn \in [Paths -> {"null", "alone", "listed"}]
  /\ list \in List
  /\ \A t \in Threads : th[t].pc = "victim" => list.header # None

\* Each mutex is held by the thread whose step says so, and by no other.
LockInv ==
  \A t \in Threads :
    /\ table = t <=> th[t].pc \in TablePcs
    /\ staleMt = t <=> th[t].pc = "linked"
    /\ freelist = t <=> th[t].pc = "reading"
    /\ \A p \in Paths :
         cutMt[p] = t <=> th[t].pc \in {"cutting", "unlinking", "cut"} /\ th[t].path = p

\* A truncation that still has its entry has it in the table, and from fbt->mt on
\* it has it.
CutInv ==
  \A t \in Threads :
    /\ th[t].pc \in {"toCut", "cutting", "unlinking", "cut"} /\ th[t].live => th[t].path \in tab
    /\ th[t].pc \in {"cutting", "unlinking", "cut"} => th[t].live

\* The block of a file holds its data; a block in hand is no other file's, is not
\* free, and, once written, holds the data of its file.  Until the loop of a
\* truncation the erased block is still the file's.
BlkInv ==
  /\ \A p \in Paths : blk[p] # None => p \in tab /\ data[blk[p]] = p /\ blk[p] \notin free
  /\ \A t \in Threads :
       /\ th[t].pc \in {"found", "reading"} => data[th[t].blk] = th[t].path
       /\ th[t].pc = "write" => th[t].blk \notin free /\ \A p \in Paths : blk[p] # th[t].blk
       /\ th[t].pc = "unlinking" /\ th[t].blk # None => blk[th[t].path] = th[t].blk
       /\ th[t].pc = "cut" /\ th[t].blk # None =>
            /\ th[t].blk \notin free
            /\ data[th[t].blk] = th[t].path
            /\ \A p \in Paths : blk[p] # th[t].blk
            /\ \A u \in Threads : th[u].pc = "write" => th[u].blk # th[t].blk
       /\ th[t].pc \in {"rm", "return"} /\ th[t].blk # None =>
            data[th[t].blk] = th[t].victim
       /\ th[t].pc = "return" => th[t].victim \notin tab

\* A stale node that is not linked yet belongs to one thread, which will link it.
AppendInv ==
  /\ \A t \in Threads : th[t].pc \in {"gap", "linked"} => sn[th[t].path] = "alone"
  /\ \A t, u \in Threads :
       th[t].pc \in {"gap", "linked"} /\ th[u].pc \in {"gap", "linked"}
         /\ th[t].path = th[u].path => t = u
  /\ \A p \in Paths :
       sn[p] = "alone" => \E t \in Threads : th[t].pc \in {"gap", "linked"} /\ th[t].path = p

\* The pointers of l are a list of S: none leads outside, only the header has no
\* pre, only the tail no next, and pre and next undo each other.
Chain(l, S) ==
  /\ l.header = None <=> l.tail = None
  /\ l.header # None => l.header \in S /\ l.pre[l.header] = None
  /\ l.tail # None => l.tail \in S /\ l.next[l.tail] = None
  /\ \A p \in S :
       /\ l.pre[p] = None => l.header = p
       /\ l.next[p] = None => l.tail = p
       /\ l.pre[p] # None => l.pre[p] \in S /\ l.next[l.pre[p]] = p
       /\ l.next[p] # None => l.next[p] \in S /\ l.pre[l.next[p]] = p
  /\ \E n, c : Chained(None, S, l.header, l.next, n, c)

\* The files whose stale nodes are linked
OnList ==
  {p \in Paths : sn[p] = "listed" \/ \E t \in Threads : th[t].pc = "linked" /\ th[t].path = p}

ListInv == Chain(list, OnList)

\* The inductive invariant.
EntryInv ==
  /\ ThreadsOK /\ TypeInv /\ LockInv /\ CutInv /\ BlkInv
  /\ AppendInv /\ ListInv

\* Thread u keeps its place.  What it points to may be freed.
Same(u) == /\ th'[u].pc = th[u].pc /\ th'[u].path = th[u].path
           /\ th'[u].victim = th[u].victim /\ th'[u].blk = th[u].blk

\* Only thread t has moved, to pc.
Moved(t, pc, path, victim, b) ==
  /\ th' \in [Threads -> Thread]
  /\ th'[t].pc = pc /\ th'[t].path = path /\ th'[t].victim = victim /\ th'[t].blk = b
  /\ \A u \in Threads : u # t => Same(u)

LiveKept(t) == \A u \in Threads : u # t => th'[u].live = th[u].live

\* A call ends.
LEMMA MovedToIdle ==
  ASSUME EntryInv, NEW t \in Threads, th' = [th EXCEPT ![t] = Idle]
  PROVE  Moved(t, "idle", None, None, None) /\ LiveKept(t)
BY DEF EntryInv, ThreadsOK, Thread, Moved, LiveKept, Same, Idle

\* The two operations of the stale list keep its type,
LEMMA LinksTyped ==
  ASSUME NEW l \in List, NEW p \in Paths
  PROVE  LinkedAtTail(l, p) \in List /\ Unlinked(l, p) \in List
BY DEF List, LinkedAtTail, Unlinked

\* Only the tail has no next.
LEMMA TailLast ==
  ASSUME NEW l, NEW S, Chain(l, S)
  PROVE  /\ None \notin S
         /\ l.header = None <=> S = {}
         /\ \A q \in S : l.next[q] = None <=> q = l.tail
<1>1. PICK n, c : Chained(None, S, l.header, l.next, n, c)
  BY DEF Chain
<1>2. None \notin S /\ (l.header = None <=> S = {})
  BY <1>1, ChainedFirst
<1> QED BY <1>2 DEF Chain

\* Append_to_stale_list (RSC_m.c:926 to 938) makes a list of one node more,
LEMMA NodeAppended ==
  ASSUME NEW l \in List, NEW S \in SUBSET Paths, Chain(l, S), NEW p \in Paths \ S
  PROVE  Chain(LinkedAtTail(l, p), S \cup {p})
<1> DEFINE k == LinkedAtTail(l, p)
<1>1. PICK n, c : Chained(None, S, l.header, l.next, n, c)
  BY DEF Chain
<1>2. /\ k.next[p] = None
      /\ \A q \in S : k.next[q] = IF l.next[q] = None THEN p ELSE l.next[q]
      /\ k.header = IF S = {} THEN p ELSE l.header
  BY TailLast DEF LinkedAtTail
<1>3. p # None /\ p \notin S
  BY EntryAssumption
<1>4. \E m, d : Chained(None, S \cup {p}, k.header, k.next, m, d)
  <2> HIDE DEF k
  <2>1. \E m, d : Chained(None, S \cup {p}, IF S = {} THEN p ELSE l.header, k.next, m, d)
    BY <1>1, <1>2, <1>3, ChainedPut
  <2> QED BY <1>2, <2>1
<1>5. /\ k.header = None <=> k.tail = None
      /\ k.header # None => k.header \in S \cup {p} /\ k.pre[k.header] = None
      /\ k.tail # None => k.tail \in S \cup {p} /\ k.next[k.tail] = None
      /\ \A q \in S \cup {p} :
           /\ k.pre[q] = None => k.header = q
           /\ k.next[q] = None => k.tail = q
           /\ k.pre[q] # None => k.pre[q] \in S \cup {p} /\ k.next[k.pre[q]] = q
           /\ k.next[q] # None => k.next[q] \in S \cup {p} /\ k.pre[k.next[q]] = q
  BY EntryAssumption DEF Chain, LinkedAtTail, List
<1> QED BY <1>4, <1>5 DEF Chain

\* and Rm_node_stale_file (mapx.cpp:306 to 340) of one node less.
LEMMA NodeRemoved ==
  ASSUME NEW l \in List, NEW S \in SUBSET Paths, Chain(l, S), NEW p \in S
  PROVE  Chain(Unlinked(l, p), S \ {p})
<1> DEFINE k == Unlinked(l, p)
<1>1. PICK n, c : Chained(None, S, l.header, l.next, n, c)
  BY DEF Chain
<1>2. /\ \A q \in S \ {p} : k.next[q] = IF l.next[q] = p THEN l.next[p] ELSE l.next[q]
      /\ k.header = IF l.header = p THEN l.next[p] ELSE l.header
  BY EntryAssumption DEF Chain, Unlinked
<1>3. \E m, d : Chained(None, S \ {p}, k.header, k.next, m, d)
  <2> HIDE DEF k
  <2>1. \E m, d : Chained(None, S \ {p}, IF l.header = p THEN l.next[p] ELSE l.header, k.next, m, d)
    BY <1>1, <1>2, ChainedRemove
  <2> QED BY <1>2, <2>1
<1>4. /\ k.header = None <=> k.tail = None
      /\ k.header # None => k.header \in S \ {p} /\ k.pre[k.header] = None
      /\ k.tail # None => k.tail \in S \ {p} /\ k.next[k.tail] = None
      /\ \A q \in S \ {p} :
           /\ k.pre[q] = None => k.header = q
           /\ k.next[q] = None => k.tail = q
           /\ k.pre[q] # None => k.pre[q] \in S \ {p} /\ k.next[k.pre[q]] = q
           /\ k.next[q] # None => k.next[q] \in S \ {p} /\ k.pre[k.next[q]] = q
  BY EntryAssumption DEF Chain, Unlinked, List
<1> QED BY <1>3, <1>4 DEF Chain

\* Nothing of the stale list has changed, and no thread's part in it.
ListActSame ==
  /\ sn' = sn /\ list' = list
  /\ \A u \in Threads :
       \/ th'[u].pc = th[u].pc /\ th'[u].path = th[u].path
       \/ th'[u].pc \notin {"gap", "linked"} /\ th[u].pc \notin {"gap", "linked"}

\* A step that leaves the stale list alone keeps what is said of it.
LEMMA ListUntouched ==
  ASSUME EntryInv, ListActSame
  PROVE  AppendInv' /\ ListInv'
<1>1. AppendInv'
  BY DEF EntryInv, AppendInv, ListActSame, ThreadsOK, PathPcs
<1>2. OnList' = OnList
  BY DEF OnList, ListActSame
<1>3. ListInv'
  BY <1>2 DEF EntryInv, ListInv, ListActSame
<1> QED BY <1>1, <1>3

\* The program has stopped.
LEMMA FailKept ==
  ASSUME EntryInv, UNCHANGED <<mutexes, entries, cache, th>>
  PROVE  EntryInv'
BY DEF EntryInv, ThreadsOK, TypeInv, LockInv, CutInv, BlkInv, AppendInv, ListInv,
   OnList, mutexes, entries, cache

\* Rm_file_from_stale_list begins.
LEMMA EnterOpenKept ==
  ASSUME EntryInv, NEW t \in Threads, NEW p \in Paths, Enter(t, p, "open")
  PROVE  EntryInv'
<1> USE EntryAssumption
<1>0. th[t].pc = "idle"
  BY DEF Enter, At
<1>1. Moved(t, "open", p, None, None) /\ LiveKept(t)
  BY <1>0 DEF EntryInv, ThreadsOK, Thread, Enter, Moved, LiveKept, Same, Idle, Calling,
     Goto, At, PathPcs, TypeInv
<1>2. ThreadsOK'
  BY <1>0, <1>1 DEF EntryInv, ThreadsOK, Moved, Same
<1>3. TypeInv'
  BY <1>0, <1>1 DEF EntryInv, TypeInv, Moved, Enter, entries, cache
<1>4. LockInv'
  BY <1>0, <1>1 DEF EntryInv, LockInv, Moved, Enter, TablePcs
<1>5. CutInv'
  BY <1>0, <1>1 DEF EntryInv, CutInv, Moved, Enter, entries
<1>6. BlkInv'
  BY <1>0, <1>1 DEF EntryInv, BlkInv, Moved, Enter, entries, cache
<1>7. AppendInv' /\ ListInv'
  BY <1>0, <1>1, ListUntouched DEF Enter, entries, ListActSame, Moved, Same
<1> QED BY <1>2, <1>3, <1>4, <1>5, <1>6, <1>7 DEF EntryInv

\* Insert_RSC_table begins.
LEMMA EnterAllocKept ==
  ASSUME EntryInv, NEW t \in Threads, NEW p \in Paths, Enter(t, p, "alloc")
  PROVE  EntryInv'
<1> USE EntryAssumption
<1>0. th[t].pc = "idle"
  BY DEF Enter, At
<1>1. Moved(t, "alloc", p, None, None) /\ LiveKept(t)
  BY <1>0 DEF EntryInv, ThreadsOK, Thread, Enter, Moved, LiveKept, Same, Idle, Calling,
     Goto, At, PathPcs, TypeInv
<1>2. ThreadsOK'
  BY <1>0, <1>1 DEF EntryInv, ThreadsOK, Moved, Same
<1>3. TypeInv'
  BY <1>0, <1>1 DEF EntryInv, TypeInv, Moved, Enter, entries, cache
<1>4. LockInv'
  BY <1>0, <1>1 DEF EntryInv, LockInv, Moved, Enter, TablePcs
<1>5. CutInv'
  BY <1>0, <1>1 DEF EntryInv, CutInv, Moved, Enter, entries
<1>6. BlkInv'
  BY <1>0, <1>1 DEF EntryInv, BlkInv, Moved, Enter, entries, cache
<1>7. AppendInv' /\ ListInv'
  BY <1>0, <1>1, ListUntouched DEF Enter, entries, ListActSame, Moved, Same
<1> QED BY <1>2, <1>3, <1>4, <1>5, <1>6, <1>7 DEF EntryInv

\* Append_to_stale_list sets fbt->sn: the node is not on the list yet.
LEMMA AppendAllocKept ==
  ASSUME EntryInv, NEW t \in Threads, NEW p \in Paths, AppendAlloc(t, p)
  PROVE  EntryInv'
<1> USE EntryAssumption
<1>0. th[t].pc = "idle"
  BY DEF AppendAlloc, At
<1>1. Moved(t, "gap", p, None, None) /\ LiveKept(t)
  BY <1>0 DEF EntryInv, ThreadsOK, Thread, AppendAlloc, Moved, LiveKept, Same, Idle,
     Calling, Goto, At, PathPcs, TypeInv
<1>2. ThreadsOK'
  BY <1>0, <1>1 DEF EntryInv, ThreadsOK, Moved, Same
<1>3. TypeInv'
  BY <1>0, <1>1 DEF EntryInv, TypeInv, Moved, AppendAlloc, mutexes, cache
<1>4. LockInv'
  BY <1>0, <1>1 DEF EntryInv, LockInv, Moved, AppendAlloc, TablePcs, mutexes
<1>5. CutInv'
  BY <1>0, <1>1 DEF EntryInv, CutInv, Moved, AppendAlloc
<1>6. BlkInv'
  BY <1>0, <1>1 DEF EntryInv, BlkInv, Moved, AppendAlloc, cache
<1>7. AppendInv' /\ ListInv'
  <2>1. AppendInv'
    BY <1>0, <1>1 DEF EntryInv, AppendInv, TypeInv, Moved, AppendAlloc
  <2>2. ListInv'
    <3>1. OnList' = OnList
      BY <1>0, <1>1 DEF OnList, Moved, AppendAlloc
    <3> QED BY <3>1 DEF EntryInv, ListInv, AppendAlloc
  <2> QED BY <2>1, <2>2
<1> QED BY <1>2, <1>3, <1>4, <1>5, <1>6, <1>7 DEF EntryInv

\* A removal copies the header.
LEMMA RmKept ==
  ASSUME EntryInv, NEW t \in Threads, NEW p \in Paths, Rm_file_block_table(t, p)
  PROVE  EntryInv'
<1> USE EntryAssumption
<1>0. th[t].pc = "idle"
  BY DEF Rm_file_block_table, At
<1>1. Moved(t, "rm", None, p, blk[p]) /\ LiveKept(t)
  BY <1>0 DEF EntryInv, ThreadsOK, Thread, Rm_file_block_table, Moved, LiveKept, Same,
     Idle, Calling, Goto, At, PathPcs, TypeInv
<1>2. ThreadsOK'
  BY <1>0, <1>1 DEF EntryInv, ThreadsOK, Moved, PathPcs, Same
<1>3. TypeInv'
  BY <1>0, <1>1 DEF EntryInv, TypeInv, Rm_file_block_table, entries, cache
<1>4. LockInv'
  BY <1>0, <1>1 DEF EntryInv, LockInv, Moved, Rm_file_block_table, TablePcs
<1>5. CutInv'
  BY <1>0, <1>1 DEF EntryInv, CutInv, Rm_file_block_table, entries
<1>6. BlkInv'
  BY <1>0, <1>1 DEF EntryInv, BlkInv, Rm_file_block_table, entries, cache
<1>7. AppendInv' /\ ListInv'
  BY <1>0, <1>1, ListUntouched
  DEF Rm_file_block_table, entries, ListActSame, Moved, Same
<1> QED BY <1>2, <1>3, <1>4, <1>5, <1>6, <1>7 DEF EntryInv

\* Read_RSC_table finds the block.
LEMMA ReadEnterKept ==
  ASSUME EntryInv, NEW t \in Threads, NEW p \in Paths, ReadEnter(t, p)
  PROVE  EntryInv'
<1> USE EntryAssumption
<1>0. th[t].pc = "idle" /\ blk[p] \in Blocks
  BY DEF ReadEnter, At, EntryInv, TypeInv
<1>1. Moved(t, "found", p, None, blk[p]) /\ LiveKept(t)
  BY <1>0 DEF EntryInv, ThreadsOK, Thread, ReadEnter, Moved, LiveKept, Same, Idle,
     Calling, Goto, At, PathPcs, TypeInv
<1>2. ThreadsOK'
  BY <1>0, <1>1 DEF EntryInv, ThreadsOK, Moved, Same
<1>3. TypeInv'
  BY <1>0, <1>1 DEF EntryInv, TypeInv, Moved, ReadEnter, entries, cache
<1>4. LockInv'
  BY <1>0, <1>1 DEF EntryInv, LockInv, Moved, ReadEnter, TablePcs
<1>5. CutInv'
  BY <1>0, <1>1 DEF EntryInv, CutInv, Moved, ReadEnter, entries
<1>6. BlkInv'
  BY <1>0, <1>1 DEF EntryInv, BlkInv, Moved, ReadEnter, entries, cache
<1>7. AppendInv' /\ ListInv'
  BY <1>0, <1>1, ListUntouched DEF ReadEnter, entries, ListActSame, Moved, Same
<1> QED BY <1>2, <1>3, <1>4, <1>5, <1>6, <1>7 DEF EntryInv

\* A truncation looks its file up.
LEMMA TruncateEnterKept ==
  ASSUME EntryInv, NEW t \in Threads, NEW p \in Paths, TruncateEnter(t, p)
  PROVE  EntryInv'
<1> USE EntryAssumption
<1>0. th[t].pc = "idle"
  BY DEF TruncateEnter, At
<1>1. Moved(t, "toCut", p, None, None) /\ LiveKept(t)
  BY <1>0 DEF EntryInv, ThreadsOK, Thread, TruncateEnter, Moved, LiveKept, Same, Idle,
     Calling, Goto, At, PathPcs, TypeInv
<1>2. ThreadsOK'
  BY <1>0, <1>1 DEF EntryInv, ThreadsOK, Moved, Same
<1>3. TypeInv'
  BY <1>0, <1>1 DEF EntryInv, TypeInv, Moved, TruncateEnter, mutexes, entries, cache
<1>4. LockInv'
  BY <1>0, <1>1 DEF EntryInv, LockInv, Moved, TruncateEnter, TablePcs, mutexes
<1>5. CutInv'
  BY <1>0, <1>1 DEF EntryInv, CutInv, Moved, TruncateEnter, entries
<1>6. BlkInv'
  BY <1>0, <1>1 DEF EntryInv, BlkInv, Moved, TruncateEnter, entries, cache
<1>7. AppendInv' /\ ListInv'
  BY <1>0, <1>1, ListUntouched DEF TruncateEnter, entries, ListActSame, Moved, Same
<1> QED BY <1>2, <1>3, <1>4, <1>5, <1>6, <1>7 DEF EntryInv

\* The stale node is linked: its file was not on the list.
LEMMA AppendLinkKept ==
  ASSUME EntryInv, NEW t \in Threads, AppendLink(t)
  PROVE  EntryInv'
<1> USE EntryAssumption
<1>0. th[t].pc = "gap"
  BY DEF AppendLink, At
<1>1. Moved(t, "linked", th[t].path, th[t].victim, th[t].blk) /\ LiveKept(t)
  BY <1>0 DEF EntryInv, ThreadsOK, Thread, AppendLink, Moved, LiveKept, Same, Goto,
     PathPcs
<1>2. ThreadsOK'
  BY <1>0, <1>1 DEF EntryInv, ThreadsOK, Moved, Same, Thread
<1>3. TypeInv'
  BY <1>0, <1>1
  DEF EntryInv, ThreadsOK, TypeInv, AppendLink, LinkedAtTail, List, Thread, cache
<1>4. LockInv'
  BY <1>0, <1>1 DEF EntryInv, LockInv, Moved, Same, AppendLink, TablePcs
<1>5. CutInv'
  BY <1>0, <1>1 DEF EntryInv, CutInv, Moved, LiveKept, Same, AppendLink
<1>6. BlkInv'
  BY <1>0, <1>1 DEF EntryInv, BlkInv, Moved, Same, AppendLink, cache
<1>7. AppendInv' /\ ListInv'
  <2>1. AppendInv'
    BY <1>0, <1>1 DEF EntryInv, AppendInv, Moved, Same, AppendLink
  <2>2. ListInv'
    <3>1. th[t].path \in Paths \ OnList
      BY <1>0 DEF EntryInv, OnList, ThreadsOK, PathPcs, AppendInv
    <3>2. OnList' = OnList \cup {th[t].path}
      BY <1>0, <1>1, <3>1 DEF OnList, Moved, Same, AppendLink
    <3> QED BY <3>1, <3>2, NodeAppended
            DEF EntryInv, TypeInv, ListInv, AppendLink, OnList
  <2> QED BY <2>1, <2>2
<1> QED BY <1>2, <1>3, <1>4, <1>5, <1>6, <1>7 DEF EntryInv

\* It becomes visible to the others.
LEMMA AppendSetKept ==
  ASSUME EntryInv, NEW t \in Threads, AppendSet(t)
  PROVE  EntryInv'
<1> USE EntryAssumption
<1>0. th[t].pc = "linked"
  BY DEF AppendSet, At
<1>1. Moved(t, "idle", None, None, None) /\ LiveKept(t)
  BY <1>0 DEF EntryInv, ThreadsOK, Thread, AppendSet, Moved, LiveKept, Same, Idle
<1>2. ThreadsOK'
  BY <1>0, <1>1 DEF EntryInv, ThreadsOK, Moved, PathPcs, Same
<1>3. TypeInv'
  BY <1>0, <1>1 DEF EntryInv, ThreadsOK, TypeInv, Moved, AppendSet, Thread, cache
<1>4. LockInv'
  BY <1>0, <1>1 DEF EntryInv, LockInv, Moved, AppendSet, TablePcs
<1>5. CutInv'
  BY <1>0, <1>1 DEF EntryInv, CutInv, Moved, AppendSet
<1>6. BlkInv'
  BY <1>0, <1>1 DEF EntryInv, BlkInv, Moved, AppendSet, cache
<1>7. AppendInv' /\ ListInv'
  <2>1. AppendInv'
    BY <1>0, <1>1 DEF EntryInv, AppendInv, TypeInv, Moved, AppendSet
  <2>2. ListInv'
    <3>1. OnList' = OnList
      BY <1>0, <1>1 DEF EntryInv, OnList, TypeInv, Moved, AppendSet
    <3> QED BY <3>1 DEF EntryInv, ListInv, AppendSet
  <2> QED BY <2>1, <2>2
<1> QED BY <1>2, <1>3, <1>4, <1>5, <1>6, <1>7 DEF EntryInv

\* The reader exchanges the table mutex for the free lists'.
LEMMA ReadHandOverKept ==
  ASSUME EntryInv, NEW t \in Threads, ReadHandOver(t)
  PROVE  EntryInv'
<1> USE EntryAssumption
<1>0. th[t].pc = "found"
  BY DEF ReadHandOver, At
<1>1. Moved(t, "reading", th[t].path, th[t].victim, th[t].blk) /\ LiveKept(t)
  BY <1>0 DEF EntryInv, ThreadsOK, Thread, ReadHandOver, Moved, LiveKept, Same, Goto,
     PathPcs
<1>2. ThreadsOK'
  BY <1>0, <1>1 DEF EntryInv, ThreadsOK, Moved, Same, Thread
<1>3. TypeInv'
  BY <1>0, <1>1 DEF EntryInv, TypeInv, Moved, Same, ReadHandOver, entries, cache
<1>4. LockInv'
  BY <1>0, <1>1 DEF EntryInv, LockInv, Moved, Same, ReadHandOver, TablePcs
<1>5. CutInv'
  BY <1>0, <1>1 DEF EntryInv, CutInv, Moved, LiveKept, Same, ReadHandOver, entries
<1>6. BlkInv'
  BY <1>0, <1>1 DEF EntryInv, BlkInv, Moved, Same, ReadHandOver, entries, cache
<1>7. AppendInv' /\ ListInv'
  BY <1>0, <1>1, ListUntouched DEF ReadHandOver, entries, ListActSame, Moved, Same
<1> QED BY <1>2, <1>3, <1>4, <1>5, <1>6, <1>7 DEF EntryInv

\* An Insert links its block, which was no other file's.
LEMMA InsertWriteKept ==
  ASSUME EntryInv, NEW t \in Threads, InsertWrite(t)
  PROVE  EntryInv'
<1> USE EntryAssumption
<1>0. th[t].pc = "write"
  BY DEF InsertWrite, At
<1>1. Moved(t, "idle", None, None, None) /\ LiveKept(t)
  BY <1>0 DEF EntryInv, ThreadsOK, Thread, InsertWrite, Moved, LiveKept, Same, Idle
<1>2. ThreadsOK'
  BY <1>0, <1>1 DEF EntryInv, ThreadsOK, Moved, PathPcs, Same
<1>3. TypeInv'
  BY <1>0, <1>1 DEF EntryInv, ThreadsOK, TypeInv, Moved, InsertWrite, Thread
<1>4. LockInv'
  BY <1>0, <1>1 DEF EntryInv, LockInv, Moved, InsertWrite, TablePcs
<1>5. CutInv'
  BY <1>0, <1>1 DEF EntryInv, CutInv, Moved, InsertWrite
<1>6. BlkInv'
  BY <1>0, <1>1
  DEF EntryInv, BlkInv, LockInv, TypeInv, ThreadsOK, TablePcs, Moved, Same, InsertWrite, Erased
<1>7. AppendInv' /\ ListInv'
  BY <1>0, <1>1, ListUntouched DEF InsertWrite, entries, ListActSame, Moved, Same
<1> QED BY <1>2, <1>3, <1>4, <1>5, <1>6, <1>7 DEF EntryInv

\* The file opened again leaves the stale list.
LEMMA OpenFileKept ==
  ASSUME EntryInv, NEW t \in Threads, failed' = "none", OpenFile(t)
  PROVE  EntryInv'
<1> USE EntryAssumption
<1>0. th[t].pc = "open" /\ th[t].path \in Paths
  BY DEF OpenFile, At, EntryInv, ThreadsOK, PathPcs
<1>1. Moved(t, "idle", None, None, None) /\ LiveKept(t)
  <2>1. th' = [th EXCEPT ![t] = Idle]
    BY <1>0 DEF OpenFile, Fail
  <2> QED BY <2>1, MovedToIdle
<1>2. ThreadsOK'
  BY <1>0, <1>1 DEF EntryInv, ThreadsOK, Moved, PathPcs, Same
<1>3. TypeInv'
  <2>1. list' \in List /\ sn' \in [Paths -> {"null", "alone", "listed"}]
    <3>1. list \in List /\ sn \in [Paths -> {"null", "alone", "listed"}]
      BY DEF EntryInv, TypeInv
    <3>2. Rm_node_stale_file(th[t].path)
      BY <1>0 DEF OpenFile, Fail
    <3>3. CASE sn[th[t].path] = "null"
      BY <3>1, <3>2, <3>3 DEF Rm_node_stale_file
    <3>4. CASE sn[th[t].path] # "null"
      BY <1>0, <3>1, <3>2, <3>4, LinksTyped DEF Rm_node_stale_file
    <3> QED BY <3>3, <3>4
  <2>2. \A u \in Threads : u # t => th[u].pc # "victim"
    BY <1>0 DEF EntryInv, LockInv, TablePcs
  <2> QED BY <1>0, <1>1, <2>1, <2>2 DEF EntryInv, TypeInv, Moved, OpenFile, Fail, cache
<1>4. LockInv'
  BY <1>0, <1>1 DEF EntryInv, LockInv, Moved, OpenFile, Fail, TablePcs
<1>5. CutInv'
  BY <1>0, <1>1 DEF EntryInv, CutInv, Moved, OpenFile, Fail
<1>6. BlkInv'
  BY <1>0, <1>1 DEF EntryInv, BlkInv, Moved, OpenFile, Fail, cache
<1>7. AppendInv' /\ ListInv'
  <2>1. AppendInv'
    BY <1>0, <1>1
    DEF EntryInv, AppendInv, ThreadsOK, TypeInv, PathPcs, Moved, OpenFile,
        Rm_node_stale_file, Fail
  <2>2. ListInv'
    <3>1. CASE sn[th[t].path] = "null"
      <4>1. OnList' = OnList /\ list' = list
        BY <1>0, <1>1, <3>1 DEF OnList, Moved, OpenFile, Rm_node_stale_file
      <4> QED BY <4>1 DEF EntryInv, ListInv
    <3>2. CASE sn[th[t].path] # "null"
      <4>1. sn[th[t].path] = "listed" /\ list' = Unlinked(list, th[t].path)
        BY <1>0, <3>2 DEF EntryInv, TypeInv, OpenFile, Rm_node_stale_file, Fail
      <4>2. OnList' = OnList \ {th[t].path}
        BY <1>0, <1>1, <3>2, <4>1
        DEF EntryInv, OnList, TypeInv, LockInv, Moved, OpenFile, StaleFree,
            Rm_node_stale_file
      <4>3. th[t].path \in OnList
        BY <1>0, <4>1 DEF OnList
      <4> QED BY <4>1, <4>2, <4>3, NodeRemoved DEF EntryInv, TypeInv, ListInv, OnList
    <3> QED BY <3>1, <3>2
  <2> QED BY <2>1, <2>2
<1> QED BY <1>2, <1>3, <1>4, <1>5, <1>6, <1>7 DEF EntryInv

\* The entry is freed, and with it what others have looked up.
LEMMA RmEntryKept ==
  ASSUME EntryInv, NEW t \in Threads, failed' = "none", RmEntry(t)
  PROVE  EntryInv'
<1> USE EntryAssumption
<1>0. th[t].pc = "rm" /\ th[t].victim \in Paths
  BY DEF RmEntry, At, EntryInv, ThreadsOK
<1>1. /\ Moved(t, "return", th[t].path, th[t].victim, th[t].blk)
      /\ \A u \in Threads : u # t /\ th[u].path # th[t].victim => th'[u].live = th[u].live
      /\ \A u \in Threads : u # t /\ th[u].path = th[t].victim => ~ th'[u].live
  <2>1. th' = [FreedWith(th[t].victim) EXCEPT ![t].pc = "return"]
    BY <1>0 DEF RmEntry, Fail
  <2> DEFINE f == FreedWith(th[t].victim)
  <2>2. \A u \in Threads : th[u] \in Thread /\ [th[u] EXCEPT !.live = FALSE] \in Thread
    BY DEF EntryInv, ThreadsOK, Thread
  <2>3. f \in [Threads -> Thread]
    BY <2>2 DEF FreedWith
  <2>4. \A u \in Threads : /\ f[u].pc = th[u].pc /\ f[u].path = th[u].path
                           /\ f[u].victim = th[u].victim /\ f[u].blk = th[u].blk
                           /\ th[u].path # th[t].victim => f[u].live = th[u].live
                           /\ th[u].path = th[t].victim => ~ f[u].live
    BY <2>2 DEF FreedWith, Thread
  <2> HIDE DEF f
  <2>5. th' = [f EXCEPT ![t].pc = "return"]
    BY <2>1 DEF f
  <2>6. th' \in [Threads -> Thread]
    BY <2>3, <2>5 DEF Thread
  <2> QED BY <1>0, <2>3, <2>4, <2>5, <2>6 DEF Moved, Same, Thread
<1>2. ThreadsOK'
  BY <1>0, <1>1 DEF EntryInv, ThreadsOK, Moved, PathPcs, Same
<1>3. TypeInv'
  <2>1. list' \in List /\ sn' \in [Paths -> {"null", "alone", "listed"}]
    <3>1. list \in List /\ sn \in [Paths -> {"null", "alone", "listed"}]
      BY DEF EntryInv, TypeInv
    <3>2. Rm_node_stale_file(th[t].victim)
      BY <1>0 DEF RmEntry, Fail
    <3>3. CASE sn[th[t].victim] = "null"
      BY <3>1, <3>2, <3>3 DEF Rm_node_stale_file
    <3>4. CASE sn[th[t].victim] # "null"
      BY <1>0, <3>1, <3>2, <3>4, LinksTyped DEF Rm_node_stale_file
    <3> QED BY <3>3, <3>4
  <2>2. \A u \in Threads : u # t => th[u].pc # "victim"
    BY <1>0 DEF EntryInv, LockInv, TablePcs
  <2> QED BY <1>0, <1>1, <2>1, <2>2
          DEF EntryInv, TypeInv, Moved, Same, RmEntry, Fail, mutexes, cache
<1>4. LockInv'
  BY <1>0, <1>1 DEF EntryInv, LockInv, Moved, Same, RmEntry, Fail, TablePcs, mutexes
<1>5. CutInv'
  BY <1>0, <1>1 DEF EntryInv, CutInv, LockInv, Moved, Same, RmEntry, Removable, Fail
<1>6. BlkInv'
  <2>1. \A u \in Threads : u # t => th[u].pc \notin TablePcs
    BY <1>0 DEF EntryInv, LockInv, TablePcs
  <2>2. \A u \in Threads : th[u].pc = "reading" => Same(u)
    BY <1>0, <1>1 DEF Moved, Same
  <2>3. /\ tab' = tab \ {th[t].victim} /\ blk' = [blk EXCEPT ![th[t].victim] = None]
        /\ free' = free /\ data' = data
    BY DEF RmEntry, Fail, cache
  <2>4. \A u \in Threads : th[u].pc = "unlinking" => th[u].path \in Paths \ {th[t].victim}
    BY <1>0 DEF EntryInv, ThreadsOK, LockInv, PathPcs, RmEntry, Removable
  <2>5. \A p \in Paths \ {th[t].victim} : blk'[p] = blk[p]
    BY <2>3 DEF EntryInv, TypeInv
  <2>6. blk'[th[t].victim] = None
    BY <1>0, <2>3 DEF EntryInv, TypeInv
  <2> QED BY <1>0, <1>1, <2>1, <2>3, <2>4, <2>5, <2>6
          DEF EntryInv, BlkInv, TablePcs, Moved, Same
<1>7. AppendInv' /\ ListInv'
  <2>1. AppendInv'
    BY <1>0, <1>1
    DEF EntryInv, AppendInv, ThreadsOK, TypeInv, PathPcs, Moved, Same, RmEntry,
        Rm_node_stale_file, Fail
  <2>2. ListInv'
    <3>1. CASE sn[th[t].victim] = "null"
      <4>1. OnList' = OnList /\ list' = list
        BY <1>0, <1>1, <3>1 DEF OnList, Moved, Same, RmEntry, Rm_node_stale_file
      <4> QED BY <4>1 DEF EntryInv, ListInv
    <3>2. CASE sn[th[t].victim] # "null"
      <4>1. sn[th[t].victim] = "listed" /\ list' = Unlinked(list, th[t].victim)
        BY <1>0, <3>2 DEF EntryInv, TypeInv, RmEntry, Rm_node_stale_file, Fail
      <4>2. OnList' = OnList \ {th[t].victim}
        BY <1>0, <1>1, <3>2, <4>1
        DEF EntryInv, OnList, TypeInv, LockInv, Moved, Same, RmEntry, Removable,
            StaleFree, Rm_node_stale_file
      <4>3. th[t].victim \in OnList
        BY <1>0, <4>1 DEF OnList
      <4> QED BY <4>1, <4>2, <4>3, NodeRemoved DEF EntryInv, TypeInv, ListInv, OnList
    <3> QED BY <3>1, <3>2
  <2> QED BY <2>1, <2>2
<1> QED BY <1>2, <1>3, <1>4, <1>5, <1>6, <1>7 DEF EntryInv

\* The block is returned; what another thread has in hand stays its own.
LEMMA RmReturnKept ==
  ASSUME EntryInv, NEW t \in Threads, failed' = "none", RmReturn(t)
  PROVE  EntryInv'
<1> USE EntryAssumption
<1>0. th[t].pc = "return"
  BY DEF RmReturn, At
<1>1. /\ \/ Moved(t, "idle", None, None, None) /\ th[t].path = None /\ table' = None
         \/ Moved(t, "again", th[t].path, None, None) /\ th[t].path # None /\ table' = table
      /\ LiveKept(t)
  <2>1. CASE th[t].path = None
    <3>1. th' = [th EXCEPT ![t] = Idle] /\ table' = None
      BY <2>1 DEF RmReturn, Fail
    <3> QED BY <2>1, <3>1, MovedToIdle
  <2>2. CASE th[t].path # None
    <3>1. /\ th' = [th EXCEPT ![t] = [@ EXCEPT !.pc = "again", !.victim = None, !.blk = None]]
          /\ table' = table
      BY <2>2 DEF RmReturn, Fail
    <3> QED BY <1>0, <2>2, <3>1
            DEF EntryInv, ThreadsOK, Thread, PathPcs, Moved, LiveKept, Same
  <2> QED BY <2>1, <2>2
<1>2. ThreadsOK'
  BY <1>0, <1>1 DEF EntryInv, ThreadsOK, Moved, PathPcs, Same, Thread
<1>3. TypeInv'
  BY <1>0, <1>1 DEF EntryInv, ThreadsOK, TypeInv, Moved, RmReturn, Fail, Thread, entries
<1>4. LockInv'
  BY <1>0, <1>1 DEF EntryInv, LockInv, Moved, RmReturn, Fail, TablePcs
<1>5. CutInv'
  BY <1>0, <1>1 DEF EntryInv, CutInv, Moved, RmReturn, Fail, entries
<1>6. BlkInv'
  BY <1>0, <1>1
  DEF EntryInv, BlkInv, LockInv, CutInv, TablePcs, Moved, RmReturn, Fail, entries
<1>7. AppendInv' /\ ListInv'
  BY <1>0, <1>1, ListUntouched DEF RmReturn, Fail, entries, ListActSame, Moved
<1> QED BY <1>2, <1>3, <1>4, <1>5, <1>6, <1>7 DEF EntryInv

\* The block taken from the free list is no file's, and in no other hand.
LEMMA InsertAllocKept ==
  ASSUME EntryInv, NEW t \in Threads, InsertAlloc(t)
  PROVE  EntryInv'
<1> USE EntryAssumption
<1>0. th[t].pc \in {"alloc", "again"}
  BY DEF InsertAlloc, At
<1>1. /\ \E b \in free :
           Moved(t, "write", th[t].path, th[t].victim, b) /\ free' = free \ {b}
      /\ LiveKept(t)
  <2>1. PICK b \in free :
          /\ free' = free \ {b}
          /\ th' = [th EXCEPT ![t] = [@ EXCEPT !.pc = "write", !.blk = b]]
    BY DEF InsertAlloc
  <2>2. b \in Blocks
    BY DEF EntryInv, TypeInv
  <2>3. Moved(t, "write", th[t].path, th[t].victim, b) /\ LiveKept(t)
    BY <1>0, <2>1, <2>2 DEF EntryInv, ThreadsOK, Thread, PathPcs, Moved, LiveKept, Same
  <2> QED BY <2>1, <2>3
<1>2. ThreadsOK'
  BY <1>0, <1>1 DEF EntryInv, ThreadsOK, TypeInv, Moved, Same, Thread
<1>3. TypeInv'
  BY <1>0, <1>1 DEF EntryInv, TypeInv, Moved, InsertAlloc, mutexes, entries
<1>4. LockInv'
  BY <1>0, <1>1 DEF EntryInv, LockInv, Moved, InsertAlloc, TablePcs, mutexes
<1>5. CutInv'
  BY <1>0, <1>1 DEF EntryInv, CutInv, Moved, InsertAlloc, entries
<1>6. BlkInv'
  BY <1>0, <1>1 DEF EntryInv, BlkInv, TypeInv, Moved, InsertAlloc, entries
<1>7. AppendInv' /\ ListInv'
  BY <1>0, <1>1, ListUntouched DEF InsertAlloc, entries, ListActSame, Moved, Same
<1> QED BY <1>2, <1>3, <1>4, <1>5, <1>6, <1>7 DEF EntryInv

\* The cache is full: evict, or give up.
LEMMA InsertFullKept ==
  ASSUME EntryInv, NEW t \in Threads, InsertFull(t)
  PROVE  EntryInv'
<1> USE EntryAssumption
<1>0. th[t].pc = "alloc"
  BY DEF InsertFull, At
<1>1. /\ \/ Moved(t, "idle", None, None, None) /\ table' = None
         \/ /\ Moved(t, "victim", th[t].path, th[t].victim, th[t].blk)
            /\ table' = table /\ list.header # None
      /\ LiveKept(t)
  <2>1. CASE list.header = None
    <3>1. th' = [th EXCEPT ![t] = Idle] /\ table' = None
      BY <2>1 DEF InsertFull
    <3> QED BY <3>1, MovedToIdle
  <2>2. CASE list.header # None
    <3>1. th' = [th EXCEPT ![t].pc = "victim"] /\ table' = table
      BY <2>2 DEF InsertFull, Goto
    <3> QED BY <1>0, <2>2, <3>1
            DEF EntryInv, ThreadsOK, Thread, PathPcs, Moved, LiveKept, Same
  <2> QED BY <2>1, <2>2
<1>2. ThreadsOK'
  BY <1>0, <1>1 DEF EntryInv, ThreadsOK, Moved, PathPcs, Same
<1>3. TypeInv'
  BY <1>0, <1>1 DEF EntryInv, TypeInv, Moved, InsertFull, entries, cache
<1>4. LockInv'
  BY <1>0, <1>1 DEF EntryInv, LockInv, Moved, Same, InsertFull, TablePcs
<1>5. CutInv'
  BY <1>0, <1>1 DEF EntryInv, CutInv, Moved, LiveKept, Same, InsertFull, entries
<1>6. BlkInv'
  BY <1>0, <1>1 DEF EntryInv, BlkInv, LockInv, Moved, Same, InsertFull, entries, cache
<1>7. AppendInv' /\ ListInv'
  BY <1>0, <1>1, ListUntouched DEF InsertFull, entries, ListActSame, Moved, Same
<1> QED BY <1>2, <1>3, <1>4, <1>5, <1>6, <1>7 DEF EntryInv

\* The header of the stale list is the victim: its stale node is linked.
LEMMA InsertVictimKept ==
  ASSUME EntryInv, NEW t \in Threads, failed' = "none", InsertVictim(t)
  PROVE  EntryInv'
<1> USE EntryAssumption
<1>0. th[t].pc = "victim" /\ list.header \in Paths
  BY DEF InsertVictim, At, EntryInv, TypeInv, List
<1>1. Moved(t, "rm", th[t].path, list.header, blk[list.header]) /\ LiveKept(t)
  <2>1. blk[list.header] \in Blocks \cup {None}
    BY <1>0 DEF EntryInv, TypeInv
  <2>2. th' = [th EXCEPT ![t] =
                 [@ EXCEPT !.pc = "rm", !.victim = list.header, !.blk = blk[list.header]]]
    BY DEF InsertVictim, Fail
  <2> QED BY <1>0, <2>1, <2>2 DEF EntryInv, ThreadsOK, Thread, Moved, LiveKept, Same
<1>2. ThreadsOK'
  BY <1>0, <1>1 DEF EntryInv, ThreadsOK, Moved, Same, Thread
<1>3. TypeInv'
  BY <1>0, <1>1 DEF EntryInv, TypeInv, InsertVictim, Fail, mutexes, entries, cache
<1>4. LockInv'
  BY <1>0, <1>1 DEF EntryInv, LockInv, Moved, InsertVictim, Fail, TablePcs, mutexes
<1>5. CutInv'
  BY <1>0, <1>1 DEF EntryInv, CutInv, Moved, InsertVictim, Fail, entries
<1>6. BlkInv'
  BY <1>0, <1>1 DEF EntryInv, BlkInv, Moved, InsertVictim, Fail, entries, cache
<1>7. AppendInv' /\ ListInv'
  BY <1>0, <1>1, ListUntouched DEF InsertVictim, Fail, entries, ListActSame, Moved
<1> QED BY <1>2, <1>3, <1>4, <1>5, <1>6, <1>7 DEF EntryInv

\* The reader has its bytes.
LEMMA ReadBlockKept ==
  ASSUME EntryInv, NEW t \in Threads, failed' = "none", ReadBlock(t)
  PROVE  EntryInv'
<1> USE EntryAssumption
<1>0. th[t].pc = "reading"
  BY DEF ReadBlock, At
<1>1. Moved(t, "idle", None, None, None) /\ LiveKept(t)
  <2>1. th' = [th EXCEPT ![t] = Idle]
    BY <1>0 DEF ReadBlock, Fail
  <2> QED BY <2>1, MovedToIdle
<1>2. ThreadsOK'
  BY <1>0, <1>1 DEF EntryInv, ThreadsOK, Moved, PathPcs, Same
<1>3. TypeInv'
  BY <1>0, <1>1 DEF EntryInv, TypeInv, Moved, ReadBlock, Fail, entries, cache
<1>4. LockInv'
  BY <1>0, <1>1 DEF EntryInv, LockInv, Moved, ReadBlock, Fail, TablePcs
<1>5. CutInv'
  BY <1>0, <1>1 DEF EntryInv, CutInv, Moved, ReadBlock, Fail, entries
<1>6. BlkInv'
  BY <1>0, <1>1 DEF EntryInv, BlkInv, CutInv, Moved, ReadBlock, Fail, entries, cache
<1>7. AppendInv' /\ ListInv'
  BY <1>0, <1>1, ListUntouched DEF ReadBlock, Fail, entries, ListActSame, Moved
<1> QED BY <1>2, <1>3, <1>4, <1>5, <1>6, <1>7 DEF EntryInv

\* A truncation takes fbt->mt of an entry that is still there.
LEMMA TruncateLockKept ==
  ASSUME EntryInv, NEW t \in Threads, failed' = "none", TruncateLock(t)
  PROVE  EntryInv'
<1> USE EntryAssumption
<1>0. th[t].pc = "toCut" /\ th[t].path \in Paths
  BY DEF TruncateLock, At, EntryInv, ThreadsOK, PathPcs
<1>1. /\ Moved(t, "cutting", th[t].path, th[t].victim, th[t].blk)
      /\ \A u \in Threads : th'[u].live = th[u].live
      /\ th[t].live
  BY <1>0 DEF EntryInv, ThreadsOK, Thread, TruncateLock, Fail, Moved, Same, Goto,
     PathPcs
<1>2. ThreadsOK'
  BY <1>0, <1>1 DEF EntryInv, ThreadsOK, Moved, Same
<1>3. TypeInv'
  BY <1>0, <1>1 DEF EntryInv, TypeInv, Moved, Same, TruncateLock, entries, cache
<1>4. LockInv'
  BY <1>0, <1>1 DEF EntryInv, LockInv, TypeInv, Moved, Same, TruncateLock, TablePcs
<1>5. CutInv'
  BY <1>0, <1>1 DEF EntryInv, CutInv, Moved, Same, TruncateLock, entries
<1>6. BlkInv'
  BY <1>0, <1>1 DEF EntryInv, BlkInv, Moved, Same, TruncateLock, Fail, entries, cache
<1>7. AppendInv' /\ ListInv'
  BY <1>0, <1>1, ListUntouched DEF TruncateLock, entries, ListActSame, Moved, Same
<1> QED BY <1>2, <1>3, <1>4, <1>5, <1>6, <1>7 DEF EntryInv

\* It takes the file's block, or none, out of fbt->tab.
LEMMA TruncateEraseKept ==
  ASSUME EntryInv, NEW t \in Threads, TruncateErase(t)
  PROVE  EntryInv'
<1> USE EntryAssumption
<1>0. th[t].pc = "cutting" /\ th[t].path \in Paths
  BY DEF TruncateErase, At, EntryInv, ThreadsOK, PathPcs
<1>1. /\ \E b \in {None, blk[th[t].path]} : Moved(t, "unlinking", th[t].path, th[t].victim, b)
      /\ \A u \in Threads : th'[u].live = th[u].live
  <2>1. PICK b \in {None, blk[th[t].path]} :
             th' = [th EXCEPT ![t] = [@ EXCEPT !.pc = "unlinking", !.blk = b]]
    BY DEF TruncateErase
  <2>2. b \in Blocks \cup {None}
    BY <1>0, <2>1 DEF EntryInv, TypeInv
  <2>3. /\ Moved(t, "unlinking", th[t].path, th[t].victim, b)
        /\ \A u \in Threads : th'[u].live = th[u].live
    BY <1>0, <2>1, <2>2 DEF EntryInv, ThreadsOK, Thread, PathPcs, Moved, Same
  <2> QED BY <2>3
<1>2. ThreadsOK'
  BY <1>0, <1>1 DEF EntryInv, ThreadsOK, Moved, Same
<1>3. TypeInv'
  BY <1>0, <1>1 DEF EntryInv, TypeInv, Moved, Same, TruncateErase, mutexes, entries, cache
<1>4. LockInv'
  BY <1>0, <1>1 DEF EntryInv, LockInv, Moved, Same, TruncateErase, TablePcs, mutexes
<1>5. CutInv'
  BY <1>0, <1>1 DEF EntryInv, CutInv, Moved, Same, TruncateErase, entries
<1>6. BlkInv'
  BY <1>0, <1>1 DEF EntryInv, BlkInv, Moved, Same, TruncateErase, entries, cache
<1>7. AppendInv' /\ ListInv'
  BY <1>0, <1>1, ListUntouched DEF TruncateErase, entries, ListActSame, Moved, Same
<1> QED BY <1>2, <1>3, <1>4, <1>5, <1>6, <1>7 DEF EntryInv

\* The block in its hand is the file's no more, nor any other's.
LEMMA TruncateUnlinkKept ==
  ASSUME EntryInv, NEW t \in Threads, TruncateUnlink(t)
  PROVE  EntryInv'
<1> USE EntryAssumption
<1>0. th[t].pc = "unlinking" /\ th[t].path \in Paths
  BY DEF TruncateUnlink, At, EntryInv, ThreadsOK, PathPcs
<1>1. /\ Moved(t, "cut", th[t].path, th[t].victim, th[t].blk)
      /\ \A u \in Threads : th'[u].live = th[u].live
  BY <1>0 DEF EntryInv, ThreadsOK, Thread, TruncateUnlink, Moved, Same, Goto, PathPcs
<1>2. ThreadsOK'
  BY <1>0, <1>1 DEF EntryInv, ThreadsOK, Moved, Same
<1>3. TypeInv'
  BY <1>0, <1>1 DEF EntryInv, TypeInv, Moved, Same, TruncateUnlink, mutexes, cache
<1>4. LockInv'
  BY <1>0, <1>1 DEF EntryInv, LockInv, Moved, Same, TruncateUnlink, TablePcs, mutexes
<1>5. CutInv'
  BY <1>0, <1>1 DEF EntryInv, CutInv, Moved, Same, TruncateUnlink
<1>6. BlkInv'
  <2>1. \A u \in Threads : u # t /\ th[u].pc = "unlinking" => th[u].path # th[t].path
    BY <1>0 DEF EntryInv, LockInv
  <2>2. \A p \in Paths \ {th[t].path} : blk'[p] = blk[p]
    BY <1>0 DEF EntryInv, TypeInv, TruncateUnlink
  <2>3. blk'[th[t].path] = IF th[t].blk = None THEN blk[th[t].path] ELSE None
    BY <1>0 DEF EntryInv, TypeInv, TruncateUnlink
  <2> QED BY <1>0, <1>1, <2>1, <2>2, <2>3
          DEF EntryInv, BlkInv, TypeInv, ThreadsOK, PathPcs, Moved, Same, TruncateUnlink, cache
<1>7. AppendInv' /\ ListInv'
  BY <1>0, <1>1, ListUntouched DEF TruncateUnlink, entries, ListActSame, Moved, Same
<1> QED BY <1>2, <1>3, <1>4, <1>5, <1>6, <1>7 DEF EntryInv

\* It returns the block and gives up fbt->mt.
LEMMA TruncateReturnKept ==
  ASSUME EntryInv, NEW t \in Threads, TruncateReturn(t)
  PROVE  EntryInv'
<1> USE EntryAssumption
<1>0. th[t].pc = "cut" /\ th[t].path \in Paths
  BY DEF TruncateReturn, At, EntryInv, ThreadsOK, PathPcs
<1>1. /\ Moved(t, "header", th[t].path, None, None)
      /\ \A u \in Threads : u # t /\ th[u].pc # "found" => th'[u].live = th[u].live
  <2>1. Calling("header", th[t].path) \in Thread
    BY <1>0 DEF Thread, Idle, Calling, PathPcs
  <2>2. \A u \in Threads : th[u] \in Thread /\ [th[u] EXCEPT !.live = FALSE] \in Thread
    BY DEF EntryInv, ThreadsOK, Thread
  <2>3. th' \in [Threads -> Thread]
    BY <2>1, <2>2 DEF TruncateReturn
  <2> QED BY <1>0, <2>2, <2>3
          DEF Thread, TruncateReturn, FreesNode, Moved, Same, Idle, Calling
<1>2. ThreadsOK'
  BY <1>0, <1>1 DEF EntryInv, ThreadsOK, Moved, Same
<1>3. TypeInv'
  BY <1>0, <1>1 DEF EntryInv, ThreadsOK, TypeInv, Moved, TruncateReturn, Thread, entries
<1>4. LockInv'
  BY <1>0, <1>1 DEF EntryInv, LockInv, TypeInv, Moved, TruncateReturn, TablePcs
<1>5. CutInv'
  BY <1>0, <1>1 DEF EntryInv, CutInv, Moved, TruncateReturn, FreesNode, entries
<1>6. BlkInv'
  BY <1>0, <1>1 DEF EntryInv, BlkInv, LockInv, Moved, TruncateReturn, entries
<1>7. AppendInv' /\ ListInv'
  BY <1>0, <1>1, ListUntouched DEF TruncateReturn, entries, ListActSame, Moved
<1> QED BY <1>2, <1>3, <1>4, <1>5, <1>6, <1>7 DEF EntryInv

\* It writes the header.
LEMMA TruncateHeaderKept ==
  ASSUME EntryInv, NEW t \in Threads, failed' = "none", TruncateHeader(t)
  PROVE  EntryInv'
<1> USE EntryAssumption
<1>0. th[t].pc = "header"
  BY DEF TruncateHeader, At
<1>1. Moved(t, "idle", None, None, None) /\ LiveKept(t)
  <2>1. th' = [th EXCEPT ![t] = Idle]
    BY <1>0 DEF TruncateHeader, Fail
  <2> QED BY <2>1, MovedToIdle
<1>2. ThreadsOK'
  BY <1>0, <1>1 DEF EntryInv, ThreadsOK, Moved, PathPcs, Same
<1>3. TypeInv'
  BY <1>0, <1>1
  DEF EntryInv, TypeInv, Moved, TruncateHeader, Fail, mutexes, entries, cache
<1>4. LockInv'
  BY <1>0, <1>1 DEF EntryInv, LockInv, Moved, TruncateHeader, Fail, TablePcs, mutexes
<1>5. CutInv'
  BY <1>0, <1>1 DEF EntryInv, CutInv, Moved, TruncateHeader, Fail, entries
<1>6. BlkInv'
  BY <1>0, <1>1
  DEF EntryInv, BlkInv, LockInv, Moved, TruncateHeader, Fail, entries, cache
<1>7. AppendInv' /\ ListInv'
  BY <1>0, <1>1, ListUntouched DEF TruncateHeader, Fail, entries, ListActSame, Moved
<1> QED BY <1>2, <1>3, <1>4, <1>5, <1>6, <1>7 DEF EntryInv

\* The initial state satisfies the invariant.
LEMMA StartTyped == Init => EntryInv
<1> SUFFICES ASSUME Init PROVE EntryInv
  OBVIOUS
<1>1. ThreadsOK /\ TypeInv /\ LockInv /\ CutInv /\ BlkInv /\ AppendInv
  BY EntryAssumption
  DEF Init, Idle, ThreadsOK, Thread, TypeInv, List, LockInv, CutInv, BlkInv, AppendInv,
      TablePcs, PathPcs
<1>2. OnList = {} /\ list.header = None /\ list.tail = None
  BY DEF Init, Idle, OnList
<1>3. \E n, c : Chained(None, {}, None, list.next, n, c)
  BY ChainedEmpty
<1>4. ListInv
  BY <1>2, <1>3 DEF ListInv, Chain
<1> QED BY <1>1, <1>4 DEF EntryInv

\* A call that stops the program changes nothing else,
LEMMA CallStops ==
  ASSUME NEW t \in Threads, NEW p \in Paths, Call(t, p), failed' # "none"
  PROVE  UNCHANGED <<mutexes, entries, cache, th>>
BY DEF Call, Enter, AppendAlloc, Rm_file_block_table, ReadEnter, TruncateEnter,
   LookupRaces, Fail, At

\* and neither does a later step.
LEMMA ProceedStops ==
  ASSUME NEW t \in Threads, Proceed(t), failed' # "none"
  PROVE  UNCHANGED <<mutexes, entries, cache, th>>
BY DEF Proceed, AppendLink, AppendSet, OpenFile, RmEntry, RmReturn, InsertAlloc,
   InsertFull, InsertVictim, InsertFails, InsertWrite, ReadHandOver, ReadBlock,
   TruncateLock, TruncateErase, TruncateUnlink, TruncateReturn, TruncateHeader, Fail, At

\* Every call keeps the invariant,
LEMMA CallKept ==
  ASSUME EntryInv, NEW t \in Threads, NEW p \in Paths, Call(t, p)
  PROVE  EntryInv'
<1>1. CASE failed' # "none"
  BY <1>1, CallStops, FailKept
<1>2. CASE failed' = "none"
  BY <1>2, EnterOpenKept, EnterAllocKept, AppendAllocKept, RmKept, ReadEnterKept,
     TruncateEnterKept DEF Call, LookupRaces, Fail
<1> QED BY <1>1, <1>2

\* and every step of a call.
LEMMA ProceedKept ==
  ASSUME EntryInv, NEW t \in Threads, Proceed(t)
  PROVE  EntryInv'
<1>1. CASE failed' # "none"
  BY <1>1, ProceedStops, FailKept
<1>2. CASE failed' = "none"
  BY <1>2, AppendLinkKept, AppendSetKept, OpenFileKept, RmEntryKept, RmReturnKept,
     InsertAllocKept, InsertFullKept, InsertVictimKept, InsertWriteKept,
     ReadHandOverKept, ReadBlockKept, TruncateLockKept, TruncateEraseKept,
     TruncateUnlinkKept, TruncateReturnKept, TruncateHeaderKept DEF Proceed, InsertFails, Fail
<1> QED BY <1>1, <1>2

\* So it holds in every reachable state.
LEMMA EntryInvAlways == Spec => []EntryInv
<1>1. EntryInv /\ UNCHANGED vars => EntryInv'
  BY FailKept DEF vars
<1>2. EntryInv /\ [Next]_vars => EntryInv'
  BY <1>1, CallKept, ProceedKept DEF Next
<1> QED BY StartTyped, <1>2, PTL DEF Spec

\* Everything has its type, and a thread holds the mutexes that its place in the
\* code says, and no other (the calls of RSC_m.c:285 to 971).
THEOREM EntryTypeCorrect == Spec => []EntryTypeOK
<1>1. EntryInv => EntryTypeOK
  BY DEF EntryInv, TypeInv, LockInv, EntryTypeOK, TablePcs
<1> QED BY <1>1, EntryInvAlways, PTL

\* A reader that has exchanged the table mutex for the free lists' (RSC_m.c:588 to
\* 599) still reads bytes of its file, whoever removes, evicts or truncates it.
THEOREM ReadsOwnBytesAlways == Spec => []ReadsOwnBytes
<1>1. EntryInv => ReadsOwnBytes
  BY DEF EntryInv, BlkInv, ReadsOwnBytes
<1> QED BY <1>1, EntryInvAlways, PTL

\* Removal and eviction wait for fbt->mt (RSC_m.c:663 to 671): an entry is never
\* freed while a truncation holds its mutex.
THEOREM EntryOutlivesLockAlways == Spec => []EntryOutlivesLock
<1>1. EntryInv => EntryOutlivesLock
  BY DEF EntryInv, CutInv, EntryOutlivesLock
<1> QED BY <1>1, EntryInvAlways, PTL

\* Somebody who does not wait.  The mutexes are taken in the order table,
\* fbt->mt, stale list, free lists, and whoever has the last ones goes on.
LEMMA SomeoneGoesOn ==
  ASSUME EntryInv, failed = "none", NEW t \in Threads, th[t].pc # "idle"
  PROVE  \E u \in Threads : th[u].pc # "idle" /\ ~Waits(u)
<1> DEFINE Free(u) == u \in Threads /\ th[u].pc # "idle" /\ ~Waits(u)
<1>1. SUFFICES \E u : Free(u)
  OBVIOUS
<1>2. CASE freelist # None
  <2>1. freelist \in Threads /\ th[freelist].pc = "reading"
    BY <1>2 DEF EntryInv, TypeInv, LockInv
  <2>2. Free(freelist)
    BY <2>1 DEF Waits, At
  <2> QED BY <2>2
<1>3. CASE freelist = None /\ staleMt # None
  <2>1. staleMt \in Threads /\ th[staleMt].pc = "linked"
    BY <1>3 DEF EntryInv, TypeInv, LockInv
  <2>2. Free(staleMt)
    BY <2>1 DEF Waits, At
  <2> QED BY <2>2
<1>4. CASE freelist = None /\ staleMt = None /\ \E p \in Paths : cutMt[p] # None
  <2>1. PICK p \in Paths : cutMt[p] # None
    BY <1>4
  <2>2. cutMt[p] \in Threads /\ th[cutMt[p]].pc \in {"cutting", "unlinking", "cut"}
    BY <2>1 DEF EntryInv, TypeInv, LockInv
  <2>3. Free(cutMt[p])
    BY <1>4, <2>2 DEF Waits, At, Returnable
  <2> QED BY <2>3
<1>5. CASE freelist = None /\ staleMt = None /\ \A p \in Paths : cutMt[p] = None
  <2>1. /\ th[t].pc = "toCut" => th[t].path \in Paths
        /\ th[t].pc = "rm" => th[t].victim \in Paths
    BY DEF EntryInv, ThreadsOK, PathPcs
  <2>2. Free(t)
    BY <1>5, <2>1 DEF Waits, At, Returnable, Removable, StaleFree
  <2> QED BY <2>2
<1> QED BY <1>2, <1>3, <1>4, <1>5

\* No set of threads waits in a circle for the four kinds of mutexes, for any
\* number of threads and files: as long as some call is in progress, one goes on
\* (RSC_m.c:588, 663, 793, 919, RSC.c:111, 165, mapx.cpp:297).
THEOREM NoLockCycleAlways == Spec => []NoLockCycle
<1>1. EntryInv => NoLockCycle
  BY SomeoneGoesOn DEF NoLockCycle
<1> QED BY <1>1, EntryInvAlways, PTL

\* A step that stops at mapx.cpp:300 or RSC_m.c:338 met a half-made stale node.
LEMMA StopsInAppend ==
  ASSUME EntryInv, StaleStopsInAppend, Next
  PROVE  StaleStopsInAppend'
<1>1. PICK t \in Threads : Proceed(t) \/ \E p \in Paths : Call(t, p)
  BY DEF Next
<1>2. CASE failed' \notin {"line300", "line338"}
  BY <1>2 DEF StaleStopsInAppend
<1>3. CASE failed' = "line300"
  <2>1. th' = th /\ \E p \in Paths : sn[p] = "alone"
    BY <1>1, <1>3
    DEF Call, LookupRaces, Proceed, Enter, AppendAlloc, Rm_file_block_table, ReadEnter,
        TruncateEnter, AppendLink, AppendSet, OpenFile, RmEntry, RmReturn, InsertAlloc,
        InsertFull, InsertVictim, InsertFails, InsertWrite, ReadHandOver, ReadBlock,
        TruncateLock, TruncateErase, TruncateUnlink, TruncateReturn, TruncateHeader, Fail, At,
        EntryInv, ThreadsOK, PathPcs

  <2> QED BY <2>1 DEF EntryInv, AppendInv, StaleStopsInAppend
<1>4. CASE failed' = "line338"
  <2>1. th' = th /\ list.header # None /\ sn[list.header] # "listed"
    BY <1>1, <1>4
    DEF Call, LookupRaces, Proceed, Enter, AppendAlloc, Rm_file_block_table, ReadEnter,
        TruncateEnter, AppendLink, AppendSet, OpenFile, RmEntry, RmReturn, InsertAlloc,
        InsertFull, InsertVictim, InsertFails, InsertWrite, ReadHandOver, ReadBlock,
        TruncateLock, TruncateErase, TruncateUnlink, TruncateReturn, TruncateHeader, Fail, At,
        EntryInv, TypeInv

  <2> QED BY <2>1 DEF EntryInv, ListInv, Chain, OnList, StaleStopsInAppend
<1> QED BY <1>2, <1>3, <1>4

\* The two failures of the stale list come only from an Append_to_stale_list that
\* has released the table mutex and has not set sn->fbt yet (RSC_m.c:916 to 938).
THEOREM StaleStopsInAppendAlways == Spec => []StaleStopsInAppend
<1>1. Init => StaleStopsInAppend
  BY DEF Init, StaleStopsInAppend
<1>2. StaleStopsInAppend /\ UNCHANGED vars => StaleStopsInAppend'
  BY DEF StaleStopsInAppend, vars
<1>3. EntryInv /\ StaleStopsInAppend /\ [Next]_vars => StaleStopsInAppend'
  BY <1>2, StopsInAppend
<1> QED BY <1>1, <1>3, EntryInvAlways, PTL DEF Spec

-----------------------------------------------------------------------------
(* The stale list.                                                         *)

\* A file with a stale node has an entry: its node is freed with the entry.
StaleHasEntry == \A p \in Paths : sn[p] # "null" => p \in tab

\* What a step does to the stale nodes and to the entries
LEMMA StaleStep ==
  ASSUME EntryInv, StaleHasEntry, NEW t \in Threads,
         Proceed(t) \/ \E p \in Paths : Call(t, p)
  PROVE  StaleHasEntry'
<1>1. CASE sn' = sn /\ tab \subseteq tab'
  BY <1>1 DEF StaleHasEntry
<1>2. CASE \E p \in Paths : AppendAlloc(t, p)
  BY <1>2 DEF AppendAlloc, StaleHasEntry, EntryInv, TypeInv
<1>3. CASE AppendSet(t)
  <2>1. th[t].path \in Paths /\ sn[th[t].path] = "alone"
    BY <1>3 DEF AppendSet, At, EntryInv, ThreadsOK, PathPcs, AppendInv
  <2> QED BY <1>3, <2>1 DEF AppendSet, StaleHasEntry, EntryInv, TypeInv
<1>4. CASE OpenFile(t)
  <2>1. th[t].path \in Paths
    BY <1>4 DEF OpenFile, At, EntryInv, ThreadsOK, PathPcs
  <2> QED BY <1>4, <2>1
          DEF OpenFile, Fail, entries, Rm_node_stale_file, StaleHasEntry, EntryInv, TypeInv
<1>5. CASE RmEntry(t)
  <2>1. th[t].victim \in Paths
    BY <1>5 DEF RmEntry, At, EntryInv, ThreadsOK
  <2> QED BY <1>5, <2>1
          DEF RmEntry, Fail, entries, Rm_node_stale_file, StaleHasEntry, EntryInv, TypeInv
<1>6. CASE \/ AppendLink(t) \/ RmReturn(t) \/ InsertAlloc(t) \/ InsertFull(t)
           \/ InsertVictim(t) \/ InsertFails(t) \/ InsertWrite(t)
           \/ ReadHandOver(t) \/ ReadBlock(t)
           \/ TruncateLock(t) \/ TruncateErase(t) \/ TruncateUnlink(t)
           \/ TruncateReturn(t) \/ TruncateHeader(t)
  BY <1>1, <1>6
  DEF AppendLink, RmReturn, InsertAlloc, InsertFull, InsertVictim, InsertFails, InsertWrite,
      ReadHandOver, ReadBlock, TruncateLock, TruncateErase, TruncateUnlink, TruncateReturn,
      TruncateHeader, Fail, entries
<1>7. ASSUME NEW p \in Paths,
             \/ Enter(t, p, "open") \/ Enter(t, p, "alloc") \/ Rm_file_block_table(t, p)
             \/ ReadEnter(t, p) \/ TruncateEnter(t, p) \/ LookupRaces(t, p)
      PROVE  StaleHasEntry'
  BY <1>1, <1>7
  DEF Enter, Rm_file_block_table, ReadEnter, TruncateEnter, LookupRaces, Fail, entries
<1> QED BY <1>2, <1>3, <1>4, <1>5, <1>6, <1>7 DEF Proceed, Call

LEMMA StaleHasEntryAlways == Spec => []StaleHasEntry
<1>1. Init => StaleHasEntry
  BY DEF Init, StaleHasEntry
<1>2. StaleHasEntry /\ UNCHANGED vars => StaleHasEntry'
  BY DEF StaleHasEntry, vars, entries
<1>3. EntryInv /\ StaleHasEntry /\ [Next]_vars => StaleHasEntry'
  BY <1>2, StaleStep DEF Next
<1> QED BY <1>1, <1>3, EntryInvAlways, PTL DEF Spec

\* What the property finds by following pointers that make a list is the list.
LEMMA ReachedChained ==
  ASSUME NEW S \in SUBSET Paths, NEW first, NEW link,
         \E n, c : Chained(None, S, first, link, n, c)
  PROVE  Reached(first, link) = S
<1> DEFINE m == Cardinality(Paths)
           g == CHOOSE f : Reaching(None, first, link, m, f)
<1>1. Reached(first, link) = g[m]
  BY Zenon DEF Reached, Reaching
<1>2. g[m] = S
  BY FinitePaths, WalkFinds
<1> QED BY <1>1, <1>2

\* Whenever the stale list's mutex is free, its nodes are those of the files whose
\* closing was completed, all of files with an entry; next from the header and
\* pre from the tail meet them all and no freed one, whatever appends, openings,
\* removals and evictions came before, of however many threads (RSC_m.c:905 to
\* 940, mapx.cpp:295 to 345).
THEOREM StaleListLinkedAlways == Spec => []StaleListLinked
<1>1. ASSUME EntryInv, StaleHasEntry, failed = "none", staleMt = None
      PROVE  LET listed == {p \in Paths : sn[p] = "listed"} IN
             /\ listed \subseteq tab
             /\ Reached(list.header, list.next) = listed
             /\ Reached(list.tail, list.pre) = listed
             /\ listed # {} => list.pre[list.header] = None /\ list.next[list.tail] = None
             /\ \A p \in listed \ {list.tail} : list.pre[list.next[p]] = p
  <2> DEFINE listed == {p \in Paths : sn[p] = "listed"}
  <2>1. \A t \in Threads : th[t].pc # "linked"
    BY <1>1, EntryAssumption DEF EntryInv, LockInv
  <2>2. listed = OnList
    BY <2>1 DEF OnList
  <2>3. listed \subseteq tab
    BY <1>1 DEF StaleHasEntry
  <2>4. Chain(list, listed) /\ listed \in SUBSET Paths
    BY <1>1, <2>2 DEF EntryInv, ListInv
  <2> HIDE DEF listed
  <2>5. PICK n, c : Chained(None, listed, list.header, list.next, n, c)
    BY <2>4 DEF Chain
  <2>6. Reached(list.header, list.next) = listed
    BY <2>4, <2>5, ReachedChained
  <2>7. IF listed = {} THEN list.tail = None ELSE list.tail \in listed /\ list.next[list.tail] = None
    BY <2>4, TailLast DEF Chain
  <2>8. /\ list.header # None => list.pre[list.header] = None
        /\ \A p \in listed : list.next[p] # None => list.pre[list.next[p]] = p
    BY <2>4 DEF Chain
  <2>9. \E d : Chained(None, listed, list.tail, list.pre, n, d)
    BY <2>5, <2>7, <2>8, ChainedReverse
  <2>10. Reached(list.tail, list.pre) = listed
    BY <2>4, <2>9, ReachedChained
  <2>11. \A p \in listed \ {list.tail} : list.next[p] # None
    BY <2>4, TailLast
  <2>12. listed # {} => list.pre[list.header] = None /\ list.next[list.tail] = None
    BY <2>4, <2>7, <2>8, TailLast
  <2> QED BY <2>3, <2>6, <2>8, <2>10, <2>11, <2>12 DEF listed
<1>2. EntryInv /\ StaleHasEntry => StaleListLinked
  BY <1>1 DEF StaleListLinked
<1> QED BY <1>2, EntryInvAlways, StaleHasEntryAlways, PTL

=============================================================================
