------------------------- MODULE RSCTableDiskProof --------------------------
(***************************************************************************)
(* Theorems about the lists of RSCTable in the cache file: the two free    *)
(* lists, the blocks of each cached file, those of a removed file; and, of *)
(* the same invariant, that RSCTable implements the pool of RSCPool.  They *)
(* assume that a cache whose files are truncated gets the blocks of a file *)
(* front to back (OrderedTruncation); the run table_rm shows what happens  *)
(* otherwise.                                                              *)
(***************************************************************************)
EXTENDS RSCTableProof, RSCInduction

OrderedTruncation == AnyOrder => TruncateOffs = {}

-----------------------------------------------------------------------------
(* The inductive invariant.                                                *)

\* Only a cache whose blocks arrive in order truncates.
CutInv == cut # NoCut => ~AnyOrder

\* The nodes of S are a list through next, which first begins and last ends.
Queue(S, first, last, next) ==
  /\ \E n, c : Chained(INVLOC, S, first, next, n, c)
  /\ IF S = {} THEN last = INVLOC ELSE last \in S /\ next[last] = INVLOC

HeaderNext == [h \in Headers |-> hdr[h].next]
BlockNext  == [b \in Blocks |-> bpn[b].next]

\* The blocks of L and the headers of M are in no list: a stop of the program
\* has lost them (RSCCrash).  Until one does both sets are empty.

\* The headers that neither a cached file nor the Insert in progress has are
\* the free list's.
Spare(M) == {h \in Headers : h \notin M /\ h # req.hdr /\ \A p \in DOMAIN tab : tab[p].loc # h}

HeaderInv(M) ==
  /\ \A p, q \in DOMAIN tab : tab[p].loc = tab[q].loc => p = q
  /\ \A p \in DOMAIN tab : tab[p].loc # req.hdr /\ tab[p].loc \notin M
  /\ req.hdr # INVLOC => req.hdr \notin M
  /\ Queue(Spare(M), mb.hfl, mb.hft, HeaderNext)

\* So are the blocks that name no file on disk, but for the one that the Insert
\* in progress has taken.
Unowned(L) == {b \in Blocks : b \notin L /\ b # req.blk /\ bpn[b].fhloc = INVLOC}

FreeInv(L) ==
  /\ req.blk # INVLOC => bpn[req.blk].fhloc = INVLOC /\ req.blk \notin L
  /\ Queue(Unowned(L), mb.bfl, mb.bft, BlockNext)

\* The blocks that name a file but are in no list: those of a removed file,
\* which the loop at 722 returns, all of them, before it ends.
Dead(L) ==
  {b \in Blocks : /\ b \notin L
                  /\ bpn[b].fhloc # INVLOC
                  /\ \A p \in DOMAIN tab : b \notin ChainLocs(p)}

DeadInv(L) ==
  /\ \E n, c : Chained(INVLOC, Dead(L), walk, BlockNext, n, c)
  /\ pc # "rm" => Dead(L) = {}

\* The list of one file: its nodes are different blocks, name the file and
\* their offsets, and ascend when blocks arrive front to back.
NodesInv(L, p) ==
  LET c == tab[p].chain IN
  /\ \A i, j \in DOMAIN c : c[i].loc = c[j].loc => i = j
  /\ \A i \in DOMAIN c : /\ c[i].loc \notin L
                         /\ bpn[c[i].loc].fhloc = tab[p].loc /\ bpn[c[i].loc].off = c[i].off
  /\ AnyOrder \/ \A i, j \in DOMAIN c : i < j => c[i].off < c[j].off

\* Node i, and the one after it, stay in the file.
Kept(p, i) == p # cut.path \/ tab[p].chain[i].off <= cut.off

LinksInv(p) ==
  LET c == tab[p].chain IN
  \A i \in DOMAIN c :
    /\ i = Len(c) /\ Kept(p, i) => bpn[c[i].loc].next = INVLOC
    /\ i # Len(c) /\ Kept(p, i + 1) => bpn[c[i].loc].next = c[i + 1].loc

FileInv(L, p) ==
  /\ NodesInv(L, p)
  /\ LinksInv(p)
  /\ p # cut.path => hdr[tab[p].loc] = HeaderOf(p, tab[p])

ChainInv(L) == \A p \in DOMAIN tab : FileInv(L, p)

\* The blocks of every file, none for a file that is not cached
Contents == [p \in Paths |-> IF p \in DOMAIN tab THEN ChainLocs(p) ELSE {}]

DiskInv(L, M) == CutInv /\ HeaderInv(M) /\ FreeInv(L) /\ DeadInv(L) /\ ChainInv(L)

IInv == TableInv /\ DiskInv({}, {})

-----------------------------------------------------------------------------
(* The free lists: taking the first node, appending one.                   *)

LEMMA QueueParts ==
  ASSUME NEW S, NEW first, NEW last, NEW next, Queue(S, first, last, next)
  PROVE  /\ INVLOC \notin S
         /\ first = INVLOC <=> S = {}
         /\ last = INVLOC <=> S = {}
         /\ first # INVLOC => first \in S /\ last \in S /\ next[last] = INVLOC
<1>1. PICK n, c : Chained(INVLOC, S, first, next, n, c)
  BY DEF Queue
<1>2. INVLOC \notin S /\ (first = INVLOC <=> S = {}) /\ (first # INVLOC => first \in S)
  BY <1>1, ChainedFirst
<1> QED
  BY <1>2 DEF Queue

LEMMA QueueTake ==
  ASSUME NEW S, NEW first, NEW last, NEW next, Queue(S, first, last, next), first # INVLOC
  PROVE  Queue(S \ {first}, next[first], IF next[first] = INVLOC THEN INVLOC ELSE last, next)
<1>1. PICK n, c : Chained(INVLOC, S, first, next, n, c)
  BY DEF Queue
<1>2. PICK m, d : Chained(INVLOC, S \ {first}, next[first], next, m, d)
  BY <1>1, ChainedTake
<1>3. next[first] = INVLOC <=> S \ {first} = {}
  BY <1>2, ChainedFirst
<1>4. last \in S /\ next[last] = INVLOC
  BY QueueParts
<1>5. next[first] # INVLOC => last \in S \ {first}
  BY <1>4
<1> QED
  BY <1>2, <1>3, <1>4, <1>5 DEF Queue

LEMMA QueueSame ==
  ASSUME NEW S, NEW first, NEW last, NEW next, NEW next2,
         Queue(S, first, last, next), \A x \in S : next2[x] = next[x]
  PROVE  Queue(S, first, last, next2)
<1>1. PICK n, c : Chained(INVLOC, S, first, next, n, c)
  BY DEF Queue
<1>2. Chained(INVLOC, S, first, next2, n, c)
  BY <1>1, ChainedSame
<1> QED
  BY <1>2 DEF Queue

LEMMA QueuePut ==
  ASSUME NEW S, NEW first, NEW last, NEW next, NEW next2, NEW x, x \notin S, x # INVLOC,
         Queue(S, first, last, next),
         next2[x] = INVLOC,
         first # INVLOC => next2[last] = x,
         \A y \in S : y # last => next2[y] = next[y]
  PROVE  Queue(S \cup {x}, IF first = INVLOC THEN x ELSE first, x, next2)
<1>1. PICK n, c : Chained(INVLOC, S, first, next, n, c)
  BY DEF Queue
<1>2. first = INVLOC <=> S = {}
  BY QueueParts
<1>3. ASSUME NEW y \in S
      PROVE  next2[y] = IF next[y] = INVLOC THEN x ELSE next[y]
  <2>1. next[y] = INVLOC <=> y = last
    BY <1>1, ChainedLast, QueueParts
  <2> QED
    BY <1>2, <2>1
<1>4. PICK m, d : Chained(INVLOC, S \cup {x}, IF S = {} THEN x ELSE first, next2, m, d)
  BY <1>1, <1>3, ChainedPut
<1> QED
  BY <1>2, <1>4 DEF Queue

-----------------------------------------------------------------------------
(* File headers.                                                           *)

LEMMA HeaderInvSame ==
  ASSUME NEW M, HeaderInv(M), DOMAIN tab' = DOMAIN tab,
         \A p \in DOMAIN tab : tab'[p].loc = tab[p].loc,
         req'.hdr = req.hdr, mb'.hfl = mb.hfl, mb'.hft = mb.hft,
         \A h \in Spare(M) : hdr'[h].next = hdr[h].next
  PROVE  HeaderInv(M)'
<1>1. Spare(M)' = Spare(M)
  BY DEF Spare
<1>2. \A h \in Spare(M) : HeaderNext'[h] = HeaderNext[h]
  BY DEF HeaderNext, Spare
<1>3. Queue(Spare(M), mb.hfl, mb.hft, HeaderNext')
  BY <1>2, QueueSame DEF HeaderInv
<1> QED
  BY <1>1, <1>3 DEF HeaderInv

LEMMA HeaderReturned ==
  ASSUME NEW M, TypeOK, HeaderInv(M), NEW h \in Headers, h \notin Spare(M),
         NEW p \in Paths \cup {NoPath}, Return_file_header(h, p),
         Spare(M)' = Spare(M) \cup {h},
         \A q, r \in DOMAIN tab' : tab'[q].loc = tab'[r].loc => q = r,
         \A q \in DOMAIN tab' : tab'[q].loc # req'.hdr /\ tab'[q].loc \notin M,
         req'.hdr # INVLOC => req'.hdr \notin M
  PROVE  HeaderInv(M)'
<1>1. mb \in MasterBlockType /\ hdr \in [Headers -> HeaderType] /\ h # INVLOC /\ INVLOC \notin Spare(M)
  BY TypeParts, LocsAreNat DEF Spare
<1>2. mb'.hfl = (IF mb.hfl = INVLOC THEN h ELSE mb.hfl) /\ mb'.hft = h
  BY <1>1 DEF Return_file_header, MasterBlockType
<1>3. mb.hfl # INVLOC => mb.hft \in Spare(M)
  BY QueueParts DEF HeaderInv
<1>4. /\ HeaderNext'[h] = INVLOC
      /\ mb.hfl # INVLOC => HeaderNext'[mb.hft] = h
      /\ \A y \in Spare(M) : y # mb.hft => HeaderNext'[y] = HeaderNext[y]
  <2>1. CASE mb.hfl = INVLOC
    BY <1>1, <2>1 DEF Return_file_header, FreeHeader, HeaderNext, Spare
  <2>2. CASE mb.hfl # INVLOC
    <3>1. hdr' = [hdr EXCEPT ![mb.hft].next = h, ![h] = FreeHeader(NoPath)]
      BY <2>2 DEF Return_file_header
    <3>2. mb.hft \in Headers /\ mb.hft # h
      BY <1>3, <2>2 DEF Spare
    <3>3. hdr'[h].next = INVLOC /\ hdr'[mb.hft].next = h
          /\ \A g \in Headers : g # h /\ g # mb.hft => hdr'[g] = hdr[g]
      BY <1>1, <3>1, <3>2 DEF FreeHeader, HeaderType
    <3> QED
      BY <3>2, <3>3 DEF HeaderNext, Spare
  <2> QED
    BY <2>1, <2>2
<1>5. Queue(Spare(M), mb.hfl, mb.hft, HeaderNext)
  BY DEF HeaderInv
<1>6. Queue(Spare(M) \cup {h}, IF mb.hfl = INVLOC THEN h ELSE mb.hfl, h, HeaderNext')
  <2> DEFINE next == HeaderNext
             next2 == HeaderNext'
             first == mb.hfl
             last == mb.hft
             S == Spare(M)
  <2>1. /\ INVLOC \notin S /\ h \notin S /\ h # INVLOC
        /\ Queue(S, first, last, next)
        /\ next2[h] = INVLOC
        /\ first # INVLOC => next2[last] = h
        /\ \A y \in S : y # last => next2[y] = next[y]
    BY <1>1, <1>4, <1>5
  <2> HIDE DEF next, next2, first, last, S
  <2>2. Queue(S \cup {h}, IF first = INVLOC THEN h ELSE first, h, next2)
    BY <2>1, QueuePut
  <2> QED
    BY <2>2 DEF next2, first, last, S
<1> QED
  BY <1>2, <1>6 DEF HeaderInv

LEMMA HeaderRemoved ==
  ASSUME NEW M, TypeOK, HeaderInv(M), NEW p \in DOMAIN tab, RemoveFile(p), req' = req
  PROVE  HeaderInv(M)'
<1>1. p \in Paths /\ tab[p] \in CachedFile /\ tab[p].loc \in Headers /\ tab[p].loc \notin Spare(M)
  BY TypeParts DEF CachedFile, Spare
<1>2. Return_file_header(tab[p].loc, p) /\ DOMAIN tab' = DOMAIN tab \ {p}
      /\ \A q \in DOMAIN tab' : tab'[q] = tab[q]
  BY DEF RemoveFile
<1>3. tab[p].loc # req.hdr /\ tab[p].loc \notin M /\ \A q \in DOMAIN tab' : tab'[q].loc # tab[p].loc
  BY <1>2 DEF HeaderInv
<1>4. Spare(M)' = Spare(M) \cup {tab[p].loc}
  BY <1>1, <1>2, <1>3 DEF Spare
<1>5. /\ \A q, r \in DOMAIN tab' : tab'[q].loc = tab'[r].loc => q = r
      /\ \A q \in DOMAIN tab' : tab'[q].loc # req'.hdr /\ tab'[q].loc \notin M
      /\ req'.hdr # INVLOC => req'.hdr \notin M
  BY <1>2 DEF HeaderInv
<1> QED
  BY <1>1, <1>2, <1>4, <1>5, HeaderReturned

LEMMA HeaderInvStep ==
  ASSUME NEW M, TypeOK, CallInv, StaleMatches, HeaderInv(M), [Next]_vars
  PROVE  HeaderInv(M)'
<1> USE TypeParts
<1>1. \A p \in DOMAIN tab : tab[p] \in CachedFile /\ tab[p].loc \in Headers /\ tab[p].loc \notin Spare(M)
  BY DEF CachedFile, Spare
<1>2. ASSUME NEW p \in Paths, NEW off \in BlockOffs, NEW len \in Lens, InsertNewFile(p, off, len)
      PROVE  HeaderInv(M)'
  <2> DEFINE h == mb.hfl
             n == hdr[h].next
  <2>1. req' = [NoReq EXCEPT !.path = p, !.off = off, !.end = off + len, !.hdr = h]
        /\ tab' = tab /\ pc = "idle" /\ h # INVLOC
    BY <1>2 DEF InsertNewFile, Alloc_file_header
  <2>2. req'.hdr = h /\ req.hdr = INVLOC
    BY <2>1 DEF CallInv, NoReq
  <2>3. mb' = [mb EXCEPT !.hfl = n, !.hft = IF n = INVLOC THEN INVLOC ELSE @]
        /\ hdr' = [hdr EXCEPT ![h].path = p]
    BY <1>2 DEF InsertNewFile, Alloc_file_header
  <2>4. h \in Headers
    BY <2>1 DEF MasterBlockType, HeaderOrNone
  <2>5. mb'.hfl = n /\ mb'.hft = IF n = INVLOC THEN INVLOC ELSE mb.hft
    BY <2>3 DEF MasterBlockType
  <2>6. \A g \in Headers : hdr'[g].next = hdr[g].next
    BY <2>3, <2>4 DEF HeaderType
  <2>7. HeaderNext' = HeaderNext /\ n = HeaderNext[h]
    BY <2>4, <2>6 DEF HeaderNext
  <2>8. Spare(M)' = Spare(M) \ {h}
    BY <2>1, <2>2, LocsAreNat DEF Spare
  <2>9. h \in Spare(M)
    BY <2>1, QueueParts DEF HeaderInv
  <2> HIDE DEF n
  <2>10. Queue(Spare(M) \ {h}, n, IF n = INVLOC THEN INVLOC ELSE mb.hft, HeaderNext)
    BY <2>1, <2>7, QueueTake, LocsAreNat DEF HeaderInv, Spare
  <2>11. /\ \A q \in DOMAIN tab' : tab'[q].loc # req'.hdr
         /\ req'.hdr \notin M
    BY <1>1, <2>1, <2>2, <2>9 DEF Spare
  <2> QED
    BY <2>1, <2>5, <2>7, <2>8, <2>10, <2>11 DEF HeaderInv
<1>3. CASE GiveUp
  <2>1. CASE req.hdr = INVLOC
    <3>1. req'.hdr = INVLOC /\ tab' = tab /\ mb' = mb /\ hdr' = hdr
      BY <1>3, <2>1 DEF GiveUp, NoReq
    <3> QED
      BY <2>1, <3>1, HeaderInvSame
  <2>2. CASE req.hdr # INVLOC
    <3>1. Return_file_header(req.hdr, req.path) /\ req' = NoReq /\ tab' = tab
      BY <1>3, <2>2 DEF GiveUp
    <3>2. req.hdr \in Headers /\ req.hdr \notin Spare(M) /\ req.path \in Paths \cup {NoPath}
      BY <2>2 DEF RequestType, HeaderOrNone, Spare
    <3>3. req'.hdr = INVLOC
      BY <3>1 DEF NoReq
    <3>4. Spare(M)' = Spare(M) \cup {req.hdr}
      BY <3>1, <3>2, <3>3, LocsAreNat DEF Spare, HeaderInv
    <3>5. /\ \A q, r \in DOMAIN tab' : tab'[q].loc = tab'[r].loc => q = r
          /\ \A q \in DOMAIN tab' : tab'[q].loc # req'.hdr /\ tab'[q].loc \notin M
      BY <1>1, <3>1, <3>3, LocsAreNat DEF HeaderInv
    <3> QED
      BY <3>1, <3>2, <3>3, <3>4, <3>5, HeaderReturned
  <2> QED
    BY <2>1, <2>2
<1>4. CASE Evict
  BY <1>4, StaleHead, HeaderRemoved DEF Evict
<1>5. ASSUME NEW p \in Paths, Rm(p)
      PROVE  HeaderInv(M)'
  BY <1>5, HeaderRemoved DEF Rm
<1>6. CASE LinkNewFile
  <2>1. req.hdr \in Headers /\ req.hdr \notin Spare(M) /\ req.path \notin DOMAIN tab
    BY <1>6 DEF LinkNewFile, RequestType, HeaderOrNone, Spare, CallInv
  <2>2. req'.hdr = INVLOC /\ mb' = mb /\ DOMAIN tab' = DOMAIN tab \cup {req.path}
        /\ tab'[req.path].loc = req.hdr /\ \A q \in DOMAIN tab : tab'[q] = tab[q]
    BY <1>6, <2>1 DEF LinkNewFile, NoReq
  <2>3. \A h \in Headers : h # req.hdr => hdr'[h] = hdr[h]
    BY <1>6, <2>1 DEF LinkNewFile
  <2>4. Spare(M)' = Spare(M)
    BY <2>1, <2>2, LocsAreNat DEF Spare
  <2>5. \A h \in Spare(M) : HeaderNext'[h] = HeaderNext[h]
    BY <2>1, <2>3 DEF HeaderNext, Spare
  <2>6. Queue(Spare(M), mb.hfl, mb.hft, HeaderNext')
    BY <2>5, QueueSame DEF HeaderInv
  <2>7. /\ \A q, r \in DOMAIN tab' : tab'[q].loc = tab'[r].loc => q = r
        /\ \A q \in DOMAIN tab' : tab'[q].loc # req'.hdr /\ tab'[q].loc \notin M
    BY <1>1, <2>1, <2>2, LocsAreNat DEF HeaderInv
  <2> QED
    BY <2>2, <2>4, <2>6, <2>7 DEF HeaderInv
<1>7. ASSUME NEW p \in DOMAIN tab, NEW f, f.loc = tab[p].loc, tab' = [tab EXCEPT ![p] = f],
             mb' = mb, req'.hdr = req.hdr,
             \A h \in Headers : h # tab[p].loc => hdr'[h] = hdr[h]
      PROVE  HeaderInv(M)'
  <2>1. DOMAIN tab' = DOMAIN tab /\ \A q \in DOMAIN tab : tab'[q].loc = tab[q].loc
    BY <1>7
  <2>2. \A h \in Spare(M) : hdr'[h].next = hdr[h].next
    BY <1>1, <1>7 DEF Spare
  <2> QED
    BY <1>7, <2>1, <2>2, HeaderInvSame
<1>8. ASSUME NEW p \in Paths, NEW off \in BlockOffs, NEW len \in Lens, OverwriteBlock(p, off, off + len)
      PROVE  HeaderInv(M)'
  <2> DEFINE f == [tab[p] EXCEPT !.fileoff = Grow(tab[p].fileoff, off + len)]
  <2>1. p \in DOMAIN tab /\ f.loc = tab[p].loc /\ tab' = [tab EXCEPT ![p] = f] /\ mb' = mb /\ req' = req
        /\ \A h \in Headers : h # tab[p].loc => hdr'[h] = hdr[h]
    BY <1>1, <1>8 DEF OverwriteBlock, CachedFile
  <2> HIDE DEF f
  <2> QED
    BY <1>7, <2>1
<1>9. CASE LinkBlock
  <2> DEFINE f == tab[req.path]
             g == WithBlock(f, req.blk, req.off, req.end)
  <2>1. f \in CachedFile /\ req.blk \in Blocks /\ req.off \in BlockOffs /\ req.end \in Nat
        /\ req.path \in DOMAIN tab /\ req.hdr = INVLOC
    BY <1>9 DEF LinkBlock, CallInv, RequestType, BlockOrNone
  <2> HIDE DEF f
  <2>2. g.loc = f.loc
    BY <2>1, WithBlockType
  <2> USE DEF f
  <2>3. tab' = [tab EXCEPT ![req.path] = g] /\ mb' = mb /\ req'.hdr = INVLOC
        /\ hdr' = [hdr EXCEPT ![f.loc] = HeaderOf(req.path, g)]
    BY <1>9 DEF LinkBlock, NoReq
  <2> HIDE DEF g
  <2> QED
    BY <1>7, <2>1, <2>2, <2>3
<1>10. ASSUME NEW p \in Paths, NEW off \in TruncateOffs, TruncateStart(p, off)
       PROVE  HeaderInv(M)'
  <2> DEFINE f == [tab[p] EXCEPT !.fileoff = off]
  <2>1. p \in DOMAIN tab /\ f.loc = tab[p].loc /\ tab' = [tab EXCEPT ![p] = f] /\ mb' = mb /\ req' = req
        /\ hdr' = hdr
    BY <1>1, <1>10 DEF TruncateStart, CachedFile, disk
  <2> HIDE DEF f
  <2> QED
    BY <1>7, <2>1
<1>11. CASE TruncateBlock
  <2> DEFINE f == tab[cut.path]
  <2>1. PICK i \in CutNodes :
          /\ tab' = [tab EXCEPT ![cut.path] = WithoutNode(f, i)]
          /\ mb' = MbWithBlock(mb, f.chain[i].loc)
    BY <1>11 DEF TruncateBlock, CutBlock
  <2>2. f \in CachedFile /\ i \in DOMAIN f.chain /\ cut.path \in DOMAIN tab
    BY <1>1, <1>11 DEF TruncateBlock, CutBlock, CallInv, CutNodes
  <2>3. WithoutNode(f, i).loc = f.loc
    BY <2>2, WithoutNodeType
  <2>4. DOMAIN tab' = DOMAIN tab /\ \A q \in DOMAIN tab : tab'[q].loc = tab[q].loc
    BY <2>1, <2>2, <2>3
  <2>5. mb'.hfl = mb.hfl /\ mb'.hft = mb.hft /\ hdr' = hdr /\ req' = req
    BY <1>11, <2>1 DEF TruncateBlock, CutBlock, MbWithBlock, MasterBlockType
  <2> QED
    BY <2>4, <2>5, HeaderInvSame
<1>12. CASE TruncateDone
  <2>1. tab[cut.path].loc \in Headers /\ tab[cut.path].loc \notin Spare(M)
    BY <1>1, <1>12 DEF TruncateDone, CallInv
  <2>2. \A h \in Spare(M) : hdr'[h].next = hdr[h].next
    BY <1>12, <2>1 DEF TruncateDone, Spare
  <2> QED
    BY <1>12, <2>2, HeaderInvSame DEF TruncateDone
<1>13. ASSUME NEW p \in Paths, Append_to_stale_list(p) \/ AppendNode(p) \/ Rm_file_from_stale_list(p)
       PROVE  HeaderInv(M)'
  <2>1. PICK sn \in StaleNode : tab' = [tab EXCEPT ![p].sn = sn]
    BY <1>13 DEF Append_to_stale_list, AppendNode, Rm_file_from_stale_list, StaleNode
  <2>2. p \in DOMAIN tab /\ mb' = mb /\ hdr' = hdr /\ req' = req
    BY <1>13 DEF Append_to_stale_list, AppendNode, Rm_file_from_stale_list, disk
  <2> DEFINE f == [tab[p] EXCEPT !.sn = sn]
  <2>3. f.loc = tab[p].loc /\ tab' = [tab EXCEPT ![p] = f]
    BY <1>1, <2>1, <2>2 DEF CachedFile
  <2> HIDE DEF f
  <2> QED
    BY <1>7, <2>2, <2>3
<1>14. CASE AllocBlock
  <2>1. mb'.hfl = mb.hfl /\ mb'.hft = mb.hft /\ req'.hdr = req.hdr /\ tab' = tab /\ hdr' = hdr
    BY <1>14 DEF AllocBlock, Alloc_file_block, MasterBlockType, RequestType
  <2> QED
    BY <2>1, HeaderInvSame
<1>15. CASE RmBlock
  <2>1. mb'.hfl = mb.hfl /\ mb'.hft = mb.hft /\ req' = req /\ tab' = tab /\ hdr' = hdr
    BY <1>15 DEF RmBlock, Return_file_block, MbWithBlock, MasterBlockType
  <2> QED
    BY <2>1, HeaderInvSame
<1>16. ASSUME NEW p \in Paths, NEW off \in BlockOffs, NEW len \in Lens, NEW flag \in InsertFlags,
              InsertBlock(p, off, len, flag)
       PROVE  HeaderInv(M)'
  <2>1. req'.hdr = req.hdr /\ tab' = tab /\ hdr' = hdr /\ mb' = mb
    BY <1>16 DEF InsertBlock, CallInv, NoReq, disk
  <2> QED
    BY <2>1, HeaderInvSame
<1>17. CASE NoBlockAfterEviction \/ HeadNotListed \/ (\E p \in Paths : NodeNotListed(p))
            \/ LinkAborts \/ LinkToEvicted \/ RmDone \/ Race \/ UNCHANGED vars
  <2>1. req' = req /\ tab' = tab /\ hdr' = hdr /\ mb' = mb
    BY <1>17 DEF NoBlockAfterEviction, HeadNotListed, NodeNotListed, LinkAborts, LinkToEvicted, RmDone, Race, vars, disk
  <2> QED
    BY <2>1, HeaderInvSame
<1> QED
  BY <1>2, <1>3, <1>4, <1>5, <1>6, <1>8, <1>9, <1>10, <1>11, <1>12, <1>13, <1>14, <1>15, <1>16, <1>17
  DEF Next, Call, CallStep, CutStep, AppendStep

-----------------------------------------------------------------------------
(* Blocks: what the steps on the free list and on a file's list do.        *)

\* The blocks of a cached file are neither free, nor allocated, nor of a
\* removed file, nor of another file.
LEMMA ChainBlock ==
  ASSUME NEW L, NEW M, TypeOK, HeaderInv(M), FreeInv(L), ChainInv(L),
         NEW p \in DOMAIN tab, NEW i \in DOMAIN tab[p].chain
  PROVE  LET b == tab[p].chain[i].loc IN
         /\ b \in Blocks /\ bpn[b].fhloc = tab[p].loc /\ tab[p].loc \in Headers
         /\ b # req.blk /\ b \notin L /\ b \notin Unowned(L) /\ b \notin Dead(L)
         /\ \A q \in DOMAIN tab \ {p} : b \notin ChainLocs(q)
<1> DEFINE b == tab[p].chain[i].loc
<1>1. tab[p] \in CachedFile /\ tab[p].loc \in Headers
  BY TypeParts DEF CachedFile
<1>2. i \in 1 .. Len(tab[p].chain)
  BY <1>1, ChainType
<1>3. b \in Blocks
  BY <1>1, <1>2, ChainType
<1>4. bpn[b].fhloc = tab[p].loc /\ b \notin L
  BY DEF ChainInv, FileInv, NodesInv
<1>5. bpn[b].fhloc # INVLOC
  BY <1>1, <1>4, LocsAreNat
<1>6. b # req.blk
  BY <1>3, <1>5, LocsAreNat DEF FreeInv
<1>7. b \in ChainLocs(p)
  BY DEF ChainLocs
<1>8. ASSUME NEW q \in DOMAIN tab \ {p} PROVE b \notin ChainLocs(q)
  <2>1. \A j \in DOMAIN tab[q].chain : bpn[tab[q].chain[j].loc].fhloc = tab[q].loc
    BY DEF ChainInv, FileInv, NodesInv
  <2>2. tab[q].loc # tab[p].loc
    BY DEF HeaderInv
  <2> QED
    BY <1>4, <2>1, <2>2 DEF ChainLocs
<1> QED
  BY <1>1, <1>3, <1>4, <1>5, <1>6, <1>7, <1>8 DEF Unowned, Dead

LEMMA BlockReturned ==
  ASSUME NEW L, TypeOK, FreeInv(L), NEW nodes \in [Blocks -> NodeType], NEW b \in Blocks,
         b \notin Unowned(L), b \notin L, b # req.blk,
         \A c \in Blocks : nodes[c].fhloc = bpn[c].fhloc,
         \A c \in Unowned(L) : nodes[c] = bpn[c],
         mb' = MbWithBlock(mb, b), bpn' = NodesWithFree(mb, nodes, b), req' = req
  PROVE  /\ FreeInv(L)' /\ Unowned(L)' = Unowned(L) \cup {b}
         /\ bpn'[b] = FreeNode
         /\ \A c \in Blocks : c \notin Unowned(L) /\ c # b => bpn'[c] = nodes[c]
         /\ \A c \in Blocks : c # b => bpn'[c].fhloc = bpn[c].fhloc /\ bpn'[c].off = nodes[c].off
<1>1. mb \in MasterBlockType /\ bpn \in [Blocks -> NodeType] /\ req \in RequestType
      /\ b # INVLOC /\ INVLOC \notin Unowned(L)
  BY TypeParts, LocsAreNat DEF Unowned
<1>2. mb'.bfl = (IF mb.bfl = INVLOC THEN b ELSE mb.bfl) /\ mb'.bft = b
  BY <1>1 DEF MbWithBlock, MasterBlockType
<1>3. Queue(Unowned(L), mb.bfl, mb.bft, BlockNext)
  BY DEF FreeInv
<1>4. mb.bfl # INVLOC => mb.bft \in Unowned(L)
  BY <1>3, QueueParts
<1>5. /\ bpn'[b] = FreeNode
      /\ mb.bfl # INVLOC => bpn'[mb.bft].next = b /\ bpn'[mb.bft].fhloc = bpn[mb.bft].fhloc
                            /\ bpn'[mb.bft].off = nodes[mb.bft].off
      /\ \A c \in Blocks : c # b /\ (mb.bfl = INVLOC \/ c # mb.bft) => bpn'[c] = nodes[c]
  <2>1. CASE mb.bfl = INVLOC
    BY <1>1, <2>1 DEF NodesWithFree
  <2>2. CASE mb.bfl # INVLOC
    <3>1. bpn' = [nodes EXCEPT ![mb.bft].next = b, ![b] = FreeNode]
      BY <2>2 DEF NodesWithFree
    <3>2. mb.bft \in Blocks /\ mb.bft # b
      BY <1>4, <2>2 DEF Unowned
    <3>3. bpn'[b] = FreeNode /\ bpn'[mb.bft] = [nodes[mb.bft] EXCEPT !.next = b]
          /\ \A c \in Blocks : c # b /\ c # mb.bft => bpn'[c] = nodes[c]
      BY <3>1, <3>2
    <3>4. nodes[mb.bft] \in NodeType
      BY <3>2
    <3>5. bpn'[mb.bft].next = b /\ bpn'[mb.bft].fhloc = nodes[mb.bft].fhloc
          /\ bpn'[mb.bft].off = nodes[mb.bft].off
      BY <3>3, <3>4 DEF NodeType
    <3> QED
      BY <2>2, <3>2, <3>3, <3>5
  <2> QED
    BY <2>1, <2>2
<1>6. \A c \in Blocks : c # b => bpn'[c].fhloc = bpn[c].fhloc /\ bpn'[c].off = nodes[c].off
  BY <1>5
<1>7. Unowned(L)' = Unowned(L) \cup {b}
  BY <1>5, <1>6 DEF Unowned, FreeNode
<1>8. /\ BlockNext'[b] = INVLOC
      /\ mb.bfl # INVLOC => BlockNext'[mb.bft] = b
      /\ \A c \in Unowned(L) : c # mb.bft => BlockNext'[c] = BlockNext[c]
  <2>1. mb.bfl # INVLOC => mb.bft \in Blocks
    BY <1>4 DEF Unowned
  <2> QED
    BY <1>5, <2>1 DEF BlockNext, FreeNode, Unowned
<1>9. Queue(Unowned(L) \cup {b}, IF mb.bfl = INVLOC THEN b ELSE mb.bfl, b, BlockNext')
  <2> DEFINE next == BlockNext
             next2 == BlockNext'
             first == mb.bfl
             last == mb.bft
             S == Unowned(L)
  <2>1. /\ INVLOC \notin S /\ b \notin S /\ b # INVLOC
        /\ Queue(S, first, last, next)
        /\ next2[b] = INVLOC
        /\ first # INVLOC => next2[last] = b
        /\ \A y \in S : y # last => next2[y] = next[y]
    BY <1>1, <1>3, <1>8
  <2> HIDE DEF next, next2, first, last, S
  <2>2. Queue(S \cup {b}, IF first = INVLOC THEN b ELSE first, b, next2)
    BY ONLY <2>1, QueuePut
  <2> QED
    BY <2>2 DEF next2, first, last, S
<1>10. req'.blk # INVLOC => bpn'[req'.blk].fhloc = INVLOC
  BY <1>1, <1>6 DEF FreeInv, RequestType, BlockOrNone
<1>11. FreeInv(L)'
  BY <1>2, <1>7, <1>9, <1>10 DEF FreeInv
<1>12. \A c \in Blocks : c \notin Unowned(L) /\ c # b => bpn'[c] = nodes[c]
  BY <1>4, <1>5
<1> QED
  BY <1>5, <1>6, <1>7, <1>11, <1>12

\* The block that an Insert has taken becomes a block of a file.
LEMMA BlockLinked ==
  ASSUME NEW L, TypeOK, FreeInv(L), req.blk \in Blocks, bpn'[req.blk].fhloc # INVLOC, req'.blk = INVLOC,
         mb'.bfl = mb.bfl, mb'.bft = mb.bft,
         \A c \in Blocks \ {req.blk} : bpn'[c].fhloc = bpn[c].fhloc,
         \A c \in Unowned(L) : bpn'[c].next = bpn[c].next
  PROVE  FreeInv(L)' /\ Unowned(L)' = Unowned(L)
<1>1. Unowned(L)' = Unowned(L)
  BY LocsAreNat DEF Unowned
<1>2. \A c \in Unowned(L) : BlockNext'[c] = BlockNext[c]
  BY DEF BlockNext, Unowned
<1>3. Queue(Unowned(L), mb.bfl, mb.bft, BlockNext')
  BY <1>2, QueueSame DEF FreeInv
<1> QED
  BY <1>1, <1>3 DEF FreeInv

LEMMA FreeInvSame ==
  ASSUME NEW L, FreeInv(L), req'.blk = req.blk, mb'.bfl = mb.bfl, mb'.bft = mb.bft, bpn' = bpn
  PROVE  FreeInv(L)'
<1>1. Unowned(L)' = Unowned(L) /\ BlockNext' = BlockNext
  BY DEF Unowned, BlockNext
<1> QED
  BY <1>1 DEF FreeInv

\* The nodes of the disk after LinkBlock
LEMMA LinkedNodes ==
  ASSUME TypeOK, NEW f \in CachedFile, NEW b \in Blocks, NEW off \in BlockOffs,
         \A i \in DOMAIN f.chain : f.chain[i].loc # b
  PROVE  LET nodes == NodesWithLink(f, b, off)
             old == IF f.chain = <<>> THEN {} ELSE {Last(f.chain).loc}
         IN /\ nodes[b] = [next |-> INVLOC, fhloc |-> f.loc, off |-> off]
            /\ \A c \in old : /\ c \in Blocks /\ nodes[c].next = b
                              /\ nodes[c].fhloc = bpn[c].fhloc /\ nodes[c].off = bpn[c].off
            /\ \A c \in Blocks : c # b /\ c \notin old => nodes[c] = bpn[c]
<1> DEFINE node == [next |-> INVLOC, fhloc |-> f.loc, off |-> off]
           nodes == NodesWithLink(f, b, off)
<1>1. bpn \in [Blocks -> NodeType]
  BY TypeParts
<1>2. CASE f.chain = <<>>
  BY <1>1, <1>2 DEF NodesWithLink
<1>3. CASE f.chain # <<>>
  <2> DEFINE c == Last(f.chain).loc
  <2>1. Len(f.chain) \in DOMAIN f.chain /\ c = f.chain[Len(f.chain)].loc
    BY <1>3, ChainType DEF Last
  <2>2. c \in Blocks /\ c # b
    BY <2>1, ChainType
  <2>3. nodes = [bpn EXCEPT ![b] = node, ![c].next = b]
    BY <1>3 DEF NodesWithLink
  <2>4. bpn[c] \in NodeType
    BY <1>1, <2>2
  <2> HIDE DEF c, node, nodes
  <2>5. nodes[b] = node /\ nodes[c] = [bpn[c] EXCEPT !.next = b]
        /\ \A d \in Blocks : d # b /\ d # c => nodes[d] = bpn[d]
    BY <1>1, <2>2, <2>3
  <2>6. nodes[c].next = b /\ nodes[c].fhloc = bpn[c].fhloc /\ nodes[c].off = bpn[c].off
    BY <2>4, <2>5 DEF NodeType
  <2> QED
    BY <1>3, <2>2, <2>5, <2>6 DEF c, node, nodes
<1> QED
  BY <1>2, <1>3

\* What a truncation does to the nodes of the disk before it returns a block
LEMMA LastNodeUnlinked ==
  ASSUME NEW L, NEW M, TypeOK, HeaderInv(M), FreeInv(L), ChainInv(L),
         NEW p \in DOMAIN tab, NEW i \in DOMAIN tab[p].chain
  PROVE  LET nodes == NodesWithoutLast(tab[p], i)
             c == tab[p].chain
             old == IF i = Len(c) /\ i # 1 THEN {c[i - 1].loc} ELSE {}
         IN /\ nodes \in [Blocks -> NodeType]
            /\ \A d \in old : d \in Blocks /\ nodes[d].next = INVLOC
            /\ \A d \in Blocks : nodes[d].fhloc = bpn[d].fhloc /\ nodes[d].off = bpn[d].off
            /\ \A d \in Blocks : d \notin old => nodes[d] = bpn[d]
            /\ \A d \in Unowned(L) \cup Dead(L) : nodes[d] = bpn[d]
<1> DEFINE c == tab[p].chain
           nodes == NodesWithoutLast(tab[p], i)
<1>1. bpn \in [Blocks -> NodeType] /\ tab[p] \in CachedFile
  BY TypeParts
<1>2. CASE i = Len(c) /\ i # 1
  <2> DEFINE d == c[i - 1].loc
  <2>1. i - 1 \in DOMAIN c
    <3>1. Len(c) \in Nat /\ DOMAIN c = 1 .. Len(c) /\ i \in DOMAIN c
      BY <1>1, ChainType
    <3> HIDE DEF c
    <3> QED
      BY <1>2, <3>1
  <2>2. d \in Blocks /\ d \notin Unowned(L) /\ d \notin Dead(L)
    BY <2>1, ChainBlock
  <2>3. nodes = [bpn EXCEPT ![d].next = INVLOC]
    BY <1>2 DEF NodesWithoutLast
  <2>4. bpn[d] \in NodeType
    BY <1>1, <2>2
  <2> HIDE DEF c, d, nodes
  <2>5. nodes[d] = [bpn[d] EXCEPT !.next = INVLOC] /\ \A e \in Blocks : e # d => nodes[e] = bpn[e]
    BY <1>1, <2>2, <2>3
  <2>6. nodes[d] \in NodeType /\ nodes[d].next = INVLOC
        /\ nodes[d].fhloc = bpn[d].fhloc /\ nodes[d].off = bpn[d].off
    BY <2>4, <2>5 DEF NodeType, BlockOrNone
  <2>7. nodes \in [Blocks -> NodeType]
    BY <1>1, <2>2, <2>3, <2>5, <2>6
  <2>8. Unowned(L) \cup Dead(L) \subseteq Blocks
    BY DEF Unowned, Dead
  <2> QED
    BY <1>2, <2>2, <2>5, <2>6, <2>7, <2>8 DEF c, d, nodes
<1>3. CASE ~(i = Len(c) /\ i # 1)
  BY <1>1, <1>3 DEF NodesWithoutLast
<1> QED
  BY <1>2, <1>3

-----------------------------------------------------------------------------
(* Files: what a step that leaves a file's list alone must keep of it.     *)

LEMMA FileSame ==
  ASSUME NEW L, TypeOK, NEW q \in DOMAIN tab, q \in DOMAIN tab', FileInv(L, q),
         tab'[q].chain = tab[q].chain, tab'[q].loc = tab[q].loc,
         \A i \in DOMAIN tab[q].chain : bpn'[tab[q].chain[i].loc] = bpn[tab[q].chain[i].loc],
         \A i \in DOMAIN tab[q].chain : Kept(q, i)' => Kept(q, i),
         q # cut'.path => hdr'[tab[q].loc] = HeaderOf(q, tab'[q])
  PROVE  FileInv(L, q)'
<1>1. NodesInv(L, q)'
  BY DEF FileInv, NodesInv
<1>2. LinksInv(q)'
  <2> SUFFICES ASSUME NEW i \in DOMAIN tab[q].chain
               PROVE  LET c == tab[q].chain IN
                      /\ i = Len(c) /\ Kept(q, i)' => bpn'[c[i].loc].next = INVLOC
                      /\ i # Len(c) /\ Kept(q, i + 1)' => bpn'[c[i].loc].next = c[i + 1].loc
    BY DEF LinksInv
  <2>1. Kept(q, i)' => Kept(q, i)
    OBVIOUS
  <2>2. i # Len(tab[q].chain) => i + 1 \in DOMAIN tab[q].chain
    <3>1. Len(tab[q].chain) \in Nat /\ DOMAIN tab[q].chain = 1 .. Len(tab[q].chain)
      BY TypeParts, ChainType
    <3> QED
      BY <3>1
  <2> QED
    BY <2>1, <2>2 DEF FileInv, LinksInv
<1>3. q # cut'.path => hdr'[tab'[q].loc] = HeaderOf(q, tab'[q])
  OBVIOUS
<1> QED
  BY <1>1, <1>2, <1>3 DEF FileInv, HeaderOf

LEMMA DeadSame ==
  ASSUME NEW L, DeadInv(L), Dead(L)' = Dead(L), walk' = walk, pc' # "rm" => pc # "rm" \/ walk = INVLOC,
         \A b \in Dead(L) : bpn'[b].next = bpn[b].next
  PROVE  DeadInv(L)'
<1>1. \A b \in Dead(L) : BlockNext'[b] = BlockNext[b]
  BY DEF BlockNext, Dead
<1>2. PICK n, c : Chained(INVLOC, Dead(L), walk, BlockNext, n, c)
  BY DEF DeadInv
<1>3. Chained(INVLOC, Dead(L), walk, BlockNext', n, c)
  BY <1>1, <1>2, ChainedSame
<1>4. walk = INVLOC => Dead(L) = {}
  BY <1>2, ChainedFirst
<1> QED
  BY <1>3, <1>4 DEF DeadInv

\* A step that changes no list of a file and no block pointer
LEMMA ListsSame ==
  ASSUME NEW L, TypeOK, DeadInv(L), ChainInv(L), bpn' = bpn, walk' = walk, DOMAIN tab' = DOMAIN tab,
         pc' # "rm" => pc # "rm" \/ walk = INVLOC,
         \A q \in DOMAIN tab : tab'[q].chain = tab[q].chain /\ tab'[q].loc = tab[q].loc,
         \A q \in DOMAIN tab : \A i \in DOMAIN tab[q].chain : Kept(q, i)' => Kept(q, i),
         \A q \in DOMAIN tab : q # cut'.path => hdr'[tab[q].loc] = HeaderOf(q, tab'[q])
  PROVE  DeadInv(L)' /\ ChainInv(L)'
<1>1. Dead(L)' = Dead(L)
  BY DEF Dead, ChainLocs
<1>2. DeadInv(L)'
  BY <1>1, DeadSame
<1>3. ASSUME NEW q \in DOMAIN tab PROVE FileInv(L, q)'
  BY FileSame DEF ChainInv
<1> QED
  BY <1>2, <1>3 DEF ChainInv

LEMMA HeadersKept ==
  ASSUME NEW M, TypeOK, HeaderInv(M), NEW h \in Headers, NEW p, Return_file_header(h, p)
  PROVE  \A g \in Headers : g # h /\ g \notin Spare(M) => hdr'[g] = hdr[g]
<1>1. hdr \in [Headers -> HeaderType]
  BY TypeParts
<1>2. mb.hfl # INVLOC => mb.hft \in Spare(M)
  BY QueueParts DEF HeaderInv
<1> QED
  BY <1>1, <1>2 DEF Return_file_header, Spare

-----------------------------------------------------------------------------
(* Files: the steps that change a list.                                    *)

\* A file is removed: Rm_file_block_table_fbt before its loop.
LEMMA FileRemoved ==
  ASSUME NEW L, NEW M, NEW X, TypeOK, HeadsMatch(X), HeaderInv(M), FreeInv(L), DeadInv(L), ChainInv(L),
         NEW p \in DOMAIN tab, p # cut.path, RemoveFile(p), cut' = cut, pc # "rm"
  PROVE  /\ DeadInv(L)' /\ ChainInv(L)'
         /\ Dead(L) = {} /\ Dead(L)' = Contents[p] /\ Contents' = [Contents EXCEPT ![p] = {}]
<1> DEFINE c == [i \in DOMAIN tab[p].chain |-> tab[p].chain[i].loc]
           n == Len(tab[p].chain)
<1>1. tab[p] \in CachedFile /\ tab[p].loc \in Headers /\ p \in Paths
  BY TypeParts DEF CachedFile
<1>2. n \in Nat /\ DOMAIN tab[p].chain = 1 .. n /\ (tab[p].chain = <<>> <=> n = 0)
  BY <1>1, ChainType
<1>3. /\ Return_file_header(tab[p].loc, p) /\ DOMAIN tab' = DOMAIN tab \ {p}
      /\ \A q \in DOMAIN tab' : tab'[q] = tab[q]
      /\ bpn' = bpn /\ walk' = tab[p].nodeHeader /\ pc' = "rm"
  BY DEF RemoveFile
<1>4. ChainLocs(p) = {c[i] : i \in 1 .. n}
  BY <1>2 DEF ChainLocs
<1>5. Dead(L)' = {c[i] : i \in 1 .. n}
  <2>1. \A q \in DOMAIN tab' : ChainLocs(q)' = ChainLocs(q)
    BY <1>3 DEF ChainLocs
  <2>2. \A b \in ChainLocs(p) : b \in Blocks /\ b \notin L /\ bpn[b].fhloc # INVLOC
                                /\ \A q \in DOMAIN tab \ {p} : b \notin ChainLocs(q)
    BY ChainBlock, LocsAreNat DEF ChainLocs
  <2>3. \A q \in DOMAIN tab' : q \in DOMAIN tab \ {p}
    BY <1>3
  <2> QED
    <3>1. Dead(L) = {} /\ \A x \in ChainLocs(p) : x \in Dead(L)'
      BY <1>3, <2>1, <2>2, <2>3 DEF Dead, DeadInv
    <3>2. ASSUME NEW x \in Dead(L)' PROVE x \in ChainLocs(p)
      <4>1. /\ x \in Blocks /\ x \notin L /\ bpn[x].fhloc # INVLOC
            /\ \A q \in DOMAIN tab \ {p} : x \notin ChainLocs(q)
        BY <1>3, <2>1 DEF Dead
      <4>2. ~ \A q \in DOMAIN tab : x \notin ChainLocs(q)
        BY <3>1, <4>1 DEF Dead
      <4> QED
        BY <4>1, <4>2
    <3> QED
      BY <1>4, <3>1, <3>2
<1>6. walk' = IF n = 0 THEN INVLOC ELSE c[1]
  <2>1. n # 0 => 1 \in 1 .. n
    BY <1>2
  <2> QED
    BY <1>2, <1>3, <2>1 DEF HeadsMatch, HeadTail
<1>7. \A i \in 1 .. n : c[i] \in Blocks /\ c[i] \notin Dead(L) /\ c[i] # INVLOC
  BY <1>2, ChainBlock, LocsAreNat
<1>8. FileInv(L, p)
  BY DEF ChainInv
<1>9. \A i, j \in 1 .. n : c[i] = c[j] => i = j
  BY <1>2, <1>8 DEF FileInv, NodesInv
<1>10. \A i \in 1 .. n : BlockNext[c[i]] = IF i = n THEN INVLOC ELSE c[i + 1]
  <2> SUFFICES ASSUME NEW i \in 1 .. n
               PROVE  BlockNext[c[i]] = IF i = n THEN INVLOC ELSE c[i + 1]
    OBVIOUS
  <2>1. BlockNext[c[i]] = bpn[tab[p].chain[i].loc].next
    BY <1>2, <1>7 DEF BlockNext
  <2>2. i # n => i + 1 \in 1 .. n
    BY <1>2
  <2> QED
    BY <1>2, <1>8, <2>1, <2>2 DEF FileInv, LinksInv, Kept
<1>11. DeadInv(L)'
  <2> DEFINE next == BlockNext
             C == {c[i] : i \in 1 .. n}
             start == IF n = 0 THEN INVLOC ELSE c[1]
  <2>1. n \in Nat /\ \A i \in 1 .. n : c[i] \in C /\ c[i] # INVLOC
    BY <1>2, <1>7
  <2>2. \A x \in C : \E i \in 1 .. n : x = c[i]
    OBVIOUS
  <2>3. \A i \in 1 .. n : next[c[i]] = IF i = n THEN INVLOC ELSE c[i + 1]
    BY <1>10
  <2>4. start = IF n = 0 THEN INVLOC ELSE c[1]
    OBVIOUS
  <2> HIDE DEF next, c, n, C, start
  <2>5. Chained(INVLOC, C, start, next, n, c)
    BY <2>1, <2>2, <2>3, <2>4, <1>9 DEF Chained
  <2>6. BlockNext' = BlockNext
    BY <1>3 DEF BlockNext
  <2> QED
    BY <1>3, <1>5, <1>6, <2>5, <2>6 DEF DeadInv, next, C, start
<1>12. ChainInv(L)'
  <2> SUFFICES ASSUME NEW q \in DOMAIN tab' PROVE FileInv(L, q)'
    BY DEF ChainInv
  <2>1. q \in DOMAIN tab /\ q # p /\ tab'[q] = tab[q] /\ FileInv(L, q)
    BY <1>3 DEF ChainInv
  <2>2. tab[q].loc \in Headers /\ tab[q].loc \notin Spare(M) /\ tab[q].loc # tab[p].loc
    BY <2>1, TypeParts DEF CachedFile, Spare, HeaderInv
  <2>3. hdr'[tab[q].loc] = hdr[tab[q].loc]
    BY <1>1, <1>3, <2>2, HeadersKept
  <2>4. q # cut'.path => hdr'[tab[q].loc] = HeaderOf(q, tab'[q])
    BY <2>1, <2>3 DEF FileInv
  <2>5. \A i \in DOMAIN tab[q].chain : Kept(q, i)' => Kept(q, i)
    BY <2>1 DEF Kept
  <2> QED
    BY <1>3, <2>1, <2>4, <2>5, FileSame
<1>13. Dead(L) = {} /\ Dead(L)' = Contents[p]
  BY <1>1, <1>4, <1>5 DEF DeadInv, Contents
<1>14. Contents' = [Contents EXCEPT ![p] = {}]
  BY <1>3 DEF Contents, ChainLocs
<1> QED
  BY <1>11, <1>12, <1>13, <1>14

\* One turn of the loop: the block is the first of Dead.
LEMMA DeadReturned ==
  ASSUME NEW L, NEW M, TypeOK, HeaderInv(M), FreeInv(L), DeadInv(L), ChainInv(L), RmBlock
  PROVE  /\ FreeInv(L)' /\ DeadInv(L)' /\ ChainInv(L)'
         /\ walk \in Dead(L) /\ Dead(L)' = Dead(L) \ {walk} /\ Unowned(L)' = Unowned(L) \cup {walk}
<1>1. /\ walk # INVLOC /\ walk' = bpn[walk].next
      /\ mb' = MbWithBlock(mb, walk) /\ bpn' = NodesWithFree(mb, bpn, walk)
      /\ hdr' = hdr /\ tab' = tab /\ req' = req /\ cut' = cut /\ pc = "rm" /\ pc' = pc
  BY DEF RmBlock, Return_file_block
<1>2. walk \in Dead(L)
  BY <1>1, ChainedFirst DEF DeadInv
<1>3. walk \in Blocks /\ walk \notin Unowned(L) /\ walk \notin L /\ walk # req.blk
  BY <1>2, LocsAreNat DEF Dead, Unowned, FreeInv
<1>4. bpn \in [Blocks -> NodeType]
  BY TypeParts
<1>5. /\ FreeInv(L)' /\ bpn'[walk] = FreeNode /\ Unowned(L)' = Unowned(L) \cup {walk}
      /\ \A c \in Blocks : c \notin Unowned(L) /\ c # walk => bpn'[c] = bpn[c]
      /\ \A c \in Blocks : c # walk => bpn'[c].fhloc = bpn[c].fhloc
  BY <1>1, <1>3, <1>4, BlockReturned
<1>6. Dead(L)' = Dead(L) \ {walk}
  BY <1>1, <1>5 DEF Dead, ChainLocs, FreeNode
<1>7. DeadInv(L)'
  <2>1. PICK n, c : Chained(INVLOC, Dead(L), walk, BlockNext, n, c)
    BY DEF DeadInv
  <2>2. PICK m, d : Chained(INVLOC, Dead(L) \ {walk}, BlockNext[walk], BlockNext, m, d)
    BY <1>1, <2>1, ChainedTake
  <2>3. \A b \in Dead(L) \ {walk} : BlockNext'[b] = BlockNext[b]
    BY <1>5 DEF BlockNext, Dead, Unowned
  <2>4. Chained(INVLOC, Dead(L) \ {walk}, BlockNext[walk], BlockNext', m, d)
    BY <2>2, <2>3, ChainedSame
  <2>5. walk' = BlockNext[walk]
    BY <1>1, <1>3 DEF BlockNext
  <2> QED
    BY <1>1, <1>6, <2>4, <2>5 DEF DeadInv
<1>8. ASSUME NEW q \in DOMAIN tab PROVE FileInv(L, q)'
  <2>1. \A i \in DOMAIN tab[q].chain : bpn'[tab[q].chain[i].loc] = bpn[tab[q].chain[i].loc]
    BY <1>2, <1>5, ChainBlock
  <2>2. \A i \in DOMAIN tab[q].chain : Kept(q, i)' => Kept(q, i)
    BY <1>1 DEF Kept
  <2>3. q # cut'.path => hdr'[tab[q].loc] = HeaderOf(q, tab'[q])
    BY <1>1 DEF ChainInv, FileInv
  <2> QED
    BY <1>1, <2>1, <2>2, <2>3, FileSame DEF ChainInv
<1> QED
  BY <1>1, <1>2, <1>5, <1>6, <1>7, <1>8 DEF ChainInv

\* An Insert takes the first free block.
LEMMA BlockTaken ==
  ASSUME NEW L, TypeOK, CallInv, FreeInv(L), AllocBlock
  PROVE  /\ FreeInv(L)' /\ req.blk = INVLOC /\ req'.blk = mb.bfl
         /\ mb.bfl \in Unowned(L) /\ Unowned(L)' = Unowned(L) \ {mb.bfl}
<1> DEFINE b == mb.bfl
           n == bpn[b].next
<1>1. /\ b # INVLOC /\ bpn' = bpn /\ pc \in {"alloc", "realloc"}
      /\ mb' = [mb EXCEPT !.bfl = n, !.bft = IF n = INVLOC THEN INVLOC ELSE @]
      /\ req' = [req EXCEPT !.blk = b]
  BY DEF AllocBlock, Alloc_file_block
<1>2. mb \in MasterBlockType /\ req \in RequestType /\ bpn \in [Blocks -> NodeType]
  BY TypeParts
<1>3. mb'.bfl = n /\ mb'.bft = (IF n = INVLOC THEN INVLOC ELSE mb.bft) /\ req'.blk = b
  BY <1>1, <1>2 DEF MasterBlockType, RequestType
<1>4. req.blk = INVLOC
  BY <1>1 DEF CallInv
<1>5. Queue(Unowned(L), b, mb.bft, BlockNext) /\ INVLOC \notin Unowned(L)
  BY LocsAreNat DEF FreeInv, Unowned
<1>6. b \in Unowned(L) /\ b \in Blocks /\ b \notin L /\ bpn[b].fhloc = INVLOC
  BY <1>1, <1>5, QueueParts DEF Unowned
<1>7. Unowned(L)' = Unowned(L) \ {b} /\ BlockNext' = BlockNext /\ n = BlockNext[b]
  BY <1>1, <1>3, <1>4, <1>6, LocsAreNat DEF Unowned, BlockNext
<1> HIDE DEF b, n
<1>8. Queue(Unowned(L) \ {b}, n, IF n = INVLOC THEN INVLOC ELSE mb.bft, BlockNext)
  BY <1>1, <1>5, <1>7, QueueTake
<1> QED
  BY <1>1, <1>3, <1>4, <1>6, <1>7, <1>8 DEF FreeInv, b

\* The first block of a new file
LEMMA NewFileLinked ==
  ASSUME NEW L, NEW M, TypeOK, CallInv, HeaderInv(M), FreeInv(L), DeadInv(L), ChainInv(L), LinkNewFile
  PROVE  /\ FreeInv(L)' /\ DeadInv(L)' /\ ChainInv(L)' /\ req.blk # INVLOC /\ req'.blk = INVLOC
         /\ Unowned(L)' = Unowned(L) /\ Dead(L)' = Dead(L) /\ req.path \in Paths
         /\ Contents' = [Contents EXCEPT ![req.path] = @ \cup {req.blk}]
<1> DEFINE b == req.blk
           h == req.hdr
<1>1. PICK p \in Paths : p = req.path
  BY DEF LinkNewFile, CallInv
<1>2. b \in Blocks /\ h \in Headers /\ p \notin DOMAIN tab
  BY <1>1, TypeParts DEF LinkNewFile, CallInv, RequestType, BlockOrNone, HeaderOrNone
<1>3. PICK f : /\ f = [loc |-> h, nodeHeader |-> b, nodeTail |-> b,
                       fileoff |-> Grow(hdr[h].fileoff, req.end),
                       chain |-> <<[loc |-> b, off |-> req.off]>>, sn |-> "null"]
               /\ tab' = [q \in DOMAIN tab \cup {p} |-> IF q = p THEN f ELSE tab[q]]
               /\ hdr' = [hdr EXCEPT ![f.loc] = HeaderOf(p, f)]
               /\ bpn' = [bpn EXCEPT ![b] = [next |-> INVLOC, fhloc |-> f.loc, off |-> req.off]]
  BY <1>1 DEF LinkNewFile
<1>4. /\ f.loc = h /\ f.chain = <<[loc |-> b, off |-> req.off]>>
      /\ DOMAIN f.chain = {1} /\ Len(f.chain) = 1 /\ f.chain[1] = [loc |-> b, off |-> req.off]
  BY <1>3
<1>5. DOMAIN tab' = DOMAIN tab \cup {p} /\ tab'[p] = f /\ \A q \in DOMAIN tab : tab'[q] = tab[q]
  BY <1>2, <1>3
<1>6. /\ bpn'[b] = [next |-> INVLOC, fhloc |-> h, off |-> req.off]
      /\ \A c \in Blocks \ {b} : bpn'[c] = bpn[c]
      /\ hdr'[h] = HeaderOf(p, f)
      /\ \A g \in Headers \ {h} : hdr'[g] = hdr[g]
  BY <1>2, <1>3, <1>4, TypeParts
<1>7. bpn[b].fhloc = INVLOC /\ b \notin L /\ h # INVLOC
  BY <1>2, LocsAreNat DEF FreeInv
<1>8. FreeInv(L)' /\ Unowned(L)' = Unowned(L) /\ req'.blk = INVLOC
  <2>1. req'.blk = INVLOC /\ mb' = mb
    BY DEF LinkNewFile, NoReq
  <2>2. \A c \in Unowned(L) : c \in Blocks \ {b}
    BY DEF Unowned
  <2>3. bpn'[req.blk].fhloc # INVLOC
    BY <1>6, <1>7
  <2> QED
    BY <1>2, <1>6, <2>1, <2>2, <2>3, BlockLinked
<1>9. Dead(L)' = Dead(L)
  <2>1. ChainLocs(p)' = {b}
    BY <1>4, <1>5 DEF ChainLocs
  <2>2. \A q \in DOMAIN tab : ChainLocs(q)' = ChainLocs(q)
    BY <1>5 DEF ChainLocs
  <2>3. b \notin Dead(L)
    BY <1>7 DEF Dead
  <2>4. b \notin Dead(L)'
    BY <1>5, <2>1 DEF Dead
  <2>5. \A c \in Blocks \ {b} : c \in Dead(L)' <=> c \in Dead(L)
    BY <1>5, <1>6, <2>1, <2>2 DEF Dead
  <2> QED
    BY <2>3, <2>4, <2>5 DEF Dead
<1>10. DeadInv(L)'
  <2>1. \A c \in Dead(L) : c \in Blocks \ {b}
    BY <1>7 DEF Dead
  <2> QED
    BY <1>6, <1>9, <2>1, DeadSame DEF LinkNewFile
<1>11. FileInv(L, p)'
  <2> HIDE DEF b, h
  <2>1. NodesInv(L, p)'
    BY <1>4, <1>5, <1>6, <1>7 DEF NodesInv
  <2>2. LinksInv(p)'
    <3>1. tab'[p].chain = f.chain
      BY <1>5
    <3>2. f.chain[1].loc = b /\ bpn'[b].next = INVLOC
      BY <1>4, <1>6
    <3>3. \A i \in DOMAIN f.chain : i = 1
      BY <1>4
    <3>4. \A i \in DOMAIN tab'[p].chain :
            i = Len(tab'[p].chain) /\ bpn'[tab'[p].chain[i].loc].next = INVLOC
      BY ONLY <1>4, <3>1, <3>2, <3>3
    <3> QED
      BY <3>4 DEF LinksInv
  <2>3. hdr'[tab'[p].loc] = HeaderOf(p, tab'[p])
    BY <1>4, <1>5, <1>6
  <2>4. HeaderOf(p, tab[p])' = HeaderOf(p, tab'[p])
    BY DEF HeaderOf
  <2> QED
    BY <2>1, <2>2, <2>3, <2>4 DEF FileInv
<1>12. ASSUME NEW q \in DOMAIN tab PROVE FileInv(L, q)'
  <2>1. tab[q].loc \in Headers \ {h}
    BY TypeParts DEF CachedFile, HeaderInv
  <2>2. hdr'[tab[q].loc] = hdr[tab[q].loc] /\ cut' = cut
    BY <1>6, <2>1 DEF LinkNewFile
  <2>3. q # cut'.path => hdr'[tab[q].loc] = HeaderOf(q, tab'[q])
    BY <1>5, <2>2 DEF ChainInv, FileInv
  <2>4. \A i \in DOMAIN tab[q].chain : bpn'[tab[q].chain[i].loc] = bpn[tab[q].chain[i].loc]
    BY <1>6, ChainBlock
  <2>5. \A i \in DOMAIN tab[q].chain : Kept(q, i)' => Kept(q, i)
    BY <1>5, <2>2 DEF Kept
  <2> QED
    BY <1>5, <2>3, <2>4, <2>5, FileSame DEF ChainInv
<1>13. Contents' = [Contents EXCEPT ![p] = @ \cup {b}]
  <2>1. ChainLocs(p)' = {b} /\ \A q \in DOMAIN tab : ChainLocs(q)' = ChainLocs(q)
    BY <1>4, <1>5 DEF ChainLocs
  <2> QED
    BY <1>2, <1>5, <2>1 DEF Contents
<1> QED
  BY <1>1, <1>2, <1>5, <1>8, <1>9, <1>10, <1>11, <1>12, <1>13, LocsAreNat DEF ChainInv

\* Insert_RSC_table appends a block to a cached file.
LEMMA BlockAppended ==
  ASSUME NEW L, NEW M, TypeOK, CallInv, HeaderInv(M), FreeInv(L), DeadInv(L), ChainInv(L), LinkBlock
  PROVE  /\ FreeInv(L)' /\ DeadInv(L)' /\ ChainInv(L)' /\ req.blk # INVLOC /\ req'.blk = INVLOC
         /\ Unowned(L)' = Unowned(L) /\ Dead(L)' = Dead(L) /\ req.path \in Paths
         /\ Contents' = [Contents EXCEPT ![req.path] = @ \cup {req.blk}]
<1>1. PICK p \in DOMAIN tab : p = req.path
  BY DEF LinkBlock
<1> DEFINE b == req.blk
           off == req.off
           f == tab[p]
           c == tab[p].chain
           n == Len(c)
<1>2. /\ b \in Blocks /\ off \in BlockOffs /\ req.end \in Nat /\ f \in CachedFile
      /\ f.loc \in Headers /\ p \in Paths /\ p # cut.path /\ Arrives(p, off)
  BY <1>1, TypeParts DEF LinkBlock, CallInv, RequestType, BlockOrNone, CachedFile
<1>3. PICK g : /\ g = WithBlock(f, b, off, req.end)
               /\ tab' = [tab EXCEPT ![p] = g]
               /\ hdr' = [hdr EXCEPT ![f.loc] = HeaderOf(p, g)]
               /\ bpn' = NodesWithLink(f, b, off)
  BY <1>1 DEF LinkBlock
<1>4. n \in Nat /\ DOMAIN c = 1 .. n /\ (c = <<>> <=> n = 0) /\ \A i \in 1 .. n : c[i].loc \in Blocks
  BY <1>2, ChainType
<1>5. g.loc = f.loc /\ g.chain = Append(c, [loc |-> b, off |-> off])
  BY <1>2, <1>3, WithBlockType
<1>6. /\ Len(g.chain) = n + 1 /\ DOMAIN g.chain = 1 .. (n + 1)
      /\ \A i \in 1 .. n : g.chain[i] = c[i]
      /\ g.chain[n + 1].loc = b /\ g.chain[n + 1].off = off
  <2>1. c \in Seq(ChainNode) /\ [loc |-> b, off |-> off] \in ChainNode
    BY <1>2 DEF CachedFile, ChainNode
  <2> QED
    BY <1>4, <1>5, <2>1, AppendProperties
<1>7. DOMAIN tab' = DOMAIN tab /\ tab'[p] = g /\ \A q \in DOMAIN tab \ {p} : tab'[q] = tab[q]
  BY <1>3
<1>8. bpn[b].fhloc = INVLOC /\ b \notin L /\ f.loc # INVLOC
  BY <1>2, LocsAreNat DEF FreeInv
<1>9. \A i \in DOMAIN c : c[i].loc # b
  BY ChainBlock
<1>10. /\ bpn'[b].next = INVLOC /\ bpn'[b].fhloc = f.loc /\ bpn'[b].off = off
       /\ n # 0 => bpn'[c[n].loc].next = b
       /\ \A d \in Blocks \ {b} : bpn'[d].fhloc = bpn[d].fhloc /\ bpn'[d].off = bpn[d].off
       /\ \A d \in Blocks \ {b} : (n # 0 => d # c[n].loc) => bpn'[d] = bpn[d]
  <2> DEFINE old == IF f.chain = <<>> THEN {} ELSE {Last(f.chain).loc}
  <2>1. /\ bpn'[b] = [next |-> INVLOC, fhloc |-> f.loc, off |-> off]
        /\ \A d \in old : /\ d \in Blocks /\ bpn'[d].next = b
                          /\ bpn'[d].fhloc = bpn[d].fhloc /\ bpn'[d].off = bpn[d].off
        /\ \A d \in Blocks : d # b /\ d \notin old => bpn'[d] = bpn[d]
    BY <1>2, <1>3, <1>9, LinkedNodes
  <2>2. old = IF n = 0 THEN {} ELSE {c[n].loc}
    BY <1>4 DEF Last
  <2> HIDE DEF old, b, off, f, c, n
  <2> QED
    BY ONLY <2>1, <2>2
<1>11. hdr'[f.loc] = HeaderOf(p, g) /\ \A h \in Headers \ {f.loc} : hdr'[h] = hdr[h]
  BY <1>2, <1>3, TypeParts
<1>12. n # 0 => c[n].loc \notin Unowned(L) /\ c[n].loc \notin Dead(L)
                /\ \A q \in DOMAIN tab \ {p} : c[n].loc \notin ChainLocs(q)
  <2>1. n # 0 => n \in DOMAIN c
    BY <1>4
  <2> QED
    BY <2>1, ChainBlock
<1>13. FreeInv(L)' /\ Unowned(L)' = Unowned(L) /\ req'.blk = INVLOC
  <2>1. req'.blk = INVLOC /\ mb' = mb
    BY DEF LinkBlock, NoReq
  <2>2. \A d \in Unowned(L) : d \in Blocks \ {b} /\ bpn'[d].next = bpn[d].next
    BY <1>10, <1>12 DEF Unowned
  <2> QED
    BY <1>2, <1>8, <1>10, <2>1, <2>2, BlockLinked
<1>14. ChainLocs(p)' = ChainLocs(p) \cup {b} /\ \A q \in DOMAIN tab \ {p} : ChainLocs(q)' = ChainLocs(q)
  <2>1. ChainLocs(p)' = {g.chain[i].loc : i \in 1 .. (n + 1)} /\ ChainLocs(p) = {c[i].loc : i \in 1 .. n}
    BY <1>4, <1>6, <1>7 DEF ChainLocs
  <2>2. \A i \in 1 .. (n + 1) : i \in 1 .. n \/ i = n + 1
    BY <1>4
  <2>3. \A i \in 1 .. n : i \in 1 .. (n + 1)
    BY <1>4
  <2>4. n + 1 \in 1 .. (n + 1)
    BY <1>4
  <2>5. \A q \in DOMAIN tab \ {p} : ChainLocs(q)' = ChainLocs(q)
    BY <1>7 DEF ChainLocs
  <2> HIDE DEF b, off, f, c, n
  <2>6. {g.chain[i].loc : i \in 1 .. (n + 1)} = {c[i].loc : i \in 1 .. n} \cup {b}
    BY ONLY <1>6, <2>2, <2>3, <2>4
  <2> QED
    BY <2>1, <2>5, <2>6
<1>15. Dead(L)' = Dead(L)
  <2>1. b \notin Dead(L)
    BY <1>8 DEF Dead
  <2>2. b \notin Dead(L)'
    BY <1>7, <1>14 DEF Dead
  <2>3. \A d \in Blocks \ {b} : d \in Dead(L)' <=> d \in Dead(L)
    BY <1>7, <1>10, <1>14 DEF Dead
  <2> QED
    BY <2>1, <2>2, <2>3 DEF Dead
<1>16. DeadInv(L)'
  <2>1. \A d \in Dead(L) : d \in Blocks \ {b} /\ bpn'[d].next = bpn[d].next
    BY <1>8, <1>10, <1>12 DEF Dead
  <2> QED
    BY <1>15, <2>1, DeadSame DEF LinkBlock
<1>17. FileInv(L, p)
  BY DEF ChainInv
<1>18. FileInv(L, p)'
  <2>1. NodesInv(L, p)'
    <3>1. /\ \A i, j \in 1 .. n : c[i].loc = c[j].loc => i = j
          /\ \A i \in 1 .. n : /\ c[i].loc \notin L
                               /\ bpn[c[i].loc].fhloc = f.loc /\ bpn[c[i].loc].off = c[i].off
          /\ AnyOrder \/ \A i, j \in 1 .. n : i < j => c[i].off < c[j].off
      BY <1>4, <1>17 DEF FileInv, NodesInv
    <3>2. \A i \in 1 .. n : c[i].loc \in Blocks \ {b}
      BY <1>4, <1>9
    <3>3. AnyOrder \/ \A i \in 1 .. n : c[i].off < off
      BY <1>2, <1>4 DEF Arrives, Offs
    <3>4. \A i \in 1 .. (n + 1) : i \in 1 .. n \/ i = n + 1
      BY <1>4
    <3>5. ~(n + 1 < n + 1) /\ \A i \in 1 .. n : ~(n + 1 < i)
      BY <1>4
    <3> DEFINE d == g.chain
    <3>6. \A i, j \in 1 .. (n + 1) : d[i].loc = d[j].loc => i = j
      <4> HIDE DEF b, off, f, c, n, d
      <4> QED
        BY ONLY <1>6, <3>1, <3>2, <3>4 DEF d
    <3>7. \A i \in 1 .. (n + 1) : /\ d[i].loc \notin L
                                   /\ bpn'[d[i].loc].fhloc = g.loc /\ bpn'[d[i].loc].off = d[i].off
      <4> HIDE DEF b, off, f, c, n, d
      <4> QED
        BY ONLY <1>5, <1>6, <1>8, <1>10, <3>1, <3>2, <3>4 DEF d
    <3>8. AnyOrder \/ \A i, j \in 1 .. (n + 1) : i < j => d[i].off < d[j].off
      <4> HIDE DEF b, off, f, c, n, d
      <4> QED
        BY ONLY <1>6, <3>1, <3>3, <3>4, <3>5 DEF d
    <3> QED
      BY <1>6, <1>7, <3>6, <3>7, <3>8 DEF NodesInv
  <2>2. LinksInv(p)'
    <3>1. \A i \in 1 .. n : i # n => bpn[c[i].loc].next = c[i + 1].loc
      <4>1. \A i \in 1 .. n : Kept(p, i) /\ Kept(p, i + 1)
        BY <1>2 DEF Kept
      <4> QED
        BY <1>4, <1>17, <4>1 DEF FileInv, LinksInv
    <3>2. \A i \in 1 .. n : c[i].loc \in Blocks \ {b}
      BY <1>4, <1>9
    <3>3. \A i \in 1 .. n : i # n => c[i].loc # c[n].loc /\ i + 1 \in 1 .. n
      BY <1>4, <1>17 DEF FileInv, NodesInv
    <3>4. \A i \in 1 .. (n + 1) :
            /\ i = n + 1 => bpn'[g.chain[i].loc].next = INVLOC
            /\ i # n + 1 => bpn'[g.chain[i].loc].next = g.chain[i + 1].loc
      <4> SUFFICES ASSUME NEW i \in 1 .. (n + 1)
                   PROVE  /\ i = n + 1 => bpn'[g.chain[i].loc].next = INVLOC
                          /\ i # n + 1 => bpn'[g.chain[i].loc].next = g.chain[i + 1].loc
        OBVIOUS
      <4>1. i # n + 1 => i \in 1 .. n
        BY <1>4
      <4> HIDE DEF b, off, f, c, n
      <4>2. CASE i = n + 1
        BY <4>2, <1>6, <1>10
      <4>3. CASE i = n
        BY ONLY <4>1, <4>3, <1>4, <1>6, <1>10
      <4>4. CASE i # n + 1 /\ i # n
        <5>1. g.chain[i] = c[i] /\ g.chain[i + 1] = c[i + 1]
          BY <4>1, <4>4, <1>6, <3>3
        <5>2. bpn'[c[i].loc] = bpn[c[i].loc]
          BY <4>1, <4>4, <1>10, <3>2, <3>3
        <5> QED
          BY <4>1, <4>4, <5>1, <5>2, <3>1
      <4> QED
        BY <4>2, <4>3, <4>4
    <3> QED
      BY <1>6, <1>7, <3>4 DEF LinksInv
  <2>3. hdr'[tab'[p].loc] = HeaderOf(p, tab'[p])
    BY <1>5, <1>7, <1>11
  <2>4. HeaderOf(p, tab[p])' = HeaderOf(p, tab'[p])
    BY DEF HeaderOf
  <2> QED
    BY <2>1, <2>2, <2>3, <2>4 DEF FileInv
<1>19. ASSUME NEW q \in DOMAIN tab \ {p} PROVE FileInv(L, q)'
  <2>1. tab[q].loc \in Headers \ {f.loc}
    BY TypeParts DEF CachedFile, HeaderInv
  <2>2. hdr'[tab[q].loc] = hdr[tab[q].loc] /\ cut' = cut
    BY <1>11, <2>1 DEF LinkBlock
  <2>3. q # cut'.path => hdr'[tab[q].loc] = HeaderOf(q, tab'[q])
    BY <1>7, <2>2 DEF ChainInv, FileInv
  <2>4. \A i \in DOMAIN tab[q].chain : bpn'[tab[q].chain[i].loc] = bpn[tab[q].chain[i].loc]
    <3> SUFFICES ASSUME NEW i \in DOMAIN tab[q].chain
                 PROVE  bpn'[tab[q].chain[i].loc] = bpn[tab[q].chain[i].loc]
      OBVIOUS
    <3>1. tab[q].chain[i].loc \in Blocks \ {b} /\ tab[q].chain[i].loc \in ChainLocs(q)
      BY ChainBlock DEF ChainLocs
    <3> QED
      BY <3>1, <1>10, <1>12
  <2>5. \A i \in DOMAIN tab[q].chain : Kept(q, i)' => Kept(q, i)
    BY <1>7, <2>2 DEF Kept
  <2> QED
    BY <1>7, <2>3, <2>4, <2>5, FileSame DEF ChainInv
<1>20. Contents' = [Contents EXCEPT ![p] = @ \cup {b}]
  BY <1>2, <1>7, <1>14 DEF Contents
<1> QED
  BY <1>1, <1>2, <1>7, <1>13, <1>15, <1>16, <1>18, <1>19, <1>20, LocsAreNat DEF ChainInv

\* One turn of Truncate_file_block_table's loop.  The blocks of the file ascend,
\* so those to be unlinked are its last ones, and a node that stays is linked to
\* one that goes only when it is the new last of the list.
LEMMA BlockCut ==
  ASSUME NEW L, NEW M, TypeOK, CallInv, HeaderInv(M), FreeInv(L), DeadInv(L), ChainInv(L),
         CutInv, TruncateBlock
  PROVE  /\ FreeInv(L)' /\ DeadInv(L)' /\ ChainInv(L)' /\ Dead(L)' = Dead(L)
         /\ \E p \in Paths : \E b \in Contents[p] :
              /\ Unowned(L)' = Unowned(L) \cup {b}
              /\ Contents' = [Contents EXCEPT ![p] = @ \ {b}]
<1>1. PICK p \in DOMAIN tab : p = cut.path
  BY DEF TruncateBlock, CutBlock, CallInv
<1> DEFINE c == tab[p].chain
           n == Len(c)
<1>2. PICK i \in DOMAIN c :
        /\ c[i].off > cut.off
        /\ tab' = [tab EXCEPT ![p] = WithoutNode(tab[p], i)]
        /\ mb' = MbWithBlock(mb, c[i].loc)
        /\ bpn' = NodesWithFree(mb, NodesWithoutLast(tab[p], i), c[i].loc)
  BY <1>1 DEF TruncateBlock, CutBlock, CutNodes
<1> DEFINE b == c[i].loc
           nodes == NodesWithoutLast(tab[p], i)
           d == RemoveAt(c, i)
<1>3. tab[p] \in CachedFile /\ ~AnyOrder /\ cut.off \in Nat
      /\ hdr' = hdr /\ req' = req /\ cut' = cut /\ walk' = walk /\ pc' = pc
  BY <1>1, TypeParts DEF TruncateBlock, CutBlock, CutInv, CutType
<1>4. /\ n \in Nat /\ DOMAIN c = 1 .. n /\ i \in 1 .. n
      /\ \A j \in 1 .. n : c[j].loc \in Blocks /\ c[j].off \in Nat
  BY <1>3, ChainType
<1>5. /\ Len(d) = n - 1 /\ DOMAIN d = 1 .. (n - 1)
      /\ \A j \in 1 .. (n - 1) : d[j] = IF j < i THEN c[j] ELSE c[j + 1]
  BY <1>3, RemoveAtProperties DEF CachedFile
<1>6. /\ DOMAIN tab' = DOMAIN tab /\ tab'[p].chain = d /\ tab'[p].loc = tab[p].loc
      /\ \A q \in DOMAIN tab \ {p} : tab'[q] = tab[q]
  BY <1>2, <1>3, WithoutNodeType
<1>7. \A j \in 1 .. n : /\ c[j].loc \in Blocks /\ c[j].loc \notin Unowned(L) /\ c[j].loc \notin L
                        /\ c[j].loc \notin Dead(L) /\ c[j].loc # req.blk
                        /\ \A q \in DOMAIN tab \ {p} : c[j].loc \notin ChainLocs(q)
  BY <1>4, ChainBlock
<1>8. /\ \A j, k \in 1 .. n : c[j].loc = c[k].loc => j = k
      /\ \A j \in 1 .. n : bpn[c[j].loc].fhloc = tab[p].loc /\ bpn[c[j].loc].off = c[j].off
      /\ \A j, k \in 1 .. n : j < k => c[j].off < c[k].off
  BY <1>3, <1>4 DEF ChainInv, FileInv, NodesInv
<1>9. /\ nodes \in [Blocks -> NodeType]
      /\ i = n /\ i # 1 => nodes[c[i - 1].loc].next = INVLOC
      /\ \A e \in Blocks : nodes[e].fhloc = bpn[e].fhloc /\ nodes[e].off = bpn[e].off
      /\ \A e \in Blocks : (i = n /\ i # 1 => e # c[i - 1].loc) => nodes[e] = bpn[e]
      /\ \A e \in Unowned(L) \cup Dead(L) : nodes[e] = bpn[e]
  <2> DEFINE old == IF i = n /\ i # 1 THEN {c[i - 1].loc} ELSE {}
  <2>1. /\ nodes \in [Blocks -> NodeType]
        /\ \A e \in old : e \in Blocks /\ nodes[e].next = INVLOC
        /\ \A e \in Blocks : nodes[e].fhloc = bpn[e].fhloc /\ nodes[e].off = bpn[e].off
        /\ \A e \in Blocks : e \notin old => nodes[e] = bpn[e]
        /\ \A e \in Unowned(L) \cup Dead(L) : nodes[e] = bpn[e]
    BY LastNodeUnlinked
  <2> HIDE DEF nodes, c, n
  <2> QED
    BY ONLY <2>1
<1>10. /\ FreeInv(L)' /\ bpn'[b] = FreeNode /\ Unowned(L)' = Unowned(L) \cup {b}
       /\ \A e \in Blocks : e \notin Unowned(L) /\ e # b => bpn'[e] = nodes[e]
       /\ \A e \in Blocks : e # b => bpn'[e].fhloc = bpn[e].fhloc /\ bpn'[e].off = nodes[e].off
  <2>1. b \in Blocks /\ b \notin Unowned(L) /\ b \notin L /\ b # req.blk
    BY <1>4, <1>7
  <2> HIDE DEF nodes, b
  <2>2. /\ mb' = MbWithBlock(mb, b) /\ bpn' = NodesWithFree(mb, nodes, b)
    BY <1>2 DEF nodes, b
  <2>3. /\ \A e \in Blocks : nodes[e].fhloc = bpn[e].fhloc
        /\ \A e \in Unowned(L) : nodes[e] = bpn[e]
    BY <1>9
  <2> QED
    BY <1>3, <1>9, <2>1, <2>2, <2>3, BlockReturned
<1>11. /\ ChainLocs(p)' = ChainLocs(p) \ {b}
       /\ \A q \in DOMAIN tab \ {p} : ChainLocs(q)' = ChainLocs(q)
  <2>1. ChainLocs(p)' = {d[j].loc : j \in 1 .. (n - 1)} /\ ChainLocs(p) = {c[j].loc : j \in 1 .. n}
    BY <1>4, <1>5, <1>6 DEF ChainLocs
  <2>2. \A j \in 1 .. (n - 1) : \E k \in 1 .. n : k # i /\ d[j] = c[k]
    <3> SUFFICES ASSUME NEW j \in 1 .. (n - 1) PROVE \E k \in 1 .. n : k # i /\ d[j] = c[k]
      OBVIOUS
    <3>1. CASE j < i
      BY <3>1, <1>4, <1>5
    <3>2. CASE ~(j < i)
      <4>1. j + 1 \in 1 .. n /\ j + 1 # i
        BY <3>2, <1>4
      <4> QED
        BY <3>2, <4>1, <1>5
    <3> QED
      BY <3>1, <3>2
  <2>3. \A k \in 1 .. n : k # i => \E j \in 1 .. (n - 1) : d[j] = c[k]
    <3> SUFFICES ASSUME NEW k \in 1 .. n, k # i PROVE \E j \in 1 .. (n - 1) : d[j] = c[k]
      OBVIOUS
    <3>1. CASE k < i
      <4>1. k \in 1 .. (n - 1)
        BY <3>1, <1>4
      <4> QED
        BY <3>1, <4>1, <1>5
    <3>2. CASE ~(k < i)
      <4>1. k - 1 \in 1 .. (n - 1) /\ ~(k - 1 < i) /\ (k - 1) + 1 = k
        BY <3>2, <1>4
      <4> QED
        BY <4>1, <1>5
    <3> QED
      BY <3>1, <3>2
  <2>4. \A q \in DOMAIN tab \ {p} : ChainLocs(q)' = ChainLocs(q)
    BY <1>6 DEF ChainLocs
  <2>5. {d[j].loc : j \in 1 .. (n - 1)} = {c[j].loc : j \in 1 .. n} \ {b}
    <3>1. i \in 1 .. n /\ \A k \in 1 .. n : k # i => c[k].loc # b
      BY <1>4, <1>8
    <3>2. b = c[i].loc
      OBVIOUS
    <3> HIDE DEF b, c, d, n
    <3>3. \A j \in 1 .. (n - 1) : \E k \in 1 .. n : d[j].loc = c[k].loc /\ d[j].loc # b
      BY ONLY <2>2, <3>1
    <3>4. \A k \in 1 .. n : c[k].loc # b => \E j \in 1 .. (n - 1) : d[j].loc = c[k].loc
      BY ONLY <2>3, <3>2
    <3> QED
      BY ONLY <3>3, <3>4
  <2> QED
    BY <2>1, <2>4, <2>5
<1>12. Dead(L)' = Dead(L)
  <2>1. b \notin Dead(L) /\ b \in Blocks
    BY <1>4, <1>7
  <2>2. b \notin Dead(L)'
    BY <1>10 DEF Dead, FreeNode
  <2>3. \A e \in Blocks \ {b} : e \in Dead(L)' <=> e \in Dead(L)
    BY <1>6, <1>10, <1>11 DEF Dead
  <2> QED
    BY <2>1, <2>2, <2>3 DEF Dead
<1>13. DeadInv(L)'
  <2>1. \A e \in Dead(L) : bpn'[e].next = bpn[e].next
    <3>1. \A e \in Dead(L) : e \in Blocks /\ e \notin Unowned(L) /\ e # b
      BY <1>4, <1>7 DEF Dead, Unowned
    <3> HIDE DEF b, nodes
    <3> QED
      BY <3>1, <1>9, <1>10
  <2> QED
    BY <1>3, <1>12, <2>1, DeadSame
<1>14. FileInv(L, p)'
  <2>1. \A j \in 1 .. (n - 1) : j \in 1 .. n /\ j + 1 \in 1 .. n
    BY <1>4
  <2>2. \A j \in 1 .. n : j # i => c[j].loc # b
    BY <1>4, <1>8
  <2>3. \A j \in 1 .. n : j >= i => c[j].off > cut.off
    <3> SUFFICES ASSUME NEW j \in 1 .. n, j >= i PROVE c[j].off > cut.off
      OBVIOUS
    <3>1. j = i \/ i < j
      BY <1>4
    <3>2. i < j => c[i].off < c[j].off
      BY <1>4, <1>8
    <3>3. c[i].off \in Nat /\ c[j].off \in Nat /\ c[i].off > cut.off
      BY <1>2, <1>4
    <3> HIDE DEF c
    <3> QED
      BY <3>1, <3>2, <3>3, <1>3
  <2>4. NodesInv(L, p)'
    <3>1. \A j \in 1 .. (n - 1) :
            \/ j < i /\ d[j] = c[j] /\ j # i
            \/ ~(j < i) /\ d[j] = c[j + 1] /\ j + 1 # i
      BY <1>4, <1>5
    <3> DEFINE m == n - 1
    <3>2. \A j, k \in 1 .. m : d[j].loc = d[k].loc => j = k
      <4> SUFFICES ASSUME NEW j \in 1 .. m, NEW k \in 1 .. m, d[j].loc = d[k].loc PROVE j = k
        OBVIOUS
      <4> HIDE DEF c, d
      <4> QED
        BY <1>4, <1>8, <2>1, <3>1
    <3>3. \A j \in 1 .. m : /\ d[j].loc \notin L
                             /\ bpn'[d[j].loc].fhloc = tab[p].loc /\ bpn'[d[j].loc].off = d[j].off
      <4> SUFFICES ASSUME NEW j \in 1 .. m
                   PROVE  /\ d[j].loc \notin L
                          /\ bpn'[d[j].loc].fhloc = tab[p].loc /\ bpn'[d[j].loc].off = d[j].off
        OBVIOUS
      <4>1. PICK k \in 1 .. n : k # i /\ d[j] = c[k]
        BY <2>1, <3>1
      <4>2. c[k].loc \in Blocks /\ c[k].loc # b /\ c[k].loc \notin L
        BY <4>1, <1>4, <1>7, <2>2
      <4> HIDE DEF b, c, d, nodes
      <4> QED
        BY <4>1, <4>2, <1>8, <1>9, <1>10
    <3>4. \A j, k \in 1 .. m : j < k => d[j].off < d[k].off
      <4> SUFFICES ASSUME NEW j \in 1 .. m, NEW k \in 1 .. m, j < k PROVE d[j].off < d[k].off
        OBVIOUS
      <4> DEFINE at(l) == IF l < i THEN l ELSE l + 1
      <4>1. d[j] = c[at(j)] /\ d[k] = c[at(k)] /\ at(j) \in 1 .. n /\ at(k) \in 1 .. n
        BY <2>1, <3>1
      <4>2. at(j) < at(k)
        <5>1. i \in Nat /\ j \in Nat /\ k \in Nat
          BY <1>4
        <5> QED
          BY <5>1
      <4> HIDE DEF c, d, n, at
      <4> QED
        BY <4>1, <4>2, <1>8
    <3> QED
      BY <1>5, <1>6, <3>2, <3>3, <3>4 DEF NodesInv
  <2>5. LinksInv(p)'
    <3>1. \A j \in 1 .. (n - 1) : d[j].off <= cut.off => j < i /\ d[j] = c[j]
      <4> SUFFICES ASSUME NEW j \in 1 .. (n - 1), d[j].off <= cut.off PROVE j < i /\ d[j] = c[j]
        OBVIOUS
      <4>1. ~(j < i) => d[j] = c[j + 1] /\ j + 1 >= i /\ j + 1 \in 1 .. n
        BY <1>4, <1>5
      <4>2. c[j + 1].off \in Nat /\ j < i => d[j] = c[j]
        BY <1>5
      <4>3. j + 1 \in 1 .. n /\ c[j + 1].off \in Nat
        BY <1>4
      <4>4. ~(j < i) => c[j + 1].off > cut.off
        BY <4>1, <2>3
      <4> HIDE DEF c, d
      <4> QED
        BY <4>1, <4>2, <4>3, <4>4, <1>3
    <3>2. \A j \in 1 .. n : j # i => bpn'[c[j].loc] = nodes[c[j].loc]
      BY <1>7, <1>10, <2>2
    <3>3. ASSUME NEW j \in 1 .. (n - 1), j = n - 1, d[j].off <= cut.off
          PROVE  bpn'[d[j].loc].next = INVLOC
      <4>1. j < i /\ d[j] = c[j]
        BY <3>1, <3>3
      <4>2. i = n /\ i # 1 /\ j = i - 1 /\ j \in 1 .. n /\ j # i
        BY <4>1, <3>3, <1>4
      <4> HIDE DEF c, d, nodes
      <4> QED
        BY <4>1, <4>2, <3>2, <1>9
    <3>4. ASSUME NEW j \in 1 .. (n - 1), j # n - 1, d[j + 1].off <= cut.off
          PROVE  bpn'[d[j].loc].next = d[j + 1].loc
      <4>1. j + 1 \in 1 .. (n - 1)
        <5>1. n \in Nat
          BY <1>4
        <5> HIDE DEF n
        <5> QED
          BY <5>1, <3>4
      <4>2. j + 1 < i /\ d[j + 1] = c[j + 1]
        BY <3>1, <3>4, <4>1
      <4>3. d[j] = c[j] /\ j \in 1 .. n /\ j # i /\ j # n /\ j + 1 \in 1 .. n
        BY <4>2, <1>4, <1>5
      <4>4. Kept(p, j + 1)
        BY <3>4, <4>2 DEF Kept
      <4>5. bpn[c[j].loc].next = c[j + 1].loc
        BY <4>3, <4>4, <1>4 DEF ChainInv, FileInv, LinksInv
      <4>6. i - 1 \in 1 .. n /\ j # i - 1
        BY <4>2, <1>4
      <4>7. c[j].loc # c[i - 1].loc /\ c[j].loc \in Blocks
        BY <4>3, <4>6, <1>4, <1>8
      <4> HIDE DEF c, d, nodes
      <4> QED
        BY <4>2, <4>3, <4>5, <4>7, <3>2, <1>9
    <3>5. \A j \in 1 .. (n - 1) : /\ Kept(p, j)' => d[j].off <= cut.off
                                  /\ Kept(p, j + 1)' => d[j + 1].off <= cut.off
      BY <1>1, <1>3, <1>6 DEF Kept
    <3> QED
      BY <1>5, <1>6, <3>3, <3>4, <3>5 DEF LinksInv
  <2> QED
    BY <1>1, <1>3, <2>4, <2>5 DEF FileInv
<1>15. ASSUME NEW q \in DOMAIN tab \ {p} PROVE FileInv(L, q)'
  <2>1. q # cut'.path => hdr'[tab[q].loc] = HeaderOf(q, tab'[q])
    BY <1>3, <1>6 DEF ChainInv, FileInv
  <2>2. \A j \in DOMAIN tab[q].chain : bpn'[tab[q].chain[j].loc] = bpn[tab[q].chain[j].loc]
    <3> SUFFICES ASSUME NEW j \in DOMAIN tab[q].chain
                 PROVE  bpn'[tab[q].chain[j].loc] = bpn[tab[q].chain[j].loc]
      OBVIOUS
    <3> DEFINE e == tab[q].chain[j].loc
    <3>1. e \in Blocks /\ e \notin Unowned(L) /\ e \in ChainLocs(q)
      BY ChainBlock DEF ChainLocs
    <3>2. e # b
      BY <3>1, <1>4, <1>7
    <3>3. i = n /\ i # 1 => e # c[i - 1].loc
      <4>1. i # 1 => i - 1 \in 1 .. n
        BY <1>4
      <4> QED
        BY <3>1, <4>1, <1>7
    <3> HIDE DEF e, b, c, n, nodes
    <3>4. bpn'[e] = bpn[e]
      BY <3>1, <3>2, <3>3, <1>9, <1>10
    <3> QED
      BY <3>4 DEF e
  <2>3. \A j \in DOMAIN tab[q].chain : Kept(q, j)' => Kept(q, j)
    BY <1>3, <1>6 DEF Kept
  <2> QED
    BY <1>6, <2>1, <2>2, <2>3, FileSame DEF ChainInv
<1>16. p \in Paths /\ b \in Contents[p] /\ Contents' = [Contents EXCEPT ![p] = @ \ {b}]
  <2>1. p \in Paths /\ b \in ChainLocs(p)
    BY TypeParts DEF ChainLocs
  <2> QED
    BY <1>6, <1>11, <2>1 DEF Contents
<1> QED
  BY <1>6, <1>10, <1>12, <1>13, <1>14, <1>15, <1>16 DEF ChainInv

-----------------------------------------------------------------------------
(* Every step keeps the invariant.                                         *)

\* A step that changes neither a free list, nor a block pointer, nor a list
LEMMA NoListChanged ==
  ASSUME NEW L, TypeOK, FreeInv(L), DeadInv(L), ChainInv(L),
         req'.blk = req.blk, mb'.bfl = mb.bfl, mb'.bft = mb.bft, bpn' = bpn, walk' = walk,
         pc' # "rm" => pc # "rm" \/ walk = INVLOC,
         DOMAIN tab' = DOMAIN tab,
         \A q \in DOMAIN tab : tab'[q].chain = tab[q].chain /\ tab'[q].loc = tab[q].loc,
         \A q \in DOMAIN tab : \A i \in DOMAIN tab[q].chain : Kept(q, i)' => Kept(q, i),
         \A q \in DOMAIN tab : q # cut'.path => hdr'[tab[q].loc] = HeaderOf(q, tab'[q])
  PROVE  FreeInv(L)' /\ DeadInv(L)' /\ ChainInv(L)'
<1>1. FreeInv(L)'
  BY FreeInvSame
<1>2. DeadInv(L)' /\ ChainInv(L)'
  BY ListsSame
<1> QED
  BY <1>1, <1>2

\* A step that besides leaves the headers of the cached files alone
LEMMA NoFileChanged ==
  ASSUME NEW L, TypeOK, FreeInv(L), DeadInv(L), ChainInv(L),
         req'.blk = req.blk, mb'.bfl = mb.bfl, mb'.bft = mb.bft, bpn' = bpn, walk' = walk,
         pc' # "rm" => pc # "rm" \/ walk = INVLOC,
         tab' = tab, cut' = cut, \A q \in DOMAIN tab : hdr'[tab[q].loc] = hdr[tab[q].loc]
  PROVE  FreeInv(L)' /\ DeadInv(L)' /\ ChainInv(L)'
<1>1. \A q \in DOMAIN tab : \A i \in DOMAIN tab[q].chain : Kept(q, i)' => Kept(q, i)
  BY DEF Kept
<1>2. \A q \in DOMAIN tab : q # cut'.path => hdr'[tab[q].loc] = HeaderOf(q, tab'[q])
  BY DEF ChainInv, FileInv
<1> QED
  BY <1>1, <1>2, NoListChanged

LEMMA BlockListsStep ==
  ASSUME NEW L, NEW M, NEW X, TypeOK, CallInv, StaleMatches, HeadsMatch(X),
         CutInv, HeaderInv(M), FreeInv(L), DeadInv(L), ChainInv(L), [Next]_vars
  PROVE  FreeInv(L)' /\ DeadInv(L)' /\ ChainInv(L)'
<1> USE TypeParts
<1>1. \A q \in DOMAIN tab : /\ tab[q] \in CachedFile /\ tab[q].loc \in Headers /\ tab[q].loc \notin Spare(M)
                            /\ q \in Paths /\ q # NoPath
  BY RSCAssumption DEF CachedFile, Spare
<1>2. \A q \in DOMAIN tab : q # cut.path => hdr[tab[q].loc] = HeaderOf(q, tab[q])
  BY DEF ChainInv, FileInv
<1>3. ASSUME NEW p \in Paths, NEW off \in BlockOffs, NEW len \in Lens, InsertNewFile(p, off, len)
      PROVE  FreeInv(L)' /\ DeadInv(L)' /\ ChainInv(L)'
  <2>1. req.blk = INVLOC /\ req'.blk = INVLOC
    BY <1>3 DEF InsertNewFile, CallInv, NoReq
  <2>2. mb.hfl \in Spare(M) /\ hdr' = [hdr EXCEPT ![mb.hfl].path = p]
        /\ mb'.bfl = mb.bfl /\ mb'.bft = mb.bft
    BY <1>3, QueueParts DEF InsertNewFile, Alloc_file_header, HeaderInv, MasterBlockType
  <2>3. \A q \in DOMAIN tab : hdr'[tab[q].loc] = hdr[tab[q].loc]
    BY <1>1, <2>2 DEF Spare
  <2>4. bpn' = bpn /\ walk' = walk /\ tab' = tab /\ cut' = cut /\ pc # "rm"
    BY <1>3 DEF InsertNewFile
  <2> QED
    BY <2>1, <2>2, <2>3, <2>4, NoFileChanged
<1>4. ASSUME NEW p \in Paths, NEW off \in BlockOffs, NEW len \in Lens, NEW flag \in InsertFlags,
             InsertBlock(p, off, len, flag)
      PROVE  FreeInv(L)' /\ DeadInv(L)' /\ ChainInv(L)'
  <2>1. req.blk = INVLOC /\ req'.blk = INVLOC
    BY <1>4 DEF InsertBlock, CallInv, NoReq
  <2>2. mb' = mb /\ hdr' = hdr /\ bpn' = bpn /\ walk' = walk /\ tab' = tab /\ cut' = cut /\ pc # "rm"
    BY <1>4 DEF InsertBlock, disk
  <2> QED
    BY <2>1, <2>2, NoFileChanged
<1>5. CASE GiveUp
  <2>1. req.blk = INVLOC /\ req'.blk = INVLOC
    BY <1>5 DEF GiveUp, CallInv, NoReq
  <2>2. bpn' = bpn /\ walk' = walk /\ tab' = tab /\ cut' = cut /\ pc # "rm"
    BY <1>5 DEF GiveUp
  <2>3. mb'.bfl = mb.bfl /\ mb'.bft = mb.bft /\ \A q \in DOMAIN tab : hdr'[tab[q].loc] = hdr[tab[q].loc]
    <3>1. CASE req.hdr = INVLOC
      BY <1>5, <3>1 DEF GiveUp
    <3>2. CASE req.hdr # INVLOC
      <4>1. Return_file_header(req.hdr, req.path) /\ req.hdr \in Headers
        BY <1>5, <3>2 DEF GiveUp, RequestType, HeaderOrNone
      <4>2. \A q \in DOMAIN tab : tab[q].loc # req.hdr
        BY DEF HeaderInv
      <4>3. \A g \in Headers : g # req.hdr /\ g \notin Spare(M) => hdr'[g] = hdr[g]
        BY <4>1, HeadersKept
      <4>4. mb'.bfl = mb.bfl /\ mb'.bft = mb.bft
        BY <4>1 DEF Return_file_header, MasterBlockType
      <4> QED
        BY <1>1, <4>2, <4>3, <4>4
    <3> QED
      BY <3>1, <3>2
  <2> QED
    BY <2>1, <2>2, <2>3, NoFileChanged
<1>6. ASSUME NEW p \in DOMAIN tab, p # cut.path, RemoveFile(p), req' = req, cut' = cut, pc # "rm"
      PROVE  FreeInv(L)' /\ DeadInv(L)' /\ ChainInv(L)'
  <2>1. mb'.bfl = mb.bfl /\ mb'.bft = mb.bft /\ bpn' = bpn
    BY <1>6 DEF RemoveFile, Return_file_header, MasterBlockType
  <2>2. FreeInv(L)'
    BY <1>6, <2>1, FreeInvSame
  <2> QED
    BY <1>6, <2>2, FileRemoved
<1>7. CASE Evict
  BY <1>6, <1>7, StaleHead DEF Evict, Untouched
<1>8. ASSUME NEW p \in Paths, Rm(p)
      PROVE  FreeInv(L)' /\ DeadInv(L)' /\ ChainInv(L)'
  BY <1>6, <1>8 DEF Rm, Untouched
<1>9. CASE NoBlockAfterEviction \/ HeadNotListed \/ (\E p \in Paths : NodeNotListed(p))
           \/ LinkAborts \/ LinkToEvicted \/ RmDone \/ Race \/ UNCHANGED vars
  <2>1. mb' = mb /\ hdr' = hdr /\ bpn' = bpn /\ walk' = walk /\ tab' = tab /\ cut' = cut /\ req' = req
        /\ (pc' # "rm" => pc # "rm" \/ walk = INVLOC)
    BY <1>9 DEF NoBlockAfterEviction, HeadNotListed, NodeNotListed, LinkAborts, LinkToEvicted, RmDone, Race, vars, disk
  <2> QED
    BY <2>1, NoFileChanged
<1>10. CASE AllocBlock
  <2>1. FreeInv(L)'
    BY <1>10, BlockTaken
  <2>2. bpn' = bpn /\ walk' = walk /\ tab' = tab /\ cut' = cut /\ hdr' = hdr /\ pc # "rm"
    BY <1>10 DEF AllocBlock
  <2>3. \A q \in DOMAIN tab : \A i \in DOMAIN tab[q].chain : Kept(q, i)' => Kept(q, i)
    BY <2>2 DEF Kept
  <2>4. DeadInv(L)' /\ ChainInv(L)'
    BY <1>2, <2>2, <2>3, ListsSame
  <2> QED
    BY <2>1, <2>4
<1>11. CASE LinkNewFile
  BY <1>11, NewFileLinked
<1>12. CASE LinkBlock
  BY <1>12, BlockAppended
<1>13. CASE RmBlock
  BY <1>13, DeadReturned
<1>14. CASE TruncateBlock
  BY <1>14, BlockCut
<1>15. CASE TruncateDone
  <2>1. PICK p \in DOMAIN tab : p = cut.path
    BY <1>15 DEF TruncateDone, CallInv
  <2>2. /\ hdr' = [hdr EXCEPT ![tab[p].loc] = HeaderOf(p, tab[p])] /\ cut' = NoCut
        /\ mb' = mb /\ bpn' = bpn /\ tab' = tab /\ req' = req /\ walk' = walk /\ pc' = pc
        /\ \A i \in DOMAIN tab[p].chain : ~(tab[p].chain[i].off > cut.off)
    BY <1>15, <2>1 DEF TruncateDone, CutNodes
  <2>3. \A q \in DOMAIN tab : hdr'[tab[q].loc] = HeaderOf(q, tab[q])
    <3> SUFFICES ASSUME NEW q \in DOMAIN tab PROVE hdr'[tab[q].loc] = HeaderOf(q, tab[q])
      OBVIOUS
    <3>1. CASE q = p
      BY <1>1, <2>2, <3>1
    <3>2. CASE q # p
      <4>1. tab[q].loc # tab[p].loc
        BY <3>2 DEF HeaderInv
      <4>2. hdr'[tab[q].loc] = hdr[tab[q].loc]
        BY <1>1, <2>2, <4>1
      <4> QED
        BY <1>2, <2>1, <3>2, <4>2
    <3> QED
      BY <3>1, <3>2
  <2>4. \A q \in DOMAIN tab : \A i \in DOMAIN tab[q].chain : Kept(q, i)
    <3> SUFFICES ASSUME NEW q \in DOMAIN tab, NEW i \in DOMAIN tab[q].chain PROVE Kept(q, i)
      OBVIOUS
    <3>1. CASE q # p
      BY <2>1, <3>1 DEF Kept
    <3>2. CASE q = p
      <4>1. tab[p].chain[i].off \in Nat /\ cut.off \in Nat
        BY <1>1, <3>2, ChainType DEF CutType
      <4>2. tab[p].chain[i].off <= cut.off
        BY <2>2, <3>2, <4>1
      <4> QED
        BY <3>2, <4>2 DEF Kept
    <3> QED
      BY <3>1, <3>2
  <2> QED
    BY <2>2, <2>3, <2>4, NoListChanged
<1>16. ASSUME NEW p \in DOMAIN tab, NEW f, tab' = [tab EXCEPT ![p] = f],
              f.loc = tab[p].loc, f.chain = tab[p].chain,
              \A q \in DOMAIN tab : \A i \in DOMAIN tab[q].chain : Kept(q, i)' => Kept(q, i),
              req'.blk = req.blk, mb' = mb, bpn' = bpn, walk' = walk, pc' = pc,
              p # cut'.path => hdr'[tab[p].loc] = HeaderOf(p, f),
              \A q \in DOMAIN tab \ {p} : q # cut'.path => hdr'[tab[q].loc] = HeaderOf(q, tab[q])
       PROVE  FreeInv(L)' /\ DeadInv(L)' /\ ChainInv(L)'
  <2>1. /\ DOMAIN tab' = DOMAIN tab /\ tab'[p] = f /\ \A q \in DOMAIN tab \ {p} : tab'[q] = tab[q]
        /\ mb'.bfl = mb.bfl /\ mb'.bft = mb.bft
    BY <1>16
  <2>2. \A q \in DOMAIN tab : tab'[q].chain = tab[q].chain /\ tab'[q].loc = tab[q].loc
    BY <1>16, <2>1
  <2>3. \A q \in DOMAIN tab : q # cut'.path => hdr'[tab[q].loc] = HeaderOf(q, tab'[q])
    BY <1>16, <2>1
  <2> QED
    BY <1>16, <2>1, <2>2, <2>3, NoListChanged
<1>17. cut' = cut /\ (\A q \in DOMAIN tab : q \in DOMAIN tab' /\ tab'[q].chain = tab[q].chain) =>
         \A q \in DOMAIN tab : \A i \in DOMAIN tab[q].chain : Kept(q, i)' => Kept(q, i)
  BY DEF Kept
<1>18. ASSUME NEW p \in Paths, NEW off \in BlockOffs, NEW len \in Lens, OverwriteBlock(p, off, off + len)
       PROVE  FreeInv(L)' /\ DeadInv(L)' /\ ChainInv(L)'
  <2> DEFINE f == [tab[p] EXCEPT !.fileoff = Grow(tab[p].fileoff, off + len)]
  <2>1. /\ p \in DOMAIN tab /\ p # cut.path /\ tab' = [tab EXCEPT ![p] = f]
        /\ f.loc = tab[p].loc /\ f.chain = tab[p].chain
        /\ mb' = mb /\ bpn' = bpn /\ req' = req /\ walk' = walk /\ cut' = cut /\ pc' = pc
        /\ hdr' = [hdr EXCEPT ![tab[p].loc] = HeaderOf(p, tab'[p])]
    BY <1>1, <1>18 DEF OverwriteBlock, Untouched, CachedFile
  <2> HIDE DEF f
  <2>2. tab'[p] = f /\ \A q \in DOMAIN tab : q \in DOMAIN tab' /\ tab'[q].chain = tab[q].chain
    BY <2>1
  <2>3. hdr'[tab[p].loc] = HeaderOf(p, f)
    BY <1>1, <2>1, <2>2
  <2>4. \A q \in DOMAIN tab \ {p} : tab[q].loc # tab[p].loc
    BY <2>1 DEF HeaderInv
  <2>5. \A q \in DOMAIN tab \ {p} : hdr'[tab[q].loc] = hdr[tab[q].loc]
    BY <1>1, <2>1, <2>4
  <2> QED
    BY <1>2, <1>16, <1>17, <2>1, <2>2, <2>3, <2>5
<1>19. ASSUME NEW p \in Paths, NEW off \in TruncateOffs, TruncateStart(p, off)
       PROVE  FreeInv(L)' /\ DeadInv(L)' /\ ChainInv(L)'
  <2> DEFINE f == [tab[p] EXCEPT !.fileoff = off]
  <2>1. /\ p \in DOMAIN tab /\ tab' = [tab EXCEPT ![p] = f]
        /\ f.loc = tab[p].loc /\ f.chain = tab[p].chain
        /\ mb' = mb /\ bpn' = bpn /\ req' = req /\ walk' = walk /\ hdr' = hdr /\ pc' = pc
        /\ cut' = [path |-> p, off |-> off] /\ cut = NoCut
    BY <1>1, <1>19 DEF TruncateStart, CachedFile, disk
  <2> HIDE DEF f
  <2>2. \A q \in DOMAIN tab : q # cut.path
    BY <1>1, <2>1 DEF NoCut
  <2>3. \A q \in DOMAIN tab : \A i \in DOMAIN tab[q].chain : Kept(q, i)' => Kept(q, i)
    BY <2>2 DEF Kept
  <2>4. p = cut'.path
    BY <2>1
  <2> QED
    BY <1>2, <1>16, <2>1, <2>2, <2>3, <2>4
<1>20. ASSUME NEW p \in Paths, Append_to_stale_list(p) \/ AppendNode(p) \/ Rm_file_from_stale_list(p)
       PROVE  FreeInv(L)' /\ DeadInv(L)' /\ ChainInv(L)'
  <2>1. PICK sn \in StaleNode : tab' = [tab EXCEPT ![p].sn = sn]
    BY <1>20 DEF Append_to_stale_list, AppendNode, Rm_file_from_stale_list, StaleNode
  <2> DEFINE f == [tab[p] EXCEPT !.sn = sn]
  <2>2. /\ p \in DOMAIN tab /\ mb' = mb /\ hdr' = hdr /\ bpn' = bpn /\ req' = req /\ walk' = walk
        /\ cut' = cut /\ pc' = pc
    BY <1>20 DEF Append_to_stale_list, AppendNode, Rm_file_from_stale_list, disk
  <2>3. /\ tab' = [tab EXCEPT ![p] = f] /\ f.loc = tab[p].loc /\ f.chain = tab[p].chain
        /\ HeaderOf(p, f) = HeaderOf(p, tab[p])
    BY <1>1, <2>1, <2>2 DEF HeaderOf, CachedFile
  <2> HIDE DEF f
  <2>4. \A q \in DOMAIN tab : q \in DOMAIN tab' /\ tab'[q].chain = tab[q].chain
    BY <2>2, <2>3
  <2> QED
    BY <1>2, <1>16, <1>17, <2>2, <2>3, <2>4
<1> QED
  BY <1>3, <1>4, <1>5, <1>7, <1>8, <1>9, <1>10, <1>11, <1>12, <1>13, <1>14, <1>15, <1>18, <1>19, <1>20
  DEF Next, Call, CallStep, CutStep, AppendStep

LEMMA CutInvStep ==
  ASSUME OrderedTruncation, CutInv, [Next]_vars
  PROVE  CutInv'
<1>1. ASSUME NEW p \in Paths, NEW off \in TruncateOffs, TruncateStart(p, off)
      PROVE  CutInv'
  BY DEF OrderedTruncation, CutInv
<1>2. CASE TruncateDone
  BY <1>2 DEF TruncateDone, CutInv
<1>3. CASE cut' = cut
  BY <1>3 DEF CutInv
<1> QED
  BY <1>1, <1>2, <1>3
  DEF Next, Call, CallStep, CutStep, AppendStep, vars, InsertNewFile, InsertBlock, OverwriteBlock, Rm,
      Append_to_stale_list, AppendNode, Rm_file_from_stale_list, AllocBlock, GiveUp, Evict, NoBlockAfterEviction,
      HeadNotListed, NodeNotListed, LinkNewFile, LinkBlock, LinkAborts, LinkToEvicted, RmBlock, RmDone, TruncateBlock, CutBlock, Race

-----------------------------------------------------------------------------
(* The freshly formatted cache.                                            *)

LEMMA QueueFormatted ==
  ASSUME NEW n \in Nat \ {0}, NEW next, \A i \in 0 .. (n - 1) : next[i] = NextLoc(i, n)
  PROVE  Queue(0 .. (n - 1), 0, n - 1, next)
<1> DEFINE c == [i \in 1 .. n |-> i - 1]
<1>1. \A i \in 0 .. (n - 1) : next[i] = IF i < n - 1 THEN i + 1 ELSE INVLOC
  BY DEF NextLoc
<1>2. Chained(INVLOC, 0 .. (n - 1), 0, next, n, c)
  <2>1. \A i \in 1 .. n : c[i] = i - 1 /\ c[i] \in 0 .. (n - 1) /\ c[i] # INVLOC
    BY DEF INVLOC
  <2>2. \A x \in 0 .. (n - 1) : x + 1 \in 1 .. n /\ x = c[x + 1]
    OBVIOUS
  <2>3. \A i \in 1 .. n : next[c[i]] = IF i = n THEN INVLOC ELSE c[i + 1]
    BY <1>1
  <2>4. c[1] = 0
    OBVIOUS
  <2> HIDE DEF c
  <2> QED
    BY <2>1, <2>2, <2>3, <2>4 DEF Chained
<1>3. n - 1 \in 0 .. (n - 1) /\ next[n - 1] = INVLOC
  BY <1>1
<1> QED
  BY <1>2, <1>3 DEF Queue

LEMMA DiskInvInit == Init => DiskInv({}, {})
<1> SUFFICES ASSUME Init PROVE DiskInv({}, {})
  OBVIOUS
<1>1. /\ mb.hfl = 0 /\ mb.hft = NumHeaders - 1 /\ mb.bfl = 0 /\ mb.bft = NumBlocks - 1
      /\ \A h \in Headers : hdr[h].next = NextLoc(h, NumHeaders)
      /\ \A b \in Blocks : bpn[b].next = NextLoc(b, NumBlocks) /\ bpn[b].fhloc = INVLOC
      /\ DOMAIN tab = {} /\ walk = INVLOC /\ cut = NoCut /\ req.hdr = INVLOC /\ req.blk = INVLOC
  BY DEF Init, FreeHeader, FreeNode, NoReq
<1>2. Spare({}) = Headers /\ Unowned({}) = Blocks /\ Dead({}) = {}
  BY <1>1, LocsAreNat DEF Spare, Unowned, Dead
<1>3. Queue(Headers, 0, NumHeaders - 1, HeaderNext)
  <2>1. \A h \in 0 .. (NumHeaders - 1) : HeaderNext[h] = NextLoc(h, NumHeaders)
    BY <1>1 DEF HeaderNext, Headers
  <2> HIDE DEF HeaderNext
  <2> QED
    BY <2>1, RSCAssumption, QueueFormatted DEF Headers
<1>4. Queue(Blocks, 0, NumBlocks - 1, BlockNext)
  <2>1. \A b \in 0 .. (NumBlocks - 1) : BlockNext[b] = NextLoc(b, NumBlocks)
    BY <1>1 DEF BlockNext, Blocks
  <2> HIDE DEF BlockNext
  <2> QED
    BY <2>1, RSCAssumption, QueueFormatted DEF Blocks
<1>5. HeaderInv({})
  BY <1>1, <1>2, <1>3 DEF HeaderInv
<1>6. FreeInv({})
  BY <1>1, <1>2, <1>4 DEF FreeInv
<1>7. DeadInv({})
  <2>1. Chained(INVLOC, {}, INVLOC, BlockNext, 0, <<>>)
    BY DEF Chained
  <2> QED
    BY <1>1, <1>2, <2>1 DEF DeadInv
<1>8. ChainInv({}) /\ CutInv
  BY <1>1 DEF ChainInv, CutInv
<1> QED
  BY <1>5, <1>6, <1>7, <1>8 DEF DiskInv

LEMMA DiskInvStep ==
  ASSUME OrderedTruncation, NEW L, NEW M, NEW X, TypeOK, CallInv, StaleMatches, HeadsMatch(X),
         DiskInv(L, M), [Next]_vars
  PROVE  DiskInv(L, M)'
<1>1. CutInv /\ HeaderInv(M) /\ FreeInv(L) /\ DeadInv(L) /\ ChainInv(L)
  BY DEF DiskInv
<1>2. CutInv' /\ HeaderInv(M)'
  BY <1>1, CutInvStep, HeaderInvStep
<1>3. FreeInv(L)' /\ DeadInv(L)' /\ ChainInv(L)'
  BY <1>1, BlockListsStep
<1> QED
  BY <1>2, <1>3 DEF DiskInv

LEMMA IInvInit == Init => IInv
  BY DiskInvInit, TableInvInit DEF IInv

LEMMA IInvStep ==
  ASSUME OrderedTruncation, IInv, [Next]_vars
  PROVE  IInv'
<1>1. TableInv'
  BY TableInvStep DEF IInv
<1>2. TypeOK /\ CallInv /\ StaleMatches /\ HeadsMatch({}) /\ DiskInv({}, {})
  BY HeadsMatchAll DEF IInv, TableInv
<1>3. DiskInv({}, {})'
  BY <1>2, DiskInvStep
<1> QED
  BY <1>1, <1>3 DEF IInv

LEMMA IInvAlways ==
  ASSUME OrderedTruncation
  PROVE  Spec => []IInv
<1>1. IInv /\ [Next]_vars => IInv'
  BY IInvStep
<1> QED
  BY <1>1, IInvInit, PTL DEF Spec

-----------------------------------------------------------------------------
(* The theorems.                                                           *)

\* The assertions of RSC.c:124 and 240 never fail: whatever calls and evictions
\* come, each free list has a tail when it has a head, and the tail ends it.
THEOREM FreeListsEndAlways ==
  ASSUME OrderedTruncation
  PROVE  Spec => []FreeListsEnd
<1>1. IInv => FreeListsEnd
  <2> SUFFICES ASSUME IInv PROVE FreeListsEnd
    OBVIOUS
  <2>1. Queue(Spare({}), mb.hfl, mb.hft, HeaderNext) /\ Queue(Unowned({}), mb.bfl, mb.bft, BlockNext)
    BY DEF IInv, DiskInv, HeaderInv, FreeInv
  <2>2. Spare({}) \subseteq Headers /\ Unowned({}) \subseteq Blocks
    BY DEF Spare, Unowned
  <2> QED
    BY <2>1, <2>2, QueueParts DEF FreeListsEnd, HeaderNext, BlockNext
<1> QED
  BY <1>1, IInvAlways, PTL

\* What a restart would read from the cache file is the list in memory: for each
\* cached file that no Truncate is working on, its header and every one of its
\* block pointers on disk agree with g_RSC_table_m, order and file included.
THEOREM ChainOnDiskAlways ==
  ASSUME OrderedTruncation
  PROVE  Spec => []ChainOnDisk
<1>1. IInv => ChainOnDisk
  <2> SUFFICES ASSUME IInv, NEW p \in DOMAIN tab \ {cut.path}
               PROVE  /\ hdr[tab[p].loc] = HeaderOf(p, tab[p])
                      /\ \A i \in DOMAIN tab[p].chain :
                           bpn[tab[p].chain[i].loc] =
                             [fhloc |-> tab[p].loc, off |-> tab[p].chain[i].off,
                              next |-> IF i = Len(tab[p].chain) THEN INVLOC
                                       ELSE tab[p].chain[i + 1].loc]
    BY DEF ChainOnDisk
  <2>1. FileInv({}, p) /\ TypeOK
    BY DEF IInv, TableInv, DiskInv, ChainInv
  <2>2. SUFFICES ASSUME NEW i \in DOMAIN tab[p].chain
                 PROVE  bpn[tab[p].chain[i].loc] =
                          [fhloc |-> tab[p].loc, off |-> tab[p].chain[i].off,
                           next |-> IF i = Len(tab[p].chain) THEN INVLOC
                                    ELSE tab[p].chain[i + 1].loc]
    BY <2>1 DEF FileInv
  <2>3. tab[p].chain[i].loc \in Blocks
    BY <2>1, ChainType, TypeParts
  <2>4. bpn[tab[p].chain[i].loc] \in NodeType
    BY <2>1, <2>3, TypeParts
  <2>5. Kept(p, i) /\ Kept(p, i + 1)
    BY DEF Kept
  <2>6. bpn[tab[p].chain[i].loc].next = IF i = Len(tab[p].chain) THEN INVLOC
                                        ELSE tab[p].chain[i + 1].loc
    BY <2>1, <2>5 DEF FileInv, LinksInv
  <2>7. bpn[tab[p].chain[i].loc].fhloc = tab[p].loc /\ bpn[tab[p].chain[i].loc].off = tab[p].chain[i].off
    BY <2>1 DEF FileInv, NodesInv
  <2> QED
    BY <2>4, <2>6, <2>7 DEF NodeType
<1> QED
  BY <1>1, IInvAlways, PTL

\* The loop of Rm_file_block_table_fbt (RSC_m.c:722) never returns a block that
\* is free already: the list on disk that it walks holds the removed file's.
THEOREM RmReturnsOwnBlocksAlways ==
  ASSUME OrderedTruncation
  PROVE  Spec => []RmReturnsOwnBlocks
<1>1. IInv => RmReturnsOwnBlocks
  <2> SUFFICES ASSUME IInv, walk # INVLOC PROVE bpn[walk].fhloc # INVLOC
    BY DEF RmReturnsOwnBlocks
  <2>1. walk \in Dead({})
    BY ChainedFirst DEF IInv, DiskInv, DeadInv
  <2> QED
    BY <2>1 DEF Dead
<1> QED
  BY <1>1, IInvAlways, PTL

-----------------------------------------------------------------------------
(* Every block and every header has one place.                             *)

\* What following next from first finds in the cache file is the list.
LEMMA ListFromChained ==
  ASSUME NEW S, NEW first, NEW next, IsFiniteSet(DOMAIN next), S \subseteq DOMAIN next,
         \E n, c : Chained(INVLOC, S, first, next, n, c)
  PROVE  ListFrom(first, next) = S
<1> DEFINE m == Cardinality(DOMAIN next)
           g == CHOOSE f : Reaching(INVLOC, first, next, m, f)
<1>1. ListFrom(first, next) = g[m]
  BY Zenon DEF ListFrom, Reaching
<1>2. g[m] = S
  BY WalkFinds
<1> QED
  BY <1>1, <1>2

LEMMA FiniteSections == IsFiniteSet(Blocks) /\ IsFiniteSet(Headers)
  BY RSCAssumption, FS_Interval DEF Blocks, Headers

LEMMA ListsOnDisk ==
  ASSUME IInv
  PROVE  FreeBlocks = Unowned({}) /\ FreeHeaders = Spare({}) /\ RemovedBlocks = Dead({})
<1>1. Unowned({}) \subseteq Blocks /\ Spare({}) \subseteq Headers /\ Dead({}) \subseteq Blocks
  BY DEF Unowned, Spare, Dead
<1>2. DOMAIN BlockNext = Blocks /\ DOMAIN HeaderNext = Headers
  BY DEF BlockNext, HeaderNext
<1>3. /\ \E n, c : Chained(INVLOC, Unowned({}), mb.bfl, BlockNext, n, c)
      /\ \E n, c : Chained(INVLOC, Spare({}), mb.hfl, HeaderNext, n, c)
      /\ \E n, c : Chained(INVLOC, Dead({}), walk, BlockNext, n, c)
  BY DEF IInv, DiskInv, FreeInv, HeaderInv, DeadInv, Queue
<1>4. /\ FreeBlocks = ListFrom(mb.bfl, BlockNext)
      /\ FreeHeaders = ListFrom(mb.hfl, HeaderNext)
      /\ RemovedBlocks = ListFrom(walk, BlockNext)
  BY DEF FreeBlocks, FreeHeaders, RemovedBlocks, BlockNext, HeaderNext
<1> QED
  BY <1>1, <1>2, <1>3, <1>4, FiniteSections, ListFromChained

\* No block of the cache is ever lost or in two places: whatever calls,
\* evictions and truncations come, each is on the free list on disk, or in the
\* Insert's hand, or left for Rm to return, or in the list of one cached file.
THEOREM NoBlockLostAlways ==
  ASSUME OrderedTruncation
  PROVE  Spec => []NoBlockLost
<1>1. IInv => NoBlockLost
  <2> SUFFICES ASSUME IInv, NEW b \in Blocks
               PROVE  LET places == {x \in {"free", "alloc", "removed"} :
                                       \/ x = "free" /\ b \in FreeBlocks
                                       \/ x = "alloc" /\ b = req.blk
                                       \/ x = "removed" /\ b \in RemovedBlocks}
                          files  == {p \in DOMAIN tab : b \in ChainLocs(p)}
                      IN Cardinality(places) + Cardinality(files) = 1
    BY DEF NoBlockLost
  <2> DEFINE places == {x \in {"free", "alloc", "removed"} :
                          \/ x = "free" /\ b \in FreeBlocks
                          \/ x = "alloc" /\ b = req.blk
                          \/ x = "removed" /\ b \in RemovedBlocks}
             files == {p \in DOMAIN tab : b \in ChainLocs(p)}
  <2>1. FreeBlocks = Unowned({}) /\ RemovedBlocks = Dead({})
    BY ListsOnDisk
  <2>2. \A p \in DOMAIN tab : b \in ChainLocs(p) => bpn[b].fhloc = tab[p].loc /\ tab[p].loc # INVLOC
    BY TypeParts, LocsAreNat DEF IInv, TableInv, DiskInv, ChainInv, FileInv, NodesInv, ChainLocs, CachedFile
  <2>3. b = req.blk => bpn[b].fhloc = INVLOC
    BY LocsAreNat DEF IInv, DiskInv, FreeInv
  <2>4. CASE files = {}
    <3>1. \E x : places = {x}
      <4>1. CASE b = req.blk
        <5>1. places = {"alloc"}
          BY <2>1, <2>3, <4>1 DEF Unowned, Dead
        <5> QED
          BY <5>1
      <4>2. CASE b # req.blk /\ bpn[b].fhloc = INVLOC
        <5>1. places = {"free"}
          BY <2>1, <4>2 DEF Unowned, Dead
        <5> QED
          BY <5>1
      <4>3. CASE b # req.blk /\ bpn[b].fhloc # INVLOC
        <5>1. places = {"removed"}
          BY <2>1, <2>4, <4>3 DEF Unowned, Dead
        <5> QED
          BY <5>1
      <4> QED
        BY <4>1, <4>2, <4>3
    <3> HIDE DEF places, files
    <3>2. Cardinality(places) = 1 /\ Cardinality(files) = 0
      BY <2>4, <3>1, FS_EmptySet, FS_Singleton
    <3> QED
      BY <3>2 DEF places, files
  <2>5. CASE files # {}
    <3>1. PICK p \in DOMAIN tab : b \in ChainLocs(p)
      BY <2>5
    <3>2. \A q \in DOMAIN tab : b \in ChainLocs(q) => q = p
      BY <2>2, <3>1 DEF IInv, DiskInv, HeaderInv
    <3>3. files = {p}
      BY <3>1, <3>2
    <3>4. bpn[b].fhloc # INVLOC
      BY <2>2, <3>1
    <3>5. places = {}
      BY <2>1, <2>3, <3>1, <3>4 DEF Unowned, Dead
    <3> HIDE DEF places, files
    <3>6. Cardinality(places) = 0 /\ Cardinality(files) = 1
      BY <3>3, <3>5, FS_EmptySet, FS_Singleton
    <3> QED
      BY <3>6 DEF places, files
  <2> QED
    BY <2>4, <2>5
<1> QED
  BY <1>1, IInvAlways, PTL

\* The same for file headers: each is on the free list on disk, or in the
\* Insert's hand, or the header of one cached file.
THEOREM NoHeaderLostAlways ==
  ASSUME OrderedTruncation
  PROVE  Spec => []NoHeaderLost
<1>1. IInv => NoHeaderLost
  <2> SUFFICES ASSUME IInv, NEW h \in Headers
               PROVE  LET free  == {x \in {"free"} : h \in FreeHeaders}
                          alloc == {x \in {"alloc"} : h = req.hdr}
                          files == {p \in DOMAIN tab : h = tab[p].loc}
                      IN Cardinality(free) + Cardinality(alloc) + Cardinality(files) = 1
    BY DEF NoHeaderLost
  <2> DEFINE free  == {x \in {"free"} : h \in FreeHeaders}
             alloc == {x \in {"alloc"} : h = req.hdr}
             files == {p \in DOMAIN tab : h = tab[p].loc}
  <2>1. FreeHeaders = Spare({})
    BY ListsOnDisk
  <2>2. /\ \A p, q \in DOMAIN tab : tab[p].loc = tab[q].loc => p = q
        /\ \A p \in DOMAIN tab : tab[p].loc # req.hdr
    BY DEF IInv, DiskInv, HeaderInv
  <2>3. Cardinality({}) = 0 /\ \A x : Cardinality({x}) = 1
    <3>1. Cardinality({}) = 0
      BY FS_EmptySet
    <3>2. \A x : Cardinality({x}) = 1
      BY FS_Singleton
    <3> QED
      BY <3>1, <3>2
  <2>4. CASE h = req.hdr
    <3>1. free = {} /\ alloc = {"alloc"} /\ files = {}
      BY <2>1, <2>2, <2>4 DEF Spare
    <3> HIDE DEF free, alloc, files
    <3>2. Cardinality(free) + Cardinality(alloc) + Cardinality(files) = 1
      BY <2>3, <3>1
    <3> QED
      BY <3>2 DEF free, alloc, files
  <2>5. CASE h # req.hdr /\ files = {}
    <3>1. free = {"free"} /\ alloc = {}
      BY <2>1, <2>5 DEF Spare
    <3> HIDE DEF free, alloc, files
    <3>2. Cardinality(free) + Cardinality(alloc) + Cardinality(files) = 1
      BY <2>3, <2>5, <3>1
    <3> QED
      BY <3>2 DEF free, alloc, files
  <2>6. CASE h # req.hdr /\ files # {}
    <3>1. PICK p \in DOMAIN tab : h = tab[p].loc
      BY <2>6
    <3>2. free = {} /\ alloc = {} /\ files = {p}
      BY <2>1, <2>2, <2>6, <3>1 DEF Spare
    <3> HIDE DEF free, alloc, files
    <3>3. Cardinality(free) + Cardinality(alloc) + Cardinality(files) = 1
      <4>1. Cardinality({p}) = 1
        BY <2>3
      <4> QED
        BY <2>3, <3>2, <4>1
    <3> QED
      BY <3>3 DEF free, alloc, files
  <2> QED
    BY <2>4, <2>5, <2>6
<1> QED
  BY <1>1, IInvAlways, PTL

-----------------------------------------------------------------------------
(* The pool in terms of the proof's sets.                                  *)

LEMMA PoolSets ==
  /\ {b \in Blocks : bpn[b].fhloc = INVLOC /\ b # req.blk} = Unowned({})
  /\ {b \in Blocks : bpn[b].fhloc # INVLOC /\ \A p \in DOMAIN tab : b \notin ChainLocs(p)} = Dead({})
  /\ [p \in Paths |-> IF p \in DOMAIN tab THEN ChainLocs(p) ELSE {}] = Contents
  /\ {b \in Blocks : bpn[b].fhloc = INVLOC /\ b # req.blk}' = Unowned({})'
  /\ {b \in Blocks : bpn[b].fhloc # INVLOC /\ \A p \in DOMAIN tab : b \notin ChainLocs(p)}' = Dead({})'
  /\ [p \in Paths |-> IF p \in DOMAIN tab THEN ChainLocs(p) ELSE {}]' = Contents'
  BY DEF Unowned, Dead, Contents

\* A step that moves no block
LEMMA PoolStutters ==
  ASSUME bpn' = bpn, req'.blk = req.blk, DOMAIN tab' = DOMAIN tab,
         \A p \in DOMAIN tab : tab'[p].chain = tab[p].chain
  PROVE  UNCHANGED Pool!vars
<1>1. \A p \in DOMAIN tab : ChainLocs(p)' = ChainLocs(p)
  BY DEF ChainLocs
<1>2. Unowned({})' = Unowned({}) /\ Dead({})' = Dead({}) /\ Contents' = Contents
  BY <1>1 DEF Unowned, Dead, Contents
<1> QED
  BY <1>2, PoolSets DEF Pool!vars

LEMMA PoolInit == Init => Pool!Init
<1> SUFFICES ASSUME Init PROVE Pool!Init
  OBVIOUS
<1>1. DOMAIN tab = {} /\ req.blk = INVLOC /\ \A b \in Blocks : bpn[b].fhloc = INVLOC
  BY DEF Init, NoReq, FreeNode
<1> QED
  BY <1>1, LocsAreNat DEF Pool!Init

LEMMA PoolStep ==
  ASSUME OrderedTruncation, IInv, [Next]_vars
  PROVE  [Pool!Next]_(Pool!vars)
<1>1. /\ TypeOK /\ CallInv /\ StaleMatches /\ HeadsMatch({})
      /\ CutInv /\ HeaderInv({}) /\ FreeInv({}) /\ DeadInv({}) /\ ChainInv({})
  BY HeadsMatchAll DEF IInv, TableInv, DiskInv
<1> USE <1>1
<1>2. CASE AllocBlock
  <2>1. /\ req.blk = INVLOC /\ req'.blk = mb.bfl /\ mb.bfl \in Unowned({}) /\ Unowned({})' = Unowned({}) \ {mb.bfl}
    BY <1>2, BlockTaken
  <2>2. PICK b \in Blocks : b = mb.bfl /\ b # INVLOC
    BY <2>1, LocsAreNat DEF Unowned
  <2>3. Dead({})' = Dead({}) /\ Contents' = Contents
    BY <1>2 DEF AllocBlock, Dead, Contents, ChainLocs
  <2>4. {req.blk} \ {INVLOC} = {} /\ ({req.blk} \ {INVLOC})' = {b}
    BY <2>1, <2>2
  <2>5. Pool!Take(b)
    BY <2>1, <2>2, <2>3, <2>4, PoolSets DEF Pool!Take
  <2> QED
    BY <2>5 DEF Pool!Next
<1>3. CASE LinkNewFile \/ LinkBlock
  <2>1. /\ req.blk # INVLOC /\ req'.blk = INVLOC /\ Unowned({})' = Unowned({}) /\ Dead({})' = Dead({})
        /\ req.path \in Paths /\ Contents' = [Contents EXCEPT ![req.path] = @ \cup {req.blk}]
    BY <1>3, NewFileLinked, BlockAppended
  <2>2. PICK p \in Paths : p = req.path
    BY <2>1
  <2>3. {req.blk} \ {INVLOC} = {req.blk} /\ ({req.blk} \ {INVLOC})' = {}
    BY <2>1
  <2>4. Contents' = [Contents EXCEPT ![p] = Contents[p] \cup ({req.blk} \ {INVLOC})]
    BY <2>1, <2>2, <2>3
  <2>5. Pool!Give(p)
    BY <2>1, <2>3, <2>4, PoolSets DEF Pool!Give
  <2> QED
    BY <2>5 DEF Pool!Next
<1>4. ASSUME NEW p \in DOMAIN tab, p # cut.path, RemoveFile(p), req' = req, cut' = cut, pc # "rm"
      PROVE  Pool!Next
  <2>1. Dead({}) = {} /\ Dead({})' = Contents[p] /\ Contents' = [Contents EXCEPT ![p] = {}]
    BY <1>4, FileRemoved
  <2>2. p \in Paths /\ Unowned({})' = Unowned({})
    BY <1>4, TypeParts DEF RemoveFile, Unowned
  <2>3. Pool!Drop(p)
    BY <1>4, <2>1, <2>2, PoolSets DEF Pool!Drop
  <2> QED
    BY <2>2, <2>3 DEF Pool!Next
<1>5. CASE Evict
  BY <1>4, <1>5, StaleHead DEF Evict, Untouched
<1>6. ASSUME NEW p \in Paths, Rm(p) PROVE Pool!Next
  BY <1>4, <1>6 DEF Rm, Untouched
<1>7. CASE RmBlock
  <2>1. walk \in Dead({}) /\ Dead({})' = Dead({}) \ {walk} /\ Unowned({})' = Unowned({}) \cup {walk}
    BY <1>7, DeadReturned
  <2>2. Contents' = Contents /\ req' = req
    BY <1>7 DEF RmBlock, Contents, ChainLocs
  <2>3. PICK b \in Blocks : b = walk
    BY <2>1 DEF Dead
  <2>4. Pool!Release(b)
    BY <2>1, <2>2, <2>3, PoolSets DEF Pool!Release
  <2> QED
    BY <2>4 DEF Pool!Next
<1>8. CASE TruncateBlock
  <2>1. Dead({})' = Dead({}) /\ req' = req
    BY <1>8, BlockCut DEF TruncateBlock, CutBlock
  <2>2. PICK p \in Paths :
          \E b \in Contents[p] :
            Unowned({})' = Unowned({}) \cup {b} /\ Contents' = [Contents EXCEPT ![p] = @ \ {b}]
    BY <1>8, BlockCut
  <2>3. PICK b \in Contents[p] :
          Unowned({})' = Unowned({}) \cup {b} /\ Contents' = [Contents EXCEPT ![p] = @ \ {b}]
    BY <2>2
  <2>4. b \in Blocks
    BY <2>3, ChainBlock DEF Contents, ChainLocs
  <2>5. Pool!Trim(p, b)
    BY <2>1, <2>3, PoolSets DEF Pool!Trim
  <2> QED
    BY <2>4, <2>5 DEF Pool!Next
<1>9. ASSUME NEW p \in Paths, NEW off \in BlockOffs, NEW len \in Lens,
             \/ InsertNewFile(p, off, len)
             \/ \E flag \in InsertFlags : InsertBlock(p, off, len, flag)
      PROVE  UNCHANGED Pool!vars
  <2>1. req.blk = INVLOC /\ req'.blk = INVLOC /\ bpn' = bpn /\ tab' = tab
    BY <1>9 DEF InsertNewFile, InsertBlock, CallInv, NoReq, disk
  <2> QED
    BY <2>1, PoolStutters
<1>10. CASE GiveUp
  <2>1. req.blk = INVLOC /\ req'.blk = INVLOC /\ bpn' = bpn /\ tab' = tab
    BY <1>10 DEF GiveUp, CallInv, NoReq
  <2> QED
    BY <2>1, PoolStutters
<1>11. CASE NoBlockAfterEviction \/ HeadNotListed \/ (\E p \in Paths : NodeNotListed(p))
            \/ LinkAborts \/ LinkToEvicted \/ RmDone \/ TruncateDone \/ Race
            \/ UNCHANGED vars
  <2>1. req' = req /\ bpn' = bpn /\ tab' = tab
    BY <1>11 DEF NoBlockAfterEviction, HeadNotListed, NodeNotListed, LinkAborts, LinkToEvicted, RmDone, TruncateDone, Race, vars, disk
  <2> QED
    BY <2>1, PoolStutters
<1>12. ASSUME NEW p \in Paths,
              \/ \E off \in BlockOffs, len \in Lens : OverwriteBlock(p, off, off + len)
              \/ \E off \in TruncateOffs : TruncateStart(p, off)
              \/ Append_to_stale_list(p) \/ AppendNode(p) \/ Rm_file_from_stale_list(p)
       PROVE  UNCHANGED Pool!vars
  <2>1. bpn' = bpn /\ req' = req /\ p \in DOMAIN tab
    BY <1>12 DEF OverwriteBlock, TruncateStart, Append_to_stale_list, AppendNode, Rm_file_from_stale_list, disk
  <2>2. tab[p] \in CachedFile /\ tab \in [DOMAIN tab -> CachedFile]
    BY <2>1, TypeParts
  <2>3. PICK f : f.chain = tab[p].chain /\ tab' = [tab EXCEPT ![p] = f]
    <3>1. \A x : [tab[p] EXCEPT !.fileoff = x].chain = tab[p].chain
                 /\ [tab[p] EXCEPT !.sn = x].chain = tab[p].chain
      BY <2>2 DEF CachedFile
    <3> QED
      BY <1>12, <3>1 DEF OverwriteBlock, TruncateStart, Append_to_stale_list, AppendNode, Rm_file_from_stale_list
  <2> QED
    BY <2>1, <2>2, <2>3, PoolStutters
<1> QED
  BY <1>2, <1>3, <1>5, <1>6, <1>7, <1>8, <1>9, <1>10, <1>11, <1>12 DEF Next, Call, CallStep, CutStep, AppendStep

-----------------------------------------------------------------------------
\* The cache implements the moves of the pool: no Insert, removal, eviction or
\* truncation, interleaved as the mutexes allow, gives a block to a file without
\* taking it from the free list first, frees a block twice, or starts a removal
\* before the blocks of the last one are all back.  (Pool!Spec adds that they
\* do come back, which TLC checks.)
THEOREM PoolImplemented ==
  ASSUME OrderedTruncation
  PROVE  Spec => Pool!Moves
<1>1. IInv /\ [Next]_vars => [Pool!Next]_(Pool!vars)
  BY PoolStep
<1> QED
  BY <1>1, PoolInit, IInvAlways, PTL DEF Spec, Pool!Moves

=============================================================================
