------------------------- MODULE RSCCrashListsProof -------------------------
(***************************************************************************)
(* Theorems about the lists of the cache file across stops and starts: the *)
(* two free lists and the blocks of each header.  A running program has    *)
(* them (DiskInv of RSCTableDiskProof), a stop leaves them but for the     *)
(* blocks and headers that it loses, and a start reads them back.  They    *)
(* assume OrderedTruncation.  Those about any number of stops also have    *)
(* the condition that none was in a truncation or between the first two    *)
(* writes of a return to a free list: the run crash has what happens then. *)
(* The last one, of what the first stop loses, has no such condition.      *)
(***************************************************************************)
EXTENDS RSCCrashProof

-----------------------------------------------------------------------------
(* What a start relies on, of a program that runs: no offset is twice in a *)
(* file, and a header that no file has names no block.                     *)

OffsInv ==
  /\ \A p \in DOMAIN tab : \A i, j \in DOMAIN tab[p].chain :
       tab[p].chain[i].off = tab[p].chain[j].off => i = j
  /\ req.path \in DOMAIN tab => req.off \notin Offs(req.path)

UnusedHeaders ==
  \A h \in Headers : (\A p \in DOMAIN tab : tab[p].loc # h) => hdr[h].nodeHeader = INVLOC

LEMMA OffsInvKept ==
  ASSUME OffsInv,
         \A q \in DOMAIN tab' : q \in DOMAIN tab /\ tab'[q].chain = tab[q].chain,
         req'.path \in DOMAIN tab' => req'.path = req.path /\ req'.off = req.off
  PROVE  OffsInv'
  BY DEF OffsInv, Offs

LEMMA OffsInvStep ==
  ASSUME TypeOK, TypeOK', CallInv, StaleMatches, OffsInv, [Next]_vars
  PROVE  OffsInv'
<1> USE TypeParts
<1>0. /\ \A p \in DOMAIN tab : tab[p] \in CachedFile /\ p \in Paths
      /\ \A p \in DOMAIN tab' : p \in Paths
      /\ NoReq.path = NoPath /\ NoPath \notin Paths
  BY RSCAssumption DEF NoReq
<1>1. ASSUME \A q \in DOMAIN tab' : q \in DOMAIN tab /\ tab'[q].chain = tab[q].chain,
             req' = req \/ req' = NoReq
      PROVE  OffsInv'
  BY <1>0, <1>1, OffsInvKept
<1>2. ASSUME NEW p \in DOMAIN tab, RemoveFile(p), req' = req
      PROVE  OffsInv'
  BY <1>1, <1>2 DEF RemoveFile
<1>3. ASSUME NEW p \in DOMAIN tab, NEW f, tab' = [tab EXCEPT ![p] = f], f.chain = tab[p].chain,
             req' = req \/ req' = NoReq
      PROVE  OffsInv'
  BY <1>1, <1>3
<1>4. CASE UNCHANGED vars
  BY <1>1, <1>4 DEF vars
<1>5. CASE Call
  <2> SUFFICES ASSUME NEW p \in Paths,
                      \/ \E off \in BlockOffs, len \in Lens : InsertNewFile(p, off, len)
                      \/ \E off \in BlockOffs, len \in Lens, flag \in InsertFlags : InsertBlock(p, off, len, flag)
                      \/ \E off \in BlockOffs, len \in Lens : OverwriteBlock(p, off, off + len)
                      \/ Rm(p)
                      \/ Append_to_stale_list(p)
                      \/ Rm_file_from_stale_list(p)
                      \/ NodeNotListed(p)
                      \/ \E off \in TruncateOffs : TruncateStart(p, off)
               PROVE  OffsInv'
    BY <1>5 DEF Call
  <2>1. ASSUME NEW off \in BlockOffs, NEW len \in Lens, InsertNewFile(p, off, len)
        PROVE  OffsInv'
    <3>1. req'.path = p /\ tab' = tab /\ p \notin DOMAIN tab
      BY <2>1 DEF InsertNewFile, NoReq
    <3> QED
      BY <3>1, OffsInvKept
  <2>2. ASSUME NEW off \in BlockOffs, NEW len \in Lens, NEW flag \in InsertFlags, InsertBlock(p, off, len, flag)
        PROVE  OffsInv'
    <3>1. req'.path = p /\ req'.off = off /\ tab' = tab /\ off \notin Offs(p)
      BY <2>2 DEF InsertBlock, NoReq
    <3> QED
      BY <3>1 DEF OffsInv, Offs
  <2>3. ASSUME NEW off \in BlockOffs, NEW len \in Lens, OverwriteBlock(p, off, off + len)
        PROVE  OffsInv'
    <3> DEFINE f == [tab[p] EXCEPT !.fileoff = Grow(@, off + len)]
    <3>1. p \in DOMAIN tab /\ f.chain = tab[p].chain /\ tab' = [tab EXCEPT ![p] = f] /\ req' = req
      BY <1>0, <2>3 DEF OverwriteBlock, CachedFile
    <3> HIDE DEF f
    <3> QED
      BY <1>3, <3>1
  <2>4. CASE Rm(p)
    BY <1>2, <2>4 DEF Rm
  <2>5. CASE Append_to_stale_list(p) \/ Rm_file_from_stale_list(p)
    <3>1. PICK sn \in StaleNode : tab' = [tab EXCEPT ![p].sn = sn] /\ p \in DOMAIN tab /\ req' = req
      BY <2>5 DEF Append_to_stale_list, Rm_file_from_stale_list, StaleNode
    <3> DEFINE f == [tab[p] EXCEPT !.sn = sn]
    <3>2. f.chain = tab[p].chain /\ tab' = [tab EXCEPT ![p] = f]
      BY <1>0, <3>1 DEF CachedFile
    <3> HIDE DEF f
    <3> QED
      BY <1>3, <3>1, <3>2
  <2>6. ASSUME NEW off \in TruncateOffs, TruncateStart(p, off)
        PROVE  OffsInv'
    <3> DEFINE f == [tab[p] EXCEPT !.fileoff = off]
    <3>1. p \in DOMAIN tab /\ f.chain = tab[p].chain /\ tab' = [tab EXCEPT ![p] = f] /\ req' = req
      BY <1>0, <2>6 DEF TruncateStart, CachedFile
    <3> HIDE DEF f
    <3> QED
      BY <1>3, <3>1
  <2>7. CASE NodeNotListed(p)
    BY <1>1, <2>7 DEF NodeNotListed
  <2> QED
    BY <2>1, <2>2, <2>3, <2>4, <2>5, <2>6, <2>7
<1>6. CASE AllocBlock
  <2>1. tab' = tab /\ req'.path = req.path /\ req'.off = req.off
    BY <1>6 DEF AllocBlock, Alloc_file_block, RequestType
  <2> QED
    BY <2>1, OffsInvKept
<1>7. CASE Evict
  BY <1>2, <1>7, StaleHead DEF Evict
<1>8. CASE LinkNewFile
  <2> DEFINE f == [loc |-> req.hdr, nodeHeader |-> req.blk, nodeTail |-> req.blk,
                   fileoff |-> Grow(hdr[req.hdr].fileoff, req.end),
                   chain |-> <<[loc |-> req.blk, off |-> req.off]>>, sn |-> "null"]
  <2>1. tab' = [q \in DOMAIN tab \cup {req.path} |-> IF q = req.path THEN f ELSE tab[q]] /\ req' = NoReq
    BY <1>8 DEF LinkNewFile
  <2>2. DOMAIN f.chain = {1}
    OBVIOUS
  <2> HIDE DEF f
  <2>3. \A p \in DOMAIN tab' : IF p = req.path THEN tab'[p] = f ELSE p \in DOMAIN tab /\ tab'[p] = tab[p]
    BY <2>1
  <2> QED
    BY <1>0, <2>1, <2>2, <2>3 DEF OffsInv
<1>9. CASE LinkBlock
  <2> DEFINE p == req.path
             f == tab[p]
             g == WithBlock(f, req.blk, req.off, req.end)
             n == Len(f.chain)
             node == [loc |-> req.blk, off |-> req.off]
  <2>1. /\ p \in DOMAIN tab /\ f \in CachedFile /\ req.blk \in Blocks /\ req.off \in BlockOffs /\ req.end \in Nat
        /\ tab' = [tab EXCEPT ![p] = g] /\ req' = NoReq
    BY <1>0, <1>9 DEF LinkBlock, CallInv, RequestType, BlockOrNone
  <2> HIDE DEF f, p
  <2>2. g.chain = Append(f.chain, node)
    BY ONLY <2>1, WithBlockType
  <2>3. f.chain \in Seq(ChainNode) /\ n \in Nat /\ DOMAIN f.chain = 1 .. n /\ node \in ChainNode
    BY <2>1, ChainType DEF ChainNode
  <2> USE DEF f, p
  <2> HIDE DEF g
  <2>4. /\ DOMAIN g.chain = 1 .. (n + 1) /\ g.chain[n + 1].off = req.off
        /\ \A i \in 1 .. n : g.chain[i] = f.chain[i]
    BY <2>2, <2>3, AppendProperties
  <2>5. \A i \in 1 .. n : f.chain[i].off # req.off
    BY <2>1, <2>3 DEF OffsInv, Offs
  <2>6. \A i, j \in 1 .. n : f.chain[i].off = f.chain[j].off => i = j
    BY <2>1, <2>3 DEF OffsInv
  <2> HIDE DEF n
  <2>7. \A i, j \in DOMAIN g.chain : g.chain[i].off = g.chain[j].off => i = j
    <3>1. n \in Nat
      BY <2>3
    <3>2. \A i \in DOMAIN g.chain : i \in 1 .. n \/ i = n + 1
      BY <2>4, <3>1
    <3> QED
      BY <2>4, <2>5, <2>6, <3>2
  <2>8. \A q \in DOMAIN tab' : q \in DOMAIN tab /\ tab'[q] = IF q = p THEN g ELSE tab[q]
    BY <2>1
  <2> HIDE DEF p, f
  <2> QED
    BY <1>0, <2>1, <2>7, <2>8 DEF OffsInv
<1>10. CASE TruncateBlock
  <2> DEFINE p == cut.path
             f == tab[p]
             n == Len(f.chain)
  <2>1. PICK i \in DOMAIN f.chain : tab' = [tab EXCEPT ![p] = WithoutNode(f, i)]
    BY <1>10 DEF TruncateBlock, CutBlock, CutNodes
  <2> DEFINE g == WithoutNode(f, i)
  <2>2. p \in DOMAIN tab /\ f \in CachedFile /\ req' = req
    BY <1>0, <1>10 DEF TruncateBlock, CallInv
  <2>3. f.chain \in Seq(ChainNode) /\ n \in Nat /\ DOMAIN f.chain = 1 .. n
    BY <2>2, ChainType
  <2>4. g.chain = RemoveAt(f.chain, i)
    BY <2>2, WithoutNodeType
  <2> HIDE DEF g
  <2>5. /\ DOMAIN g.chain = 1 .. (n - 1)
        /\ \A j \in 1 .. (n - 1) : g.chain[j] = IF j < i THEN f.chain[j] ELSE f.chain[j + 1]
    BY <2>3, <2>4, RemoveAtProperties
  <2>6. \A j, k \in 1 .. n : f.chain[j].off = f.chain[k].off => j = k
    BY <2>2, <2>3 DEF OffsInv
  <2>7. req.path # p
    BY <1>10, <2>2 DEF TruncateBlock, CallInv
  <2> HIDE DEF f, n
  <2>8. ASSUME NEW j \in 1 .. (n - 1), NEW k \in 1 .. (n - 1), g.chain[j].off = g.chain[k].off
        PROVE  j = k
    <3> DEFINE J == IF j < i THEN j ELSE j + 1
               K == IF k < i THEN k ELSE k + 1
    <3>1. i \in 1 .. n /\ n \in Nat
      BY <2>3
    <3>2. J \in 1 .. n /\ K \in 1 .. n
      BY <3>1
    <3>3. g.chain[j] = f.chain[J] /\ g.chain[k] = f.chain[K]
      BY <2>5
    <3>4. J = K
      BY <2>6, <2>8, <3>2, <3>3
    <3> QED
      BY <3>1, <3>4
  <2>9. \A q \in DOMAIN tab' : q \in DOMAIN tab /\ tab'[q] = IF q = p THEN g ELSE tab[q]
    BY <2>1 DEF f, g
  <2> HIDE DEF p
  <2>10. (req.path \in DOMAIN tab => req.off \notin Offs(req.path))'
    BY <2>2, <2>7, <2>9 DEF OffsInv, Offs
  <2>11. (\A q \in DOMAIN tab : \A j, k \in DOMAIN tab[q].chain :
            tab[q].chain[j].off = tab[q].chain[k].off => j = k)'
    BY <2>5, <2>8, <2>9 DEF OffsInv
  <2> QED
    BY <2>10, <2>11 DEF OffsInv
<1>11. CASE \/ GiveUp \/ NoBlockAfterEviction \/ HeadNotListed \/ LinkAborts \/ LinkToEvicted
            \/ RmBlock \/ RmDone \/ TruncateDone \/ Race
  BY <1>1, <1>11
  DEF GiveUp, NoBlockAfterEviction, HeadNotListed, LinkAborts, LinkToEvicted, RmBlock, RmDone,
      TruncateDone, Race
<1>12. ASSUME NEW p \in Paths, AppendNode(p)
       PROVE  OffsInv'
  <2> DEFINE f == [tab[p] EXCEPT !.sn = "listed"]
  <2>1. p \in DOMAIN tab /\ f.chain = tab[p].chain /\ tab' = [tab EXCEPT ![p] = f] /\ req' = req
    BY <1>0, <1>12 DEF AppendNode, CachedFile
  <2> HIDE DEF f
  <2> QED
    BY <1>3, <2>1
<1> QED
  BY <1>4, <1>5, <1>6, <1>7, <1>8, <1>9, <1>10, <1>11, <1>12 DEF Next, CallStep, CutStep, AppendStep

LEMMA UnusedHeadersStep ==
  ASSUME TypeOK, TypeOK', CallInv, StaleMatches, UnusedHeaders, [Next]_vars
  PROVE  UnusedHeaders'
<1> USE TypeParts
<1> DEFINE Unused(h) == \A p \in DOMAIN tab : tab[p].loc # h
           Unused2(h) == \A p \in DOMAIN tab' : tab'[p].loc # h
<1>0. /\ \A p \in DOMAIN tab : tab[p] \in CachedFile /\ tab[p].loc \in Headers /\ p \in Paths
      /\ \A p \in DOMAIN tab' : tab'[p] \in CachedFile
  BY DEF CachedFile
<1>1. ASSUME \A h \in Headers : Unused2(h) => Unused(h) /\ hdr'[h].nodeHeader = hdr[h].nodeHeader
      PROVE  UnusedHeaders'
  BY <1>1 DEF UnusedHeaders
<1>2. ASSUME NEW h \in Headers, NEW p, Return_file_header(h, p),
             \A i \in Headers : i # h /\ Unused2(i) => Unused(i)
      PROVE  UnusedHeaders'
  <2>1. hdr'[h].nodeHeader = INVLOC
    BY <1>2 DEF Return_file_header, FreeHeader
  <2>2. \A i \in Headers : i # h => hdr'[i].nodeHeader = hdr[i].nodeHeader
    <3>1. CASE mb.hfl = INVLOC
      BY <1>2, <3>1 DEF Return_file_header
    <3>2. CASE mb.hfl # INVLOC
      <4>1. hdr' = [hdr EXCEPT ![mb.hft].next = h, ![h] = FreeHeader(NoPath)]
        BY <1>2, <3>2 DEF Return_file_header
      <4> QED
        BY <4>1 DEF HeaderType
    <3> QED
      BY <3>1, <3>2
  <2> QED
    BY <1>2, <2>1, <2>2 DEF UnusedHeaders
<1>3. ASSUME NEW p \in DOMAIN tab, RemoveFile(p)
      PROVE  UnusedHeaders'
  <2>1. DOMAIN tab' = DOMAIN tab \ {p} /\ (\A q \in DOMAIN tab' : tab'[q] = tab[q])
        /\ Return_file_header(tab[p].loc, p)
    BY <1>3 DEF RemoveFile
  <2>2. \A i \in Headers : i # tab[p].loc /\ Unused2(i) => Unused(i)
    BY <2>1
  <2> HIDE DEF Unused, Unused2
  <2> QED
    BY <1>0, <1>2, <2>1, <2>2
<1>4. ASSUME NEW p \in DOMAIN tab, NEW f, f.loc = tab[p].loc, tab' = [tab EXCEPT ![p] = f],
             \A h \in Headers : h # tab[p].loc => hdr'[h] = hdr[h]
      PROVE  UnusedHeaders'
  <2>1. DOMAIN tab' = DOMAIN tab /\ \A q \in DOMAIN tab : tab'[q].loc = tab[q].loc
    BY <1>4
  <2>2. \A h \in Headers : Unused2(h) => Unused(h) /\ h # tab[p].loc
    BY <2>1
  <2> QED
    BY <1>1, <1>4, <2>2
<1>5. ASSUME tab' = tab, hdr' = hdr
      PROVE  UnusedHeaders'
  BY <1>1, <1>5
<1>6. CASE UNCHANGED vars
  BY <1>5, <1>6 DEF vars
<1>7. CASE Call
  <2> SUFFICES ASSUME NEW p \in Paths,
                      \/ \E off \in BlockOffs, len \in Lens : InsertNewFile(p, off, len)
                      \/ \E off \in BlockOffs, len \in Lens, flag \in InsertFlags : InsertBlock(p, off, len, flag)
                      \/ \E off \in BlockOffs, len \in Lens : OverwriteBlock(p, off, off + len)
                      \/ Rm(p)
                      \/ Append_to_stale_list(p)
                      \/ Rm_file_from_stale_list(p)
                      \/ NodeNotListed(p)
                      \/ \E off \in TruncateOffs : TruncateStart(p, off)
               PROVE  UnusedHeaders'
    BY <1>7 DEF Call
  <2>1. ASSUME NEW off \in BlockOffs, NEW len \in Lens, InsertNewFile(p, off, len)
        PROVE  UnusedHeaders'
    <3>1. tab' = tab /\ hdr' = [hdr EXCEPT ![mb.hfl].path = p]
      BY <2>1 DEF InsertNewFile, Alloc_file_header
    <3>2. \A h \in Headers : hdr'[h].nodeHeader = hdr[h].nodeHeader
      BY <3>1 DEF HeaderType
    <3> QED
      BY <1>1, <3>1, <3>2
  <2>2. ASSUME NEW off \in BlockOffs, NEW len \in Lens, NEW flag \in InsertFlags, InsertBlock(p, off, len, flag)
        PROVE  UnusedHeaders'
    BY <1>5, <2>2 DEF InsertBlock, disk
  <2>3. ASSUME NEW off \in BlockOffs, NEW len \in Lens, OverwriteBlock(p, off, off + len)
        PROVE  UnusedHeaders'
    <3> DEFINE f == [tab[p] EXCEPT !.fileoff = Grow(@, off + len)]
    <3>1. p \in DOMAIN tab /\ f.loc = tab[p].loc /\ tab' = [tab EXCEPT ![p] = f]
          /\ \A h \in Headers : h # tab[p].loc => hdr'[h] = hdr[h]
      BY <1>0, <2>3 DEF OverwriteBlock, CachedFile
    <3> HIDE DEF f
    <3> QED
      BY <1>4, <3>1
  <2>4. CASE Rm(p)
    BY <1>3, <2>4 DEF Rm
  <2>5. CASE Append_to_stale_list(p) \/ Rm_file_from_stale_list(p)
    <3>1. PICK sn \in StaleNode : tab' = [tab EXCEPT ![p].sn = sn] /\ p \in DOMAIN tab /\ hdr' = hdr
      BY <2>5 DEF Append_to_stale_list, Rm_file_from_stale_list, StaleNode, disk
    <3> DEFINE f == [tab[p] EXCEPT !.sn = sn]
    <3>2. f.loc = tab[p].loc /\ tab' = [tab EXCEPT ![p] = f]
      BY <1>0, <3>1 DEF CachedFile
    <3> HIDE DEF f
    <3> QED
      BY <1>4, <3>1, <3>2
  <2>6. ASSUME NEW off \in TruncateOffs, TruncateStart(p, off)
        PROVE  UnusedHeaders'
    <3> DEFINE f == [tab[p] EXCEPT !.fileoff = off]
    <3>1. p \in DOMAIN tab /\ f.loc = tab[p].loc /\ tab' = [tab EXCEPT ![p] = f] /\ hdr' = hdr
      BY <1>0, <2>6 DEF TruncateStart, CachedFile, disk
    <3> HIDE DEF f
    <3> QED
      BY <1>4, <3>1
  <2>7. CASE NodeNotListed(p)
    BY <1>5, <2>7 DEF NodeNotListed, disk
  <2> QED
    BY <2>1, <2>2, <2>3, <2>4, <2>5, <2>6, <2>7
<1>8. CASE GiveUp
  <2>1. tab' = tab
    BY <1>8 DEF GiveUp
  <2>2. CASE req.hdr = INVLOC
    BY <1>5, <1>8, <2>1, <2>2 DEF GiveUp
  <2>3. CASE req.hdr # INVLOC
    <3>1. req.hdr \in Headers /\ Return_file_header(req.hdr, req.path)
      BY <1>8, <2>3 DEF GiveUp, RequestType, HeaderOrNone
    <3> QED
      BY <1>2, <2>1, <3>1
  <2> QED
    BY <2>2, <2>3
<1>9. CASE Evict
  BY <1>3, <1>9, StaleHead DEF Evict
<1>10. CASE LinkNewFile
  <2>1. /\ req.path \notin DOMAIN tab
        /\ DOMAIN tab' = DOMAIN tab \cup {req.path} /\ tab'[req.path].loc = req.hdr
        /\ \A q \in DOMAIN tab : tab'[q] = tab[q]
        /\ \A h \in Headers : h # req.hdr => hdr'[h] = hdr[h]
    BY <1>10 DEF LinkNewFile, CallInv
  <2>2. \A h \in Headers : Unused2(h) => Unused(h) /\ h # req.hdr
    BY <2>1
  <2> QED
    BY <1>1, <2>1, <2>2
<1>11. CASE LinkBlock
  <2> DEFINE f == tab[req.path]
             g == WithBlock(f, req.blk, req.off, req.end)
  <2>1. /\ req.path \in DOMAIN tab /\ f \in CachedFile /\ req.blk \in Blocks /\ req.off \in BlockOffs
        /\ req.end \in Nat /\ tab' = [tab EXCEPT ![req.path] = g]
        /\ hdr' = [hdr EXCEPT ![f.loc] = HeaderOf(req.path, g)]
    BY <1>0, <1>11 DEF LinkBlock, CallInv, RequestType, BlockOrNone
  <2> HIDE DEF f
  <2>2. g.loc = f.loc
    BY ONLY <2>1, WithBlockType
  <2> USE DEF f
  <2> HIDE DEF g
  <2> QED
    BY <1>4, <2>1, <2>2
<1>12. CASE TruncateBlock
  <2> DEFINE f == tab[cut.path]
  <2>1. PICK i \in DOMAIN f.chain : tab' = [tab EXCEPT ![cut.path] = WithoutNode(f, i)]
    BY <1>12 DEF TruncateBlock, CutBlock, CutNodes
  <2> DEFINE g == WithoutNode(f, i)
  <2>2. cut.path \in DOMAIN tab /\ f \in CachedFile /\ hdr' = hdr
    BY <1>0, <1>12 DEF TruncateBlock, CallInv
  <2>3. g.loc = f.loc
    BY <2>2, WithoutNodeType
  <2> HIDE DEF g
  <2>4. tab' = [tab EXCEPT ![cut.path] = g]
    BY <2>1 DEF g
  <2> QED
    BY <1>4, <2>2, <2>3, <2>4
<1>13. CASE TruncateDone
  <2>1. cut.path \in DOMAIN tab /\ tab' = tab /\ \A h \in Headers : h # tab[cut.path].loc => hdr'[h] = hdr[h]
    BY <1>13 DEF TruncateDone, CallInv
  <2> QED
    BY <1>1, <2>1
<1>14. CASE \/ AllocBlock \/ NoBlockAfterEviction \/ HeadNotListed \/ LinkAborts \/ LinkToEvicted
            \/ RmBlock \/ RmDone \/ Race
  BY <1>5, <1>14
  DEF AllocBlock, NoBlockAfterEviction, HeadNotListed, LinkAborts, LinkToEvicted, RmBlock, RmDone, Race, disk
<1>15. ASSUME NEW p \in Paths, AppendNode(p)
       PROVE  UnusedHeaders'
  <2> DEFINE f == [tab[p] EXCEPT !.sn = "listed"]
  <2>1. p \in DOMAIN tab /\ f.loc = tab[p].loc /\ tab' = [tab EXCEPT ![p] = f] /\ hdr' = hdr
    BY <1>0, <1>15 DEF AppendNode, CachedFile, disk
  <2> HIDE DEF f
  <2> QED
    BY <1>4, <2>1
<1> QED
  BY <1>6, <1>7, <1>8, <1>9, <1>10, <1>11, <1>12, <1>13, <1>14, <1>15 DEF Next, CallStep, CutStep, AppendStep

-----------------------------------------------------------------------------
(* The lists of a cache file that a start can read.                        *)

UsedHeaders(f) == {h \in Headers : f.hdr[h].nodeHeader # INVLOC}

\* The blocks s of header h in cache file f: different ones, linked in order from
\* nodeHeader on, each with an offset of its own and with data of the header's file.
\* With X a stop may have left nodeTail behind.
FileChain(f, h, s, X) ==
  LET x == f.hdr[h] IN
  /\ s \in Seq(Blocks) /\ s # <<>>
  /\ \A i, j \in DOMAIN s : s[i] = s[j] => i = j
  /\ x.path \in Paths /\ x.next = INVLOC /\ x.nodeHeader = s[1]
  /\ X = {} => x.nodeTail = s[Len(s)]
  /\ \A i \in DOMAIN s :
       /\ f.bpn[s[i]].next = IF i = Len(s) THEN INVLOC ELSE s[i + 1]
       /\ f.bpn[s[i]].fhloc = h /\ f.bpn[s[i]].off \in BlockOffs
       /\ f.bytes[s[i]] = x.path
  /\ \A i, j \in DOMAIN s : f.bpn[s[i]].off = f.bpn[s[j]].off => i = j
  /\ AnyOrder \/ \A i, j \in DOMAIN s : i < j => f.bpn[s[i]].off < f.bpn[s[j]].off

NextBlocks(f)  == [b \in Blocks |-> f.bpn[b].next]
NextHeaders(f) == [h \in Headers |-> f.hdr[h].next]

\* The blocks F and the headers G are the free lists, and the headers that name a
\* block have the lists C and different files.  What is in none of them is lost.
FileLists(f, F, G, C, X) ==
  /\ F \subseteq Blocks /\ Queue(F, f.mb.bfl, f.mb.bft, NextBlocks(f))
  /\ \A b \in F : f.bpn[b].fhloc = INVLOC
  /\ G \subseteq Headers /\ Queue(G, f.mb.hfl, f.mb.hft, NextHeaders(f))
  /\ \A h \in G : f.hdr[h].nodeHeader = INVLOC
  /\ \A h \in UsedHeaders(f) : FileChain(f, h, C[h], X)
  /\ \A h, g \in UsedHeaders(f) : f.hdr[h].path = f.hdr[g].path => h = g

\* The walk of a start from a header with a list finds the list.
LEMMA ChainRead ==
  ASSUME file \in FileType, NEW h \in Headers, NEW s, NEW X, FileChain(file, h, s, X)
  PROVE  DiskChain(h) = s /\ Len(s) \in 1 .. NumBlocks /\ DOMAIN s = 1 .. Len(s)
<1> DEFINE n == Len(s)
           next == NextBlocks(file)
<1>1. s \in Seq(Blocks) /\ n \in Nat \ {0} /\ DOMAIN s = 1 .. n /\ \A i \in 1 .. n : s[i] \in Blocks
  BY LenProperties, ElementOfSeq, EmptySeq DEF FileChain
<1>2. NumBlocks \in Nat \ {0}
  BY RSCAssumption
<1>3. /\ \A i, j \in 1 .. n : s[i] = s[j] => i = j
      /\ file.hdr[h].nodeHeader = s[1]
      /\ \A i \in 1 .. n : file.bpn[s[i]].next = IF i = n THEN INVLOC ELSE s[i + 1]
  BY <1>1 DEF FileChain
<1>4. n <= NumBlocks
  <2>1. Chained(INVLOC, {s[i] : i \in 1 .. n}, s[1], next, n, s)
    <3>1. \A i \in 1 .. n : s[i] # INVLOC
      BY <1>1, LocsAreNat
    <3>2. \A i \in 1 .. n : next[s[i]] = IF i = n THEN INVLOC ELSE s[i + 1]
      BY <1>1, <1>3 DEF NextBlocks
    <3> HIDE DEF n, next
    <3> QED
      BY <1>1, <1>3, <3>1, <3>2 DEF Chained
  <2>2. IsFiniteSet(Blocks) /\ Cardinality(Blocks) = NumBlocks
    BY <1>2, FS_Interval DEF Blocks
  <2>3. {s[i] : i \in 1 .. n} \subseteq Blocks
    BY <1>1
  <2> HIDE DEF n, next
  <2> QED
    BY <2>1, <2>2, <2>3, ChainedBound
<1>5. s[1] \in Blocks
  BY <1>1
<1>6. PICK w : Walking(s[1], w) /\ WalkFrom(s[1]) = w[NumBlocks]
  BY <1>5, WalkDefined DEF BlockOrNone
<1> HIDE DEF n, next
<1> DEFINE reached(k) == IF k + 1 <= n THEN k + 1 ELSE n
           T == {k \in Nat : k <= NumBlocks =>
                  Len(w[k]) = reached(k) /\ \A i \in 1 .. reached(k) : w[k][i] = s[i]}
<1>7. 0 \in T
  <2>1. w[0] = <<s[1]>>
    BY <1>5, <1>6, LocsAreNat DEF Walking, WalkStart
  <2>2. Len(w[0]) = 1 /\ w[0][1] = s[1] /\ reached(0) = 1
    BY <1>1, <2>1
  <2>3. \A i \in 1 .. 1 : i = 1
    OBVIOUS
  <2> HIDE DEF reached
  <2> QED
    BY <2>2, <2>3
<1>8. ASSUME NEW k \in Nat, k \in T
      PROVE  k + 1 \in T
  <2> SUFFICES ASSUME k + 1 <= NumBlocks
               PROVE  /\ Len(w[k + 1]) = reached(k + 1)
                      /\ \A i \in 1 .. reached(k + 1) : w[k + 1][i] = s[i]
    OBVIOUS
  <2>1. Len(w[k]) = reached(k) /\ \A i \in 1 .. reached(k) : w[k][i] = s[i]
    BY <1>2, <1>8
  <2>2. w[k] \in Seq(Blocks)
    BY <1>2, <1>6 DEF Walking
  <2>3. w[k + 1] = WalkStep(w[k], k + 1)
    <3>1. k + 1 \in 1 .. NumBlocks /\ (k + 1) - 1 = k
      OBVIOUS
    <3> QED
      BY <1>6, <3>1 DEF Walking
  <2>4. CASE k + 1 < n
    <3>0. reached(k) = k + 1 /\ k + 1 \in 1 .. k + 1
      BY <1>1, <2>4
    <3>1. Len(w[k]) = k + 1 /\ w[k][k + 1] = s[k + 1]
      <4> HIDE DEF reached
      <4> QED
        BY <2>1, <3>0
    <3>2. k + 1 \in 1 .. n /\ k + 1 # n /\ (k + 1) + 1 \in 1 .. n
      BY <1>1, <2>4
    <3>3. file.bpn[s[k + 1]].next = s[k + 2] /\ s[k + 2] \in Blocks /\ s[k + 2] # INVLOC
      <4>1. (k + 1) + 1 = k + 2
        OBVIOUS
      <4>2. file.bpn[s[k + 1]].next = s[(k + 1) + 1]
        BY <1>3, <3>2
      <4>3. s[(k + 1) + 1] \in Blocks
        BY <1>1, <3>2
      <4> QED
        BY <4>1, <4>2, <4>3, LocsAreNat
    <3>4. w[k + 1] = Append(w[k], s[k + 2])
      BY <2>3, <3>1, <3>3 DEF WalkStep
    <3>5. Len(w[k + 1]) = k + 2 /\ w[k + 1][k + 2] = s[k + 2] /\ \A i \in 1 .. (k + 1) : w[k + 1][i] = w[k][i]
      BY <2>2, <3>1, <3>3, <3>4, AppendProperties
    <3>6. reached(k + 1) = k + 2 /\ reached(k) = k + 1
      BY <1>1, <2>4
    <3>7. \A i \in 1 .. (k + 2) : i \in 1 .. (k + 1) \/ i = k + 2
      OBVIOUS
    <3> HIDE DEF reached
    <3> QED
      BY <2>1, <3>5, <3>6, <3>7
  <2>5. CASE ~(k + 1 < n)
    <3>1. Len(w[k]) = n /\ reached(k + 1) = n /\ reached(k) = n
      BY <1>1, <2>1, <2>5
    <3>2. w[k + 1] = w[k]
      <4>1. CASE n < k + 1
        BY <2>3, <3>1, <4>1 DEF WalkStep
      <4>2. CASE n = k + 1
        <5>1. w[k][k + 1] = s[n] /\ n \in 1 .. n
          BY <1>1, <2>1, <3>1, <4>2
        <5>2. file.bpn[w[k][k + 1]].next = INVLOC
          BY <1>3, <5>1
        <5> QED
          BY <2>3, <5>2 DEF WalkStep
      <4> QED
        BY <1>1, <2>5, <4>1, <4>2
    <3> HIDE DEF reached
    <3> QED
      BY <2>1, <3>1, <3>2
  <2> QED
    BY <2>4, <2>5
<1> HIDE DEF T
<1>9. Nat \subseteq T
  BY <1>7, <1>8, NatSetInduction
<1>10. Len(w[NumBlocks]) = n /\ \A i \in 1 .. n : w[NumBlocks][i] = s[i]
  <2>1. reached(NumBlocks) = n
    BY <1>1, <1>2, <1>4 DEF reached
  <2>2. NumBlocks \in T
    BY <1>2, <1>9
  <2> HIDE DEF reached
  <2> QED
    BY <1>2, <2>1, <2>2 DEF T
<1>11. w[NumBlocks] \in Seq(Blocks)
  BY <1>2, <1>6 DEF Walking
<1>12. w[NumBlocks] = s
  BY <1>1, <1>10, <1>11, SeqEqual
<1>13. DiskChain(h) = s
  BY <1>3, <1>6, <1>12 DEF DiskChain
<1>14. n \in 1 .. NumBlocks
  BY <1>1, <1>2, <1>4
<1> QED
  BY <1>1, <1>13, <1>14 DEF n

\* So a start can read such a file (RSC_m.c:195 does not fail).
LEMMA ListsReadable ==
  ASSUME file \in FileType, NEW F, NEW G, NEW C, NEW X, FileLists(file, F, G, C, X)
  PROVE  Readable
<1> SUFFICES ASSUME NEW h \in HeadersInUse
             PROVE  /\ file.hdr[h].path # NoPath
                    /\ Len(DiskChain(h)) <= NumBlocks
                    /\ \A i \in DOMAIN DiskChain(h) : Aligned(file.bpn[DiskChain(h)[i]].off)
  BY DEF Readable
<1>1. h \in Headers /\ FileChain(file, h, C[h], X)
  BY DEF HeadersInUse, FileLists, UsedHeaders
<1>2. DiskChain(h) = C[h] /\ Len(C[h]) \in 1 .. NumBlocks /\ DOMAIN C[h] = 1 .. Len(C[h])
  BY <1>1, ChainRead
<1>3. \A off \in BlockOffs : Aligned(off)
  <2> SUFFICES ASSUME NEW k \in 0 .. (MaxFileBlocks - 1)
               PROVE  (k * CBlkSize) % CBlkSize = 0
    BY DEF BlockOffs, Aligned
  <2>1. k \in Int /\ CBlkSize \in Nat \ {0}
    BY RSCAssumption
  <2> QED
    BY <2>1
<1>4. \A i \in DOMAIN C[h] : Aligned(file.bpn[C[h][i]].off)
  BY <1>1, <1>3 DEF FileChain
<1>5. file.hdr[h].path # NoPath
  BY <1>1, RSCAssumption DEF FileChain
<1>6. NumBlocks \in Nat
  BY RSCAssumption
<1> QED
  BY <1>2, <1>4, <1>5, <1>6

-----------------------------------------------------------------------------
(* The table that a start makes from such a file.                          *)

DiskNode(b) == [loc |-> b, off |-> file.bpn[b].off]

DiskNodes(s) == [i \in 1 .. Len(s) |-> DiskNode(s[i])]

\* The entry of header h with a list
EntryWith(h, chain) ==
  [loc |-> h, nodeHeader |-> file.hdr[h].nodeHeader, nodeTail |-> file.hdr[h].nodeTail,
   fileoff |-> file.hdr[h].fileoff, chain |-> chain, sn |-> "listed"]

\* The first node makes the entry, the others are appended.
LEMMA FirstNodeRead ==
  ASSUME NEW t, NEW h, NEW b, NEW p, p = file.hdr[h].path, p \notin DOMAIN t
  PROVE  LET u == Read_cache_to_RSC_table(t, h, b) IN
         /\ DOMAIN u = DOMAIN t \cup {p} /\ u[p] = EntryWith(h, <<DiskNode(b)>>)
         /\ \A q \in DOMAIN t : u[q] = t[q]
<1> DEFINE f == EntryWith(h, <<DiskNode(b)>>)
<1>1. Read_cache_to_RSC_table(t, h, b) = [q \in DOMAIN t \cup {p} |-> IF q \in DOMAIN t THEN t[q] ELSE f]
  BY DEF Read_cache_to_RSC_table, EntryWith, DiskNode
<1> HIDE DEF f
<1> QED
  BY <1>1 DEF f

LEMMA SameEntry ==
  ASSUME NEW A, NEW B, NEW C, NEW D, NEW E, NEW F,
         NEW f \in [loc : A, nodeHeader : B, nodeTail : C, fileoff : D, chain : E, sn : F],
         NEW g \in [loc : A, nodeHeader : B, nodeTail : C, fileoff : D, chain : E, sn : F],
         f.loc = g.loc, f.nodeHeader = g.nodeHeader, f.nodeTail = g.nodeTail,
         f.fileoff = g.fileoff, f.chain = g.chain, f.sn = g.sn
  PROVE  f = g
  OBVIOUS

LEMMA NextNodeRead ==
  ASSUME NEW t \in ReadTable, NEW h, NEW b, NEW p, p = file.hdr[h].path, p \in DOMAIN t,
         NEW c, t[p] = EntryWith(h, c), \A i \in DOMAIN c : c[i].off # file.bpn[b].off
  PROVE  LET u == Read_cache_to_RSC_table(t, h, b) IN
         /\ DOMAIN u = DOMAIN t /\ u[p] = EntryWith(h, Append(c, DiskNode(b)))
         /\ \A q \in DOMAIN t : q # p => u[q] = t[q]
<1>1. t[p].chain = c
  BY DEF EntryWith
<1>2. Read_cache_to_RSC_table(t, h, b) = [t EXCEPT ![p].chain = Append(c, DiskNode(b))]
  BY <1>1 DEF Read_cache_to_RSC_table, DiskNode
<1>3. t \in [DOMAIN t -> ReadFile]
  BY ReadTableParts
<1> DEFINE d == Append(c, DiskNode(b))
<1> HIDE DEF d
<1>4. [t[p] EXCEPT !.chain = d] = EntryWith(h, d)
  <2> DEFINE f == [EntryWith(h, c) EXCEPT !.chain = d]
             g == EntryWith(h, d)
             S == [loc : {h}, nodeHeader : {file.hdr[h].nodeHeader}, nodeTail : {file.hdr[h].nodeTail},
                   fileoff : {file.hdr[h].fileoff}, chain : {c, d}, sn : {"listed"}]
  <2>1. EntryWith(h, c) \in S /\ g \in S
    BY DEF EntryWith
  <2>2. f \in S /\ f.chain = d
    BY <2>1
  <2>3. g.chain = d
    BY DEF EntryWith
  <2> HIDE DEF f, g
  <2>4. /\ f.loc = g.loc /\ f.nodeHeader = g.nodeHeader /\ f.nodeTail = g.nodeTail
        /\ f.fileoff = g.fileoff /\ f.sn = g.sn
    BY <2>1, <2>2
  <2>5. f = g
    BY <2>1, <2>2, <2>3, <2>4, SameEntry
  <2> QED
    BY <2>5 DEF f, g
<1>5. Read_cache_to_RSC_table(t, h, b) = [t EXCEPT ![p] = EntryWith(h, d)]
  BY <1>2, <1>3, <1>4 DEF d
<1> QED
  BY <1>3, <1>5 DEF d

\* All nodes of a header are read, to an entry of their own.
LEMMA FileRead ==
  ASSUME file \in FileType, Readable, NEW t \in ReadTable, NEW h \in HeadersInUse,
         NEW s, NEW X, FileChain(file, h, s, X), NEW p, p = file.hdr[h].path, p \notin DOMAIN t
  PROVE  LET u == Read_cacheNodes(t, h) IN
         /\ DOMAIN u = DOMAIN t \cup {p} /\ u[p] = EntryWith(h, DiskNodes(s))
         /\ \A q \in DOMAIN t : u[q] = t[q]
<1> DEFINE n == Len(s)
<1>1. h \in Headers
  BY DEF HeadersInUse
<1>2. DiskChain(h) = s /\ n \in Nat \ {0} /\ DOMAIN s = 1 .. n
  BY <1>1, ChainRead, RSCAssumption
<1>3. s \in Seq(Blocks) /\ \A i, j \in 1 .. n : file.bpn[s[i]].off = file.bpn[s[j]].off => i = j
  BY <1>2 DEF FileChain
<1>4. \A i \in 1 .. n : s[i] \in Blocks /\ file.bpn[s[i]].off \in BlockOffs
  BY <1>2, <1>3, ElementOfSeq DEF FileChain
<1>5. PICK r : Reading(t, h, r) /\ Read_cacheNodes(t, h) = r[n]
  BY <1>2, NodesRead
<1> HIDE DEF n
<1> DEFINE Upto(k, c) ==
             /\ DOMAIN r[k] = DOMAIN t \cup {p} /\ (\A q \in DOMAIN t : r[k][q] = t[q])
             /\ r[k][p] = EntryWith(h, c)
             /\ c \in Seq(ChainNode) /\ Len(c) = k /\ \A i \in 1 .. k : c[i] = DiskNode(s[i])
           T == {k \in Nat : k + 1 <= n => \E c : Upto(k + 1, c)}
<1>6. /\ r[0] = t
      /\ \A k \in 1 .. n : r[k] = Read_cache_to_RSC_table(r[k - 1], h, s[k])
      /\ \A k \in 0 .. n : r[k] \in ReadTable
  BY <1>2, <1>5 DEF Reading, n
<1>7. \A i \in 1 .. n : DiskNode(s[i]) \in ChainNode
  BY <1>4 DEF DiskNode, ChainNode
<1>8. 0 \in T
  <2>1. 1 \in 1 .. n /\ 1 - 1 = 0
    BY <1>2
  <2>2. r[1] = Read_cache_to_RSC_table(t, h, s[1])
    BY <1>6, <2>1
  <2>3. /\ DOMAIN r[1] = DOMAIN t \cup {p} /\ r[1][p] = EntryWith(h, <<DiskNode(s[1])>>)
        /\ \A q \in DOMAIN t : r[1][q] = t[q]
    BY <2>2, FirstNodeRead
  <2> DEFINE c == <<DiskNode(s[1])>>
  <2>4. c \in Seq(ChainNode) /\ Len(c) = 1 /\ \A i \in 1 .. 1 : c[i] = DiskNode(s[i])
    BY <1>7, <2>1
  <2> HIDE DEF c
  <2>5. Upto(0 + 1, c)
    BY <2>3, <2>4 DEF c
  <2> HIDE DEF Upto
  <2> QED
    BY <2>5
<1>9. ASSUME NEW k \in Nat, k \in T
      PROVE  k + 1 \in T
  <2> SUFFICES ASSUME (k + 1) + 1 <= n
               PROVE  \E c : Upto((k + 1) + 1, c)
    OBVIOUS
  <2> DEFINE m == k + 1
  <2>1. PICK c : Upto(m, c)
    BY <1>2, <1>9
  <2>2. m \in 1 .. n /\ m + 1 \in 1 .. n /\ (m + 1) - 1 = m /\ m \in 0 .. n /\ m \in Nat
    BY <1>2
  <2> HIDE DEF m
  <2> DEFINE b == s[m + 1]
             d == Append(c, DiskNode(b))
  <2>3. r[m + 1] = Read_cache_to_RSC_table(r[m], h, b) /\ r[m] \in ReadTable
    BY <1>6, <2>2
  <2>4. DOMAIN c = 1 .. m
    BY <2>1, LenProperties
  <2>5. \A i \in DOMAIN c : c[i].off # file.bpn[b].off
    <3> SUFFICES ASSUME NEW i \in 1 .. m
                 PROVE  c[i].off # file.bpn[b].off
      BY <2>4
    <3>1. c[i].off = file.bpn[s[i]].off
      BY <2>1 DEF DiskNode
    <3>2. i \in 1 .. n /\ i # m + 1
      <4>1. n \in Nat
        BY <1>2
      <4> QED
        BY <2>2, <4>1
    <3> QED
      BY <1>3, <2>2, <3>1, <3>2
  <2> HIDE DEF b
  <2>6. /\ DOMAIN r[m + 1] = DOMAIN r[m] /\ r[m + 1][p] = EntryWith(h, d)
        /\ \A q \in DOMAIN r[m] : q # p => r[m + 1][q] = r[m][q]
    <3>1. p \in DOMAIN r[m] /\ r[m][p] = EntryWith(h, c)
      BY <2>1
    <3> HIDE DEF Upto
    <3>2. LET u == Read_cache_to_RSC_table(r[m], h, b) IN
          /\ DOMAIN u = DOMAIN r[m] /\ u[p] = EntryWith(h, Append(c, DiskNode(b)))
          /\ \A q \in DOMAIN r[m] : q # p => u[q] = r[m][q]
      BY ONLY p = file.hdr[h].path, <2>3, <2>5, <3>1, NextNodeRead
    <3> QED
      BY <2>3, <3>2
  <2>7. d \in Seq(ChainNode) /\ Len(d) = m + 1 /\ \A i \in 1 .. (m + 1) : d[i] = DiskNode(s[i])
    <3>1. DiskNode(b) \in ChainNode
      BY <1>7, <2>2 DEF b
    <3>2. d \in Seq(ChainNode) /\ Len(d) = m + 1 /\ d[m + 1] = DiskNode(b) /\ \A i \in 1 .. m : d[i] = c[i]
      BY <2>1, <3>1, AppendProperties
    <3>3. \A i \in 1 .. (m + 1) : i \in 1 .. m \/ i = m + 1
      BY <2>2
    <3> QED
      BY <2>1, <3>2, <3>3 DEF b
  <2> HIDE DEF d
  <2>8. \A q \in DOMAIN t : q # p /\ q \in DOMAIN r[m]
    BY <2>1
  <2>9. Upto(m + 1, d)
    BY <2>1, <2>6, <2>7, <2>8
  <2> HIDE DEF Upto
  <2> QED
    BY <2>9 DEF m
<1> HIDE DEF T
<1>10. Nat \subseteq T
  BY <1>8, <1>9, NatSetInduction
<1>11. PICK c : Upto(n, c)
  <2>1. n - 1 \in T /\ (n - 1) + 1 = n
    BY <1>2, <1>10
  <2> HIDE DEF Upto
  <2> QED
    BY <1>2, <2>1 DEF T
<1>12. c = DiskNodes(s)
  <2>1. DiskNodes(s) \in Seq(ChainNode) /\ Len(DiskNodes(s)) = n
    <3>1. DiskNodes(s) \in [1 .. n -> ChainNode]
      BY <1>7 DEF DiskNodes, n
    <3> QED
      BY <1>2, <3>1, SeqDef, LenProperties DEF DiskNodes, n
  <2>2. \A i \in 1 .. n : c[i] = DiskNodes(s)[i]
    BY <1>11 DEF DiskNodes, n
  <2> QED
    BY <1>2, <1>11, <2>1, <2>2, SeqEqual
<1> QED
  BY <1>5, <1>11, <1>12

LEMMA TableFound ==
  ASSUME file \in FileType, NEW F, NEW G, NEW C, NEW X, FileLists(file, F, G, C, X)
  PROVE  LET t == ReadWholeDiskToRSCTable.tab IN
         /\ DOMAIN t = {file.hdr[h].path : h \in UsedHeaders(file)}
         /\ \A h \in UsedHeaders(file) : t[file.hdr[h].path] = EntryWith(h, DiskNodes(C[h]))
<1> DEFINE r == ReadHeaders
           Used == UsedHeaders(file)
           Path(h) == file.hdr[h].path
           Entry(h) == EntryWith(h, DiskNodes(C[h]))
           Found(k, t) == /\ DOMAIN t = {Path(h) : h \in {g \in Used : g < k}}
                          /\ \A h \in Used : h < k => t[Path(h)] = Entry(h)
           T == {k \in Nat : k <= NumHeaders => Found(k, r[k].tab)}
<1>1. Readable
  BY ListsReadable
<1>2. /\ r[0] = [tab |-> <<>>, stale |-> <<>>]
      /\ \A k \in 1 .. NumHeaders : r[k] = ReadHeader(r[k - 1], k - 1)
      /\ \A k \in 0 .. NumHeaders : r[k] \in ReadState
  BY <1>1, HeadersRead DEF ReadingHeaders
<1> HIDE DEF r
<1>3. /\ NumHeaders \in Nat \ {0} /\ \A h : h \in Headers <=> h \in Nat /\ h < NumHeaders
  BY RSCAssumption DEF Headers
<1>4. /\ Used = HeadersInUse /\ Used \subseteq Headers
      /\ \A h \in Used : FileChain(file, h, C[h], X)
      /\ \A h, g \in Used : Path(h) = Path(g) => h = g
  BY DEF FileLists, UsedHeaders, HeadersInUse
<1> HIDE DEF Used
<1>5. 0 \in T
  <2>1. DOMAIN r[0].tab = {}
    BY <1>2
  <2>2. \A h \in Used : ~(h < 0)
    BY <1>3, <1>4
  <2> QED
    BY <2>1, <2>2
<1>6. ASSUME NEW k \in Nat, k \in T
      PROVE  k + 1 \in T
  <2> SUFFICES ASSUME k + 1 <= NumHeaders
               PROVE  Found(k + 1, r[k + 1].tab)
    OBVIOUS
  <2>1. k + 1 \in 1 .. NumHeaders /\ (k + 1) - 1 = k /\ k \in 0 .. NumHeaders /\ k <= NumHeaders /\ k \in Headers
    BY <1>3
  <2>2. r[k + 1] = ReadHeader(r[k], k) /\ r[k] \in ReadState /\ Found(k, r[k].tab)
    BY <1>2, <1>6, <2>1
  <2> DEFINE t == r[k].tab
             u == r[k + 1].tab
  <2>3. \A h \in Used : h < k + 1 <=> h < k \/ h = k
    BY <1>3, <1>4
  <2>4. CASE k \notin Used
    <3>1. u = t
      BY <1>4, <2>2, <2>4 DEF ReadHeader
    <3>2. \A h \in Used : h < k + 1 <=> h < k
      BY <2>3, <2>4
    <3> HIDE DEF u, t, Path, Entry
    <3>3. Found(k, t)
      BY <2>2 DEF t
    <3>4. Found(k + 1, u)
      BY <3>1, <3>2, <3>3
    <3> QED
      BY <3>4 DEF u
  <2>5. CASE k \in Used
    <3>1. t \in ReadTable /\ u = Read_cacheNodes(t, k)
      BY <1>4, <2>2, <2>5 DEF ReadHeader, ReadState
    <3>2. Found(k, t) /\ k \in HeadersInUse /\ FileChain(file, k, C[k], X)
      BY <1>4, <2>2, <2>5
    <3>3. Path(k) \notin DOMAIN t
      <4> SUFFICES ASSUME NEW h \in Used, h < k, Path(h) = Path(k)
                   PROVE  FALSE
        BY <3>2
      <4>1. h = k
        BY <1>4, <2>5
      <4> QED
        BY <4>1
    <3> HIDE DEF u, t
    <3>4. /\ DOMAIN u = DOMAIN t \cup {Path(k)} /\ u[Path(k)] = Entry(k)
          /\ \A q \in DOMAIN t : u[q] = t[q]
      <4>1. t \in ReadTable /\ k \in HeadersInUse /\ FileChain(file, k, C[k], X) /\ file.hdr[k].path \notin DOMAIN t
        BY <3>1, <3>2, <3>3
      <4>2. LET v == Read_cacheNodes(t, k) IN
            /\ DOMAIN v = DOMAIN t \cup {file.hdr[k].path} /\ v[file.hdr[k].path] = EntryWith(k, DiskNodes(C[k]))
            /\ \A q \in DOMAIN t : v[q] = t[q]
        BY ONLY file \in FileType, <1>1, <4>1, FileRead
      <4> QED
        BY <3>1, <4>2
    <3> HIDE DEF Path, Entry
    <3>5. DOMAIN u = {Path(h) : h \in {g \in Used : g < k + 1}}
      BY <2>3, <2>5, <3>2, <3>4
    <3>6. ASSUME NEW h \in Used, h < k + 1
          PROVE  u[Path(h)] = Entry(h)
      <4>1. CASE h = k
        BY <3>4, <4>1
      <4>2. CASE h # k
        <5>1. h < k
          BY <2>3, <3>6, <4>2
        <5>2. Path(h) \in DOMAIN t /\ t[Path(h)] = Entry(h)
          BY <3>2, <5>1
        <5> QED
          BY <3>4, <5>2
      <4> QED
        BY <4>1, <4>2
    <3>7. Found(k + 1, u)
      BY <3>5, <3>6
    <3> QED
      BY <3>7 DEF u
  <2> QED
    BY <2>4, <2>5
<1> HIDE DEF T
<1>7. Nat \subseteq T
  BY <1>5, <1>6, NatSetInduction
<1>8. Found(NumHeaders, r[NumHeaders].tab)
  BY <1>3, <1>7 DEF T
<1>9. ReadWholeDiskToRSCTable.tab = r[NumHeaders].tab
  BY DEF ReadWholeDiskToRSCTable, r
<1>10. \A h \in Used : h < NumHeaders
  BY <1>3, <1>4
<1> HIDE DEF Path, Entry
<1>11. /\ DOMAIN r[NumHeaders].tab = {Path(h) : h \in Used}
       /\ \A h \in Used : r[NumHeaders].tab[Path(h)] = Entry(h)
  BY <1>8, <1>10
<1> QED
  BY <1>9, <1>11 DEF Path, Entry, Used

-----------------------------------------------------------------------------
(* What holds of a program that runs, and of one that was started.         *)

OwnData == \A p \in DOMAIN tab : \A b \in ChainLocs(p) : file.bytes[b] = p

\* The blocks L and the headers M are lost.
UpInv(L, M, X) == DiskInv(L, M) /\ HeadsMatch(X) /\ OffsInv /\ UnusedHeaders /\ OwnData

\* The state after a start that has found these lists
Started(F, G, C, X) ==
  /\ file \in FileType /\ SameSections(file, Sections) /\ FileLists(file, F, G, C, X)
  /\ req = NoReq /\ walk = INVLOC /\ cut = NoCut
  /\ DOMAIN tab = {file.hdr[h].path : h \in UsedHeaders(file)}
  /\ \A h \in UsedHeaders(file) : tab[file.hdr[h].path] = EntryWith(h, DiskNodes(C[h]))

LEMMA DiskNodesParts ==
  ASSUME NEW s \in Seq(Blocks)
  PROVE  LET c == DiskNodes(s) IN
         /\ DOMAIN c = DOMAIN s /\ Len(c) = Len(s) /\ (c = <<>> <=> s = <<>>)
         /\ \A i \in DOMAIN s : c[i].loc = s[i] /\ c[i].off = file.bpn[s[i]].off
         /\ s # <<>> => Last(c).loc = s[Len(s)]
<1> DEFINE c == DiskNodes(s)
<1>1. Len(s) \in Nat /\ DOMAIN s = 1 .. Len(s)
  BY LenProperties
<1>2. DOMAIN c = 1 .. Len(s) /\ \A i \in 1 .. Len(s) : c[i] = DiskNode(s[i])
  BY DEF DiskNodes
<1>3. c \in Seq({DiskNode(s[i]) : i \in 1 .. Len(s)})
  <2>1. c \in [1 .. Len(s) -> {DiskNode(s[i]) : i \in 1 .. Len(s)}]
    BY DEF DiskNodes
  <2> QED
    BY <1>1, <2>1, SeqDef
<1> HIDE DEF c
<1>4. Len(c) = Len(s)
  BY <1>1, <1>2, <1>3, LenProperties
<1>5. c = <<>> <=> s = <<>>
  BY <1>1, <1>3, <1>4, EmptySeq
<1>6. \A i \in 1 .. Len(s) : c[i].loc = s[i] /\ c[i].off = file.bpn[s[i]].off
  BY <1>2 DEF DiskNode
<1>7. s # <<>> => Last(c).loc = s[Len(s)]
  <2>1. s # <<>> => Len(s) \in 1 .. Len(s)
    BY <1>1, EmptySeq
  <2> QED
    BY <1>4, <1>6, <2>1 DEF Last
<1> QED
  BY <1>1, <1>2, <1>4, <1>5, <1>6, <1>7 DEF c

StartedWell == \A F, G, C, X : Started(F, G, C, X) => \E L, M : UpInv(L, M, X)

LEMMA StartedInv == StartedWell
<1> SUFFICES ASSUME NEW F, NEW G, NEW C, NEW X, Started(F, G, C, X)
             PROVE  \E L, M : UpInv(L, M, X)
  BY DEF StartedWell
<1> DEFINE Used == UsedHeaders(file)
           Path(h) == file.hdr[h].path
<1>1. PICK L : L = {b \in Blocks : b \notin F /\ \A h \in Used : \A i \in DOMAIN C[h] : b # C[h][i]}
  OBVIOUS
<1>2. PICK M : M = {h \in Headers : h \notin G /\ h \notin Used}
  OBVIOUS
<1>3. /\ file \in FileType /\ FileLists(file, F, G, C, X)
      /\ mb = file.mb /\ hdr = file.hdr /\ bpn = file.bpn
      /\ req = NoReq /\ walk = INVLOC /\ cut = NoCut
  BY DEF Started, SameSections, Sections
<1>4. /\ NoReq.path = NoPath /\ NoReq.hdr = INVLOC /\ NoReq.blk = INVLOC /\ NoCut.path = NoPath
      /\ NoPath \notin Paths
  BY RSCAssumption DEF NoReq, NoCut
<1>5. PICK H : \A p \in DOMAIN tab : H[p] \in Used /\ Path(H[p]) = p
  <2>1. \A p \in DOMAIN tab : \E h \in Used : Path(h) = p
    BY DEF Started
  <2> DEFINE K == [p \in DOMAIN tab |-> CHOOSE h \in Used : Path(h) = p]
  <2> HIDE DEF Used, Path
  <2>2. \A p \in DOMAIN tab : K[p] \in Used /\ Path(K[p]) = p
    BY <2>1
  <2> QED
    BY <2>2
<1>6. \A h \in Used : /\ h \in Headers /\ h # INVLOC /\ FileChain(file, h, C[h], X)
                      /\ Path(h) \in DOMAIN tab /\ Path(h) \in Paths
                      /\ tab[Path(h)] = EntryWith(h, DiskNodes(C[h]))
                      /\ \A g \in Used : Path(g) = Path(h) => g = h
  BY <1>3, LocsAreNat DEF Started, FileLists, UsedHeaders, FileChain
<1>7. \A h \in Used : LET s == C[h] IN
        /\ s \in Seq(Blocks) /\ s # <<>> /\ Len(s) \in Nat /\ DOMAIN s = 1 .. Len(s)
        /\ \A i \in DOMAIN s : s[i] \in Blocks /\ s[i] # INVLOC
        /\ \A i, j \in DOMAIN s : s[i] = s[j] => i = j
        /\ file.hdr[h].next = INVLOC /\ file.hdr[h].nodeHeader = s[1]
        /\ X = {} => file.hdr[h].nodeTail = s[Len(s)]
        /\ \A i \in DOMAIN s :
             /\ bpn[s[i]].next = IF i = Len(s) THEN INVLOC ELSE s[i + 1]
             /\ bpn[s[i]].fhloc = h /\ file.bytes[s[i]] = Path(h)
        /\ \A i, j \in DOMAIN s : bpn[s[i]].off = bpn[s[j]].off => i = j
        /\ AnyOrder \/ \A i, j \in DOMAIN s : i < j => bpn[s[i]].off < bpn[s[j]].off
  <2> SUFFICES ASSUME NEW h \in Used
               PROVE  LET s == C[h] IN
        /\ s \in Seq(Blocks) /\ s # <<>> /\ Len(s) \in Nat /\ DOMAIN s = 1 .. Len(s)
        /\ \A i \in DOMAIN s : s[i] \in Blocks /\ s[i] # INVLOC
        /\ \A i, j \in DOMAIN s : s[i] = s[j] => i = j
        /\ file.hdr[h].next = INVLOC /\ file.hdr[h].nodeHeader = s[1]
        /\ X = {} => file.hdr[h].nodeTail = s[Len(s)]
        /\ \A i \in DOMAIN s :
             /\ bpn[s[i]].next = IF i = Len(s) THEN INVLOC ELSE s[i + 1]
             /\ bpn[s[i]].fhloc = h /\ file.bytes[s[i]] = Path(h)
        /\ \A i, j \in DOMAIN s : bpn[s[i]].off = bpn[s[j]].off => i = j
        /\ AnyOrder \/ \A i, j \in DOMAIN s : i < j => bpn[s[i]].off < bpn[s[j]].off
    OBVIOUS
  <2>1. FileChain(file, h, C[h], X)
    BY <1>6
  <2>2. C[h] \in Seq(Blocks)
    BY <2>1 DEF FileChain
  <2>3. Len(C[h]) \in Nat /\ DOMAIN C[h] = 1 .. Len(C[h]) /\ \A i \in DOMAIN C[h] : C[h][i] \in Blocks /\ C[h][i] # INVLOC
    BY <2>2, LenProperties, ElementOfSeq, LocsAreNat
  <2> HIDE DEF Used
  <2> QED
    BY <1>3, <2>1, <2>2, <2>3 DEF FileChain
<1>8. \A p \in DOMAIN tab : LET f == tab[p] s == C[H[p]] IN
        /\ H[p] \in Used /\ p \in Paths /\ Path(H[p]) = p
        /\ f = EntryWith(H[p], DiskNodes(s)) /\ f.loc = H[p]
        /\ DOMAIN f.chain = DOMAIN s /\ Len(f.chain) = Len(s) /\ f.chain # <<>>
        /\ \A i \in DOMAIN s : f.chain[i].loc = s[i] /\ f.chain[i].off = bpn[s[i]].off
        /\ Last(f.chain).loc = s[Len(s)]
        /\ ChainLocs(p) = {s[i] : i \in DOMAIN s}
  <2> SUFFICES ASSUME NEW p \in DOMAIN tab
               PROVE LET f == tab[p] s == C[H[p]] IN
        /\ H[p] \in Used /\ p \in Paths /\ Path(H[p]) = p
        /\ f = EntryWith(H[p], DiskNodes(s)) /\ f.loc = H[p]
        /\ DOMAIN f.chain = DOMAIN s /\ Len(f.chain) = Len(s) /\ f.chain # <<>>
        /\ \A i \in DOMAIN s : f.chain[i].loc = s[i] /\ f.chain[i].off = bpn[s[i]].off
        /\ Last(f.chain).loc = s[Len(s)]
        /\ ChainLocs(p) = {s[i] : i \in DOMAIN s}
    OBVIOUS
  <2> DEFINE f == tab[p]
             s == C[H[p]]
  <2>1. H[p] \in Used /\ p \in Paths /\ Path(H[p]) = p /\ f = EntryWith(H[p], DiskNodes(s))
    <3>1. H[p] \in Used /\ Path(H[p]) = p
      BY <1>5
    <3> HIDE DEF Used, Path
    <3> QED
      BY <1>6, <3>1
  <2>2. f.loc = H[p] /\ f.chain = DiskNodes(s)
    BY <2>1 DEF EntryWith
  <2>3. s \in Seq(Blocks) /\ s # <<>>
    BY <1>7, <2>1
  <2> HIDE DEF f, s, Used, Path
  <2>4. /\ DOMAIN f.chain = DOMAIN s /\ Len(f.chain) = Len(s) /\ f.chain # <<>>
        /\ \A i \in DOMAIN s : f.chain[i].loc = s[i] /\ f.chain[i].off = bpn[s[i]].off
        /\ Last(f.chain).loc = s[Len(s)]
    BY <1>3, <2>2, <2>3, DiskNodesParts
  <2>5. ChainLocs(p) = {s[i] : i \in DOMAIN s}
    BY <2>4 DEF ChainLocs, f
  <2> QED
    BY <2>1, <2>2, <2>4, <2>5 DEF f, s
<1> HIDE DEF Used
<1>20. \A h \in Used : Path(h) \in DOMAIN tab /\ tab[Path(h)].loc = h
  <2> SUFFICES ASSUME NEW h \in Used
               PROVE  Path(h) \in DOMAIN tab /\ tab[Path(h)].loc = h
    OBVIOUS
  <2>1. Path(h) \in DOMAIN tab /\ tab[Path(h)] = EntryWith(h, DiskNodes(C[h]))
    BY <1>6
  <2>2. EntryWith(h, DiskNodes(C[h])).loc = h
    BY DEF EntryWith
  <2> QED
    BY <2>1, <2>2
<1>9. CutInv
  BY <1>3 DEF CutInv
<1>10. /\ F \subseteq Blocks /\ Queue(F, mb.bfl, mb.bft, NextBlocks(file)) /\ \A b \in F : bpn[b].fhloc = INVLOC
       /\ G \subseteq Headers /\ Queue(G, mb.hfl, mb.hft, NextHeaders(file))
       /\ \A h \in G : file.hdr[h].nodeHeader = INVLOC
  BY <1>3 DEF FileLists
<1>11. \A h \in Headers : h \in Used <=> file.hdr[h].nodeHeader # INVLOC
  BY DEF Used, UsedHeaders
<1>12. HeaderInv(M)
  <2>1. \A p, q \in DOMAIN tab : tab[p].loc = tab[q].loc => p = q
    <3> SUFFICES ASSUME NEW p \in DOMAIN tab, NEW q \in DOMAIN tab, tab[p].loc = tab[q].loc
                 PROVE  p = q
      OBVIOUS
    <3>1. H[p] = H[q] /\ Path(H[p]) = p /\ Path(H[q]) = q
      BY <1>8
    <3> QED
      BY <3>1
  <2>2. \A p \in DOMAIN tab : tab[p].loc # req.hdr /\ tab[p].loc \notin M
    BY <1>2, <1>3, <1>4, <1>6, <1>8
  <2>3. Spare(M) = G
    <3>1. ASSUME NEW h \in Headers, h \in Spare(M)
          PROVE  h \in G
      <4>1. h \notin Used
        <5> SUFFICES ASSUME h \in Used
                     PROVE  FALSE
          OBVIOUS
        <5>1. Path(h) \in DOMAIN tab /\ tab[Path(h)].loc = h
          BY <1>20
        <5> QED
          BY <3>1, <5>1 DEF Spare
      <4> QED
        BY <1>2, <3>1, <4>1 DEF Spare
    <3>2. ASSUME NEW h \in G
          PROVE  h \in Spare(M)
      <4>1. h \in Headers /\ h # req.hdr /\ h \notin M /\ h \notin Used
        BY <1>2, <1>3, <1>4, <1>10, <1>11, LocsAreNat
      <4>2. \A p \in DOMAIN tab : tab[p].loc # h
        BY <1>8, <4>1
      <4> QED
        BY <4>1, <4>2 DEF Spare
    <3> QED
      BY <1>10, <3>1, <3>2 DEF Spare
  <2>4. HeaderNext = NextHeaders(file)
    BY <1>3 DEF HeaderNext, NextHeaders
  <2> QED
    BY <1>3, <1>4, <1>10, <2>1, <2>2, <2>3, <2>4 DEF HeaderInv
<1>13. FreeInv(L)
  <2>1. Unowned(L) = F
    <3>1. ASSUME NEW b \in Unowned(L)
          PROVE  b \in F
      <4>1. b \in Blocks /\ bpn[b].fhloc = INVLOC /\ b \notin L
        BY DEF Unowned
      <4>2. \A h \in Used : \A i \in DOMAIN C[h] : b # C[h][i]
        BY <1>6, <1>7, <4>1
      <4> QED
        BY <1>1, <4>1, <4>2
    <3>2. ASSUME NEW b \in F
          PROVE  b \in Unowned(L)
      BY <1>1, <1>3, <1>4, <1>10, LocsAreNat DEF Unowned
    <3> QED
      BY <3>1, <3>2
  <2>2. BlockNext = NextBlocks(file)
    BY <1>3 DEF BlockNext, NextBlocks
  <2> QED
    BY <1>3, <1>4, <1>10, <2>1, <2>2 DEF FreeInv
<1>14. DeadInv(L)
  <2>1. Dead(L) = {}
    <3> SUFFICES ASSUME NEW b \in Dead(L)
                 PROVE  FALSE
      OBVIOUS
    <3>1. b \in Blocks /\ b \notin L /\ b \notin F /\ \A p \in DOMAIN tab : b \notin ChainLocs(p)
      BY <1>10 DEF Dead
    <3>2. PICK h \in Used : \E i \in DOMAIN C[h] : b = C[h][i]
      BY <1>1, <3>1
    <3> DEFINE p == Path(h)
    <3>3. p \in DOMAIN tab /\ H[p] = h
      <4>1. p \in DOMAIN tab
        BY <1>6
      <4>2. H[p] \in Used /\ Path(H[p]) = p
        BY <1>5, <4>1
      <4> QED
        BY <1>6, <4>1, <4>2
    <3> HIDE DEF p
    <3>4. ChainLocs(p) = {C[h][i] : i \in DOMAIN C[h]}
      <4>1. ChainLocs(p) = {C[H[p]][i] : i \in DOMAIN C[H[p]]}
        BY <1>8, <3>3
      <4> QED
        BY <3>3, <4>1
    <3> QED
      BY <3>1, <3>2, <3>3, <3>4
  <2> QED
    BY <1>3, <2>1, ChainedEmpty DEF DeadInv
<1>15. ChainInv(L)
  <2> SUFFICES ASSUME NEW p \in DOMAIN tab
               PROVE  FileInv(L, p)
    BY DEF ChainInv
  <2> DEFINE s == C[H[p]]
             c == tab[p].chain
  <2>1. /\ H[p] \in Used /\ p \in Paths /\ Path(H[p]) = p /\ tab[p].loc = H[p]
        /\ DOMAIN c = DOMAIN s /\ Len(c) = Len(s)
        /\ \A i \in DOMAIN s : c[i].loc = s[i] /\ c[i].off = bpn[s[i]].off
    BY <1>8
  <2>2. /\ Len(s) \in Nat /\ DOMAIN s = 1 .. Len(s)
        /\ \A i \in DOMAIN s : s[i] \in Blocks
        /\ \A i, j \in DOMAIN s : s[i] = s[j] => i = j
        /\ \A i \in DOMAIN s :
             /\ bpn[s[i]].next = IF i = Len(s) THEN INVLOC ELSE s[i + 1]
             /\ bpn[s[i]].fhloc = H[p]
        /\ AnyOrder \/ \A i, j \in DOMAIN s : i < j => bpn[s[i]].off < bpn[s[j]].off
    BY <1>7, <2>1
  <2>3. \A i \in DOMAIN s : s[i] \notin L
    BY <1>1, <2>1
  <2> HIDE DEF s, c
  <2>4. NodesInv(L, p)
    BY <2>1, <2>2, <2>3 DEF NodesInv, c
  <2>5. LinksInv(p)
    <3>1. ASSUME NEW i \in DOMAIN c
          PROVE  /\ i = Len(c) => bpn[c[i].loc].next = INVLOC
                 /\ i # Len(c) => bpn[c[i].loc].next = c[i + 1].loc
      <4>1. i # Len(s) => i + 1 \in DOMAIN s
        BY <2>1, <2>2
      <4> QED
        BY <2>1, <2>2, <4>1
    <3> QED
      BY <3>1 DEF LinksInv, c
  <2>6. hdr[tab[p].loc] = HeaderOf(p, tab[p])
    <3> DEFINE x == file.hdr[H[p]]
    <3>1. x \in HeaderType /\ x.path = p /\ x.next = INVLOC
      BY <1>3, <1>6, <1>7, <2>1 DEF FileType, DiskHeader
    <3>2. x = [path |-> x.path, next |-> x.next, nodeHeader |-> x.nodeHeader,
               nodeTail |-> x.nodeTail, fileoff |-> x.fileoff]
      BY <3>1 DEF HeaderType
    <3>3. tab[p] = EntryWith(H[p], DiskNodes(s))
      BY <1>8 DEF s
    <3>4. tab[p].nodeHeader = x.nodeHeader /\ tab[p].nodeTail = x.nodeTail /\ tab[p].fileoff = x.fileoff
      BY <3>3 DEF EntryWith
    <3>5. hdr[tab[p].loc] = x
      BY <1>3, <2>1
    <3> HIDE DEF x
    <3> QED
      BY <3>1, <3>2, <3>4, <3>5 DEF HeaderOf
  <2> QED
    BY <2>4, <2>5, <2>6 DEF FileInv
<1>16. HeadsMatch(X)
  <2> SUFFICES ASSUME NEW p \in DOMAIN tab
               PROVE  HeadTail(tab[p], X)
    BY DEF HeadsMatch
  <2> DEFINE s == C[H[p]]
  <2>1. /\ H[p] \in Used /\ tab[p] = EntryWith(H[p], DiskNodes(s)) /\ tab[p].chain # <<>>
        /\ Last(tab[p].chain).loc = s[Len(s)] /\ \A i \in DOMAIN s : tab[p].chain[i].loc = s[i]
    BY <1>8
  <2>2. /\ s # <<>> /\ s \in Seq(Blocks) /\ Len(s) \in Nat /\ DOMAIN s = 1 .. Len(s)
        /\ file.hdr[H[p]].nodeHeader = s[1]
        /\ X = {} => file.hdr[H[p]].nodeTail = s[Len(s)]
    BY <1>7, <2>1
  <2>3. tab[p].nodeHeader = file.hdr[H[p]].nodeHeader /\ tab[p].nodeTail = file.hdr[H[p]].nodeTail
    BY <2>1 DEF EntryWith
  <2> HIDE DEF s
  <2>4. 1 \in DOMAIN s
    BY <2>2, EmptySeq
  <2>5. tab[p].chain[1].loc = s[1]
    BY <2>1, <2>4
  <2>6. tab[p].nodeHeader = tab[p].chain[1].loc /\ tab[p].chain # <<>>
    BY <2>1, <2>2, <2>3, <2>5
  <2>7. ASSUME X = {}
        PROVE  tab[p].nodeTail = Last(tab[p].chain).loc
    BY <2>1, <2>2, <2>3, <2>7
  <2> QED
    BY <2>6, <2>7 DEF HeadTail
<1>17. OffsInv
  <2>1. ASSUME NEW p \in DOMAIN tab
        PROVE  \A i, j \in DOMAIN tab[p].chain : tab[p].chain[i].off = tab[p].chain[j].off => i = j
    <3> DEFINE s == C[H[p]]
    <3>1. /\ H[p] \in Used /\ DOMAIN tab[p].chain = DOMAIN s
          /\ \A i \in DOMAIN s : tab[p].chain[i].off = bpn[s[i]].off
      BY <1>8
    <3>2. \A i, j \in DOMAIN s : bpn[s[i]].off = bpn[s[j]].off => i = j
      BY <1>7, <3>1
    <3> HIDE DEF s
    <3> QED
      BY <3>1, <3>2
  <2>2. req.path \notin DOMAIN tab
    BY <1>3, <1>4, <1>8
  <2> QED
    BY <2>1, <2>2 DEF OffsInv
<1>18. UnusedHeaders
  <2> SUFFICES ASSUME NEW h \in Headers, \A p \in DOMAIN tab : tab[p].loc # h
               PROVE  hdr[h].nodeHeader = INVLOC
    BY DEF UnusedHeaders
  <2>1. h \notin Used
    <3> SUFFICES ASSUME h \in Used
                 PROVE  FALSE
      OBVIOUS
    <3>1. Path(h) \in DOMAIN tab /\ tab[Path(h)].loc = h
      BY <1>20
    <3> QED
      BY <3>1
  <2> QED
    BY <1>3, <1>11, <2>1
<1>19. OwnData
  BY <1>7, <1>8 DEF OwnData
<1> QED
  BY <1>9, <1>12, <1>13, <1>14, <1>15, <1>16, <1>17, <1>18, <1>19 DEF UpInv, DiskInv

\* A start reads such a file, and has the lists in memory then.
LEMMA StartInv ==
  ASSUME NEW F, NEW G, NEW C, NEW X, file \in FileType, SameSections(file, Sections),
         FileLists(file, F, G, C, X), Bare, Init_RSC_table_m
  PROVE  run' = "up" /\ \E L, M : UpInv(L, M, X)'
<1> DEFINE t == ReadWholeDiskToRSCTable.tab
<1>1. Readable
  BY ListsReadable
<1>2. run' = "up" /\ tab' = t /\ UNCHANGED <<mb, hdr, bpn, pc, req, walk, cut, file>>
  BY <1>1 DEF Init_RSC_table_m, disk
<1>3. /\ DOMAIN t = {file.hdr[h].path : h \in UsedHeaders(file)}
      /\ \A h \in UsedHeaders(file) : t[file.hdr[h].path] = EntryWith(h, DiskNodes(C[h]))
  BY TableFound
<1> HIDE DEF t
<1>4. (file \in FileType)' /\ SameSections(file, Sections)'
  BY <1>2 DEF SameSections, Sections
<1>5. FileLists(file, F, G, C, X)'
  BY <1>2
<1>6. UsedHeaders(file)' = UsedHeaders(file)
  BY <1>2
<1>7. \A h, c : EntryWith(h, c)' = EntryWith(h, c)
  BY <1>2 DEF EntryWith
<1>8. \A s : DiskNodes(s)' = DiskNodes(s)
  BY <1>2 DEF DiskNodes, DiskNode
<1>9. (DOMAIN tab = {file.hdr[h].path : h \in UsedHeaders(file)})'
  BY <1>2, <1>3, <1>6
<1>10. (\A h \in UsedHeaders(file) : tab[file.hdr[h].path] = EntryWith(h, DiskNodes(C[h])))'
  BY <1>2, <1>3, <1>6, <1>7, <1>8
<1>11. (req = NoReq /\ walk = INVLOC /\ cut = NoCut)'
  BY <1>2 DEF Bare
<1>12. Started(F, G, C, X)'
  BY <1>4, <1>5, <1>9, <1>10, <1>11 DEF Started
<1>13. StartedWell'
  BY StartedInv, PTL
<1>14. (\E L, M : UpInv(L, M, X))'
  BY <1>12, <1>13 DEF StartedWell
<1> QED
  BY <1>2, <1>14

-----------------------------------------------------------------------------
(* The lists in the cache file while the program runs.                     *)

Locs(p) == [i \in 1 .. Len(tab[p].chain) |-> tab[p].chain[i].loc]

MemLists == [h \in Headers |-> Locs(CHOOSE p \in DOMAIN tab : tab[p].loc = h)]

HasList(p, h) ==
  /\ p \in DOMAIN tab /\ tab[p].loc = h /\ tab[p].chain # <<>>
  /\ file.hdr[h].path = p /\ MemLists[h] = Locs(p)

LEMMA LocsParts ==
  ASSUME NEW p \in DOMAIN tab, tab[p] \in CachedFile
  PROVE  LET s == Locs(p) c == tab[p].chain IN
         /\ s \in Seq(Blocks) /\ Len(s) = Len(c) /\ Len(s) \in Nat /\ (s = <<>> <=> c = <<>>)
         /\ DOMAIN s = 1 .. Len(s) /\ DOMAIN c = 1 .. Len(s)
         /\ \A i \in 1 .. Len(s) : s[i] = c[i].loc /\ s[i] \in Blocks /\ s[i] \in ChainLocs(p)
         /\ \A b \in ChainLocs(p) : \E i \in 1 .. Len(s) : b = s[i]
<1> DEFINE s == Locs(p)
           c == tab[p].chain
           n == Len(c)
<1>1. /\ c \in Seq(ChainNode) /\ n \in Nat /\ DOMAIN c = 1 .. n
      /\ \A i \in 1 .. n : c[i].loc \in Blocks
      /\ c # <<>> <=> n # 0
  BY ChainType
<1> HIDE DEF n
<1>2. s \in [1 .. n -> Blocks] /\ \A i \in 1 .. n : s[i] = c[i].loc
  BY <1>1 DEF Locs, n
<1>3. s \in Seq(Blocks)
  BY <1>1, <1>2, SeqDef
<1>4. Len(s) = n
  BY <1>1, <1>2, <1>3, LenProperties
<1>5. s = <<>> <=> c = <<>>
  BY <1>1, <1>3, <1>4, EmptySeq
<1>6. ChainLocs(p) = {c[i].loc : i \in 1 .. n}
  BY <1>1 DEF ChainLocs
<1> QED
  BY <1>1, <1>2, <1>3, <1>4, <1>5, <1>6 DEF n

LEMMA RunningLists ==
  ASSUME NEW L, NEW M, NEW X, MemoryInv, file \in FileType, SameSections(file, Sections),
         UpInv(L, M, X), cut = NoCut
  PROVE  /\ FileLists(file, Unowned(L), Spare(M), MemLists, X)
         /\ \A h \in UsedHeaders(file) : \E p : HasList(p, h)
<1>1. /\ mb = file.mb /\ hdr = file.hdr /\ bpn = file.bpn
      /\ HeaderInv(M) /\ FreeInv(L) /\ ChainInv(L) /\ HeadsMatch(X) /\ OffsInv /\ UnusedHeaders /\ OwnData
  BY DEF SameSections, Sections, UpInv, DiskInv
<1>2. ASSUME NEW p \in DOMAIN tab
      PROVE  /\ p \in Paths /\ p # cut.path /\ tab[p] \in CachedFile /\ tab[p].loc \in Headers
             /\ NodesInv(L, p) /\ LinksInv(p) /\ HeadTail(tab[p], X)
             /\ hdr[tab[p].loc] = HeaderOf(p, tab[p])
  <2>1. p \in Paths /\ tab[p] \in CachedFile /\ cut.path = NoPath /\ NoPath \notin Paths
    BY TypeParts, RSCAssumption DEF MemoryInv, NoCut
  <2>2. FileInv(L, p) /\ HeadTail(tab[p], X)
    BY <1>1 DEF ChainInv, HeadsMatch
  <2>3. tab[p].loc \in Headers
    BY <2>1 DEF CachedFile
  <2> QED
    BY <2>1, <2>2, <2>3 DEF FileInv
<1>3. ASSUME NEW p \in DOMAIN tab, NEW q \in DOMAIN tab, tab[p].loc = tab[q].loc
      PROVE  p = q
  BY <1>1, <1>3 DEF HeaderInv
<1>4. ASSUME NEW h \in UsedHeaders(file)
      PROVE  \E p : HasList(p, h)
  <2>1. h \in Headers /\ hdr[h].nodeHeader # INVLOC
    BY <1>1 DEF UsedHeaders
  <2>2. PICK p \in DOMAIN tab : tab[p].loc = h
    BY <1>1, <2>1 DEF UnusedHeaders
  <2>3. hdr[h] = HeaderOf(p, tab[p]) /\ HeadTail(tab[p], X)
    BY <1>2, <2>2
  <2>4. hdr[h].path = p /\ hdr[h].nodeHeader = tab[p].nodeHeader
    BY <2>3 DEF HeaderOf
  <2>5. tab[p].chain # <<>>
    BY <2>1, <2>3, <2>4 DEF HeadTail
  <2>6. (CHOOSE q \in DOMAIN tab : tab[q].loc = h) = p
    BY <1>3, <2>2
  <2>7. MemLists[h] = Locs(p)
    BY <2>1, <2>6 DEF MemLists
  <2> QED
    BY <1>1, <2>2, <2>4, <2>5, <2>7 DEF HasList
<1>5. ASSUME NEW h \in UsedHeaders(file)
      PROVE  FileChain(file, h, MemLists[h], X)
  <2>1. PICK p : HasList(p, h)
    BY <1>4
  <2> DEFINE s == Locs(p)
             c == tab[p].chain
             n == Len(s)
  <2>2. p \in DOMAIN tab /\ tab[p].loc = h /\ c # <<>> /\ MemLists[h] = s
    BY <2>1 DEF HasList
  <2>3. /\ p \in Paths /\ p # cut.path /\ tab[p] \in CachedFile
        /\ NodesInv(L, p) /\ LinksInv(p) /\ HeadTail(tab[p], X) /\ hdr[h] = HeaderOf(p, tab[p])
    BY <1>2, <2>2
  <2>4. /\ s \in Seq(Blocks) /\ n = Len(c) /\ n \in Nat /\ s # <<>> /\ DOMAIN s = 1 .. n /\ DOMAIN c = 1 .. n
        /\ \A i \in 1 .. n : s[i] = c[i].loc /\ s[i] \in Blocks /\ s[i] \in ChainLocs(p)
    BY <2>2, <2>3, LocsParts
  <2>5. /\ \A i, j \in 1 .. n : c[i].loc = c[j].loc => i = j
        /\ \A i \in 1 .. n : bpn[c[i].loc].fhloc = h /\ bpn[c[i].loc].off = c[i].off
        /\ AnyOrder \/ \A i, j \in 1 .. n : i < j => c[i].off < c[j].off
    BY <2>2, <2>3, <2>4 DEF NodesInv
  <2>6. \A i \in 1 .. n : bpn[c[i].loc].next = IF i = n THEN INVLOC ELSE c[i + 1].loc
    BY <2>3, <2>4 DEF LinksInv, Kept
  <2>7. \A i \in 1 .. n : c[i].off \in BlockOffs
    BY <2>3, <2>4, ChainType DEF ChainNode
  <2>8. \A i, j \in 1 .. n : c[i].off = c[j].off => i = j
    BY <1>1, <2>2, <2>4 DEF OffsInv
  <2>9. \A i \in 1 .. n : file.bytes[s[i]] = p
    BY <1>1, <2>2, <2>4 DEF OwnData
  <2>10. /\ hdr[h].path = p /\ hdr[h].next = INVLOC
         /\ hdr[h].nodeHeader = tab[p].nodeHeader /\ hdr[h].nodeTail = tab[p].nodeTail
    BY <2>3 DEF HeaderOf
  <2>11. /\ tab[p].nodeHeader = c[1].loc
         /\ X = {} => tab[p].nodeTail = c[n].loc
    BY <2>2, <2>3, <2>4 DEF HeadTail, Last
  <2>12. 1 \in 1 .. n /\ n \in 1 .. n
    BY <2>4, EmptySeq
  <2> HIDE DEF s, c, n
  <2>13. \A i \in 1 .. n : i # n => i + 1 \in 1 .. n
    BY <2>4
  <2>14. FileChain(file, h, s, X)
    <3>1. \A i, j \in DOMAIN s : s[i] = s[j] => i = j
      BY <2>4, <2>5
    <3>2. /\ file.hdr[h].path = p /\ file.hdr[h].next = INVLOC /\ file.hdr[h].nodeHeader = s[1]
          /\ X = {} => file.hdr[h].nodeTail = s[n]
      BY <1>1, <2>4, <2>10, <2>11, <2>12
    <3>3. \A i \in DOMAIN s :
            /\ file.bpn[s[i]].next = IF i = n THEN INVLOC ELSE s[i + 1]
            /\ file.bpn[s[i]].fhloc = h /\ file.bpn[s[i]].off \in BlockOffs
            /\ file.bytes[s[i]] = p
      BY <1>1, <2>4, <2>5, <2>6, <2>7, <2>9, <2>13
    <3>4. \A i, j \in DOMAIN s : file.bpn[s[i]].off = file.bpn[s[j]].off => i = j
      BY <1>1, <2>4, <2>5, <2>8
    <3>5. AnyOrder \/ \A i, j \in DOMAIN s : i < j => file.bpn[s[i]].off < file.bpn[s[j]].off
      BY <1>1, <2>4, <2>5
    <3> QED
      BY <2>3, <2>4, <3>1, <3>2, <3>3, <3>4, <3>5 DEF FileChain, n
  <2> QED
    BY <2>2, <2>14
<1>6. ASSUME NEW h \in UsedHeaders(file), NEW g \in UsedHeaders(file), file.hdr[h].path = file.hdr[g].path
      PROVE  h = g
  BY <1>4, <1>6 DEF HasList
<1>7. Unowned(L) \subseteq Blocks /\ Spare(M) \subseteq Headers
  BY DEF Unowned, Spare
<1>8. /\ Queue(Unowned(L), file.mb.bfl, file.mb.bft, NextBlocks(file))
      /\ Queue(Spare(M), file.mb.hfl, file.mb.hft, NextHeaders(file))
  <2>1. BlockNext = NextBlocks(file) /\ HeaderNext = NextHeaders(file)
    BY <1>1 DEF BlockNext, HeaderNext, NextBlocks, NextHeaders
  <2> QED
    BY <1>1, <2>1 DEF FreeInv, HeaderInv
<1>9. \A b \in Unowned(L) : file.bpn[b].fhloc = INVLOC
  BY <1>1 DEF Unowned
<1>10. \A h \in Spare(M) : file.hdr[h].nodeHeader = INVLOC
  BY <1>1 DEF Spare, UnusedHeaders
<1> QED
  BY <1>4, <1>5, <1>6, <1>7, <1>8, <1>9, <1>10 DEF FileLists

-----------------------------------------------------------------------------
(* What the first writes of a step leave.                                  *)

LEMMA FileChainParts ==
  ASSUME NEW f, NEW h, NEW s, NEW X, FileChain(f, h, s, X)
  PROVE  /\ s \in Seq(Blocks) /\ s # <<>> /\ Len(s) \in Nat \ {0} /\ DOMAIN s = 1 .. Len(s)
         /\ \A i \in 1 .. Len(s) : s[i] \in Blocks
         /\ \A i, j \in 1 .. Len(s) : s[i] = s[j] => i = j
         /\ f.hdr[h].path \in Paths /\ f.hdr[h].next = INVLOC /\ f.hdr[h].nodeHeader = s[1]
         /\ X = {} => f.hdr[h].nodeTail = s[Len(s)]
         /\ \A i \in 1 .. Len(s) :
              /\ f.bpn[s[i]].next = IF i = Len(s) THEN INVLOC ELSE s[i + 1]
              /\ f.bpn[s[i]].fhloc = h /\ f.bpn[s[i]].off \in BlockOffs /\ f.bpn[s[i]].off \in Nat
              /\ f.bytes[s[i]] = f.hdr[h].path
         /\ \A i, j \in 1 .. Len(s) : f.bpn[s[i]].off = f.bpn[s[j]].off => i = j
         /\ AnyOrder \/ \A i, j \in 1 .. Len(s) : i < j => f.bpn[s[i]].off < f.bpn[s[j]].off
<1>1. s \in Seq(Blocks) /\ s # <<>>
  BY DEF FileChain
<1>2. Len(s) \in Nat \ {0} /\ DOMAIN s = 1 .. Len(s) /\ \A i \in 1 .. Len(s) : s[i] \in Blocks
  BY <1>1, ElementOfSeq, LenProperties, EmptySeq
<1>3. BlockOffs \subseteq Nat
  BY OffsAreNat
<1>4. /\ f.hdr[h].path \in Paths /\ f.hdr[h].next = INVLOC /\ f.hdr[h].nodeHeader = s[1]
      /\ X = {} => f.hdr[h].nodeTail = s[Len(s)]
      /\ \A i, j \in 1 .. Len(s) : s[i] = s[j] => i = j
  BY <1>2 DEF FileChain
<1>5. \A i \in 1 .. Len(s) :
        /\ f.bpn[s[i]].next = IF i = Len(s) THEN INVLOC ELSE s[i + 1]
        /\ f.bpn[s[i]].fhloc = h /\ f.bpn[s[i]].off \in BlockOffs
        /\ f.bytes[s[i]] = f.hdr[h].path
  BY <1>2 DEF FileChain
<1>6. /\ \A i, j \in 1 .. Len(s) : f.bpn[s[i]].off = f.bpn[s[j]].off => i = j
      /\ AnyOrder \/ \A i, j \in 1 .. Len(s) : i < j => f.bpn[s[i]].off < f.bpn[s[j]].off
  BY <1>2 DEF FileChain
<1> QED
  BY <1>1, <1>2, <1>3, <1>4, <1>5, <1>6

\* Blocks that are written as they were stay a list.
LEMMA FileChainKept ==
  ASSUME NEW f, NEW g, NEW h, NEW s, NEW X, NEW Y, FileChain(f, h, s, X), Y = {} => X = {},
         g.hdr[h] = f.hdr[h],
         \A i \in DOMAIN s : g.bpn[s[i]] = f.bpn[s[i]] /\ g.bytes[s[i]] = f.bytes[s[i]]
  PROVE  FileChain(g, h, s, Y)
<1>3. /\ s \in Seq(Blocks) /\ s # <<>>
      /\ \A i, j \in DOMAIN s : s[i] = s[j] => i = j
      /\ g.hdr[h].path \in Paths /\ g.hdr[h].next = INVLOC /\ g.hdr[h].nodeHeader = s[1]
      /\ X = {} => g.hdr[h].nodeTail = s[Len(s)]
  BY DEF FileChain
<1>4. \A i \in DOMAIN s :
        /\ g.bpn[s[i]].next = IF i = Len(s) THEN INVLOC ELSE s[i + 1]
        /\ g.bpn[s[i]].fhloc = h /\ g.bpn[s[i]].off \in BlockOffs
        /\ g.bytes[s[i]] = g.hdr[h].path
  BY DEF FileChain
<1>5. /\ \A i, j \in DOMAIN s : g.bpn[s[i]].off = g.bpn[s[j]].off => i = j
      /\ AnyOrder \/ \A i, j \in DOMAIN s : i < j => g.bpn[s[i]].off < g.bpn[s[j]].off
  BY DEF FileChain
<1> QED
  BY <1>3, <1>4, <1>5 DEF FileChain

\* Only headers that name no block any more, or did not, and blocks outside the
\* lists are written.
LEMMA ListsKept ==
  ASSUME NEW f, NEW g, NEW F, NEW G, NEW C, NEW X, NEW Y, FileLists(f, F, G, C, X),
         Y = {} => X = {},
         g.mb = f.mb,
         \A b \in F : g.bpn[b] = f.bpn[b],
         \A h \in G : g.hdr[h].next = f.hdr[h].next /\ g.hdr[h].nodeHeader = INVLOC,
         \A h \in Headers : g.hdr[h] = f.hdr[h] \/ g.hdr[h].nodeHeader = INVLOC,
         \A h \in UsedHeaders(f) : \A i \in DOMAIN C[h] :
           g.bpn[C[h][i]] = f.bpn[C[h][i]] /\ g.bytes[C[h][i]] = f.bytes[C[h][i]]
  PROVE  FileLists(g, F, G, C, Y)
<1>1. /\ F \subseteq Blocks /\ Queue(F, f.mb.bfl, f.mb.bft, NextBlocks(f))
      /\ \A b \in F : f.bpn[b].fhloc = INVLOC
      /\ G \subseteq Headers /\ Queue(G, f.mb.hfl, f.mb.hft, NextHeaders(f))
      /\ \A h \in UsedHeaders(f) : FileChain(f, h, C[h], X)
      /\ \A h, i \in UsedHeaders(f) : f.hdr[h].path = f.hdr[i].path => h = i
  BY DEF FileLists
<1>2. \A h \in UsedHeaders(g) : h \in UsedHeaders(f) /\ g.hdr[h] = f.hdr[h]
  BY DEF UsedHeaders
<1>3. Queue(F, g.mb.bfl, g.mb.bft, NextBlocks(g))
  <2>1. \A b \in F : NextBlocks(g)[b] = NextBlocks(f)[b]
    BY <1>1 DEF NextBlocks
  <2> QED
    BY <1>1, <2>1, QueueSame
<1>4. Queue(G, g.mb.hfl, g.mb.hft, NextHeaders(g))
  <2>1. \A h \in G : NextHeaders(g)[h] = NextHeaders(f)[h]
    BY <1>1 DEF NextHeaders
  <2> QED
    BY <1>1, <2>1, QueueSame
<1>5. ASSUME NEW h \in UsedHeaders(g)
      PROVE  FileChain(g, h, C[h], Y)
  <2>1. FileChain(f, h, C[h], X) /\ g.hdr[h] = f.hdr[h]
    BY <1>1, <1>2, <1>5
  <2>2. \A i \in DOMAIN C[h] :
          g.bpn[C[h][i]] = f.bpn[C[h][i]] /\ g.bytes[C[h][i]] = f.bytes[C[h][i]]
    BY <1>2, <1>5
  <2> QED
    BY <2>1, <2>2, FileChainKept
<1>6. \A h, i \in UsedHeaders(g) : g.hdr[h].path = g.hdr[i].path => h = i
  BY <1>1, <1>2
<1>7. \A b \in F : g.bpn[b].fhloc = INVLOC
  BY <1>1
<1> QED
  BY <1>1, <1>3, <1>4, <1>5, <1>6, <1>7 DEF FileLists

\* From f to g only block b is written, or only header x, or block b as the one
\* after last of header x.
BlockWritten(f, g, b) ==
  /\ g.mb = f.mb /\ g.hdr = f.hdr
  /\ \A c \in Blocks : c # b => g.bpn[c] = f.bpn[c] /\ g.bytes[c] = f.bytes[c]

HeaderWritten(f, g, x) ==
  /\ g.mb = f.mb /\ g.bpn = f.bpn /\ g.bytes = f.bytes
  /\ \A h \in Headers : h # x => g.hdr[h] = f.hdr[h]

AppendWritten(f, g, x, last, b) ==
  /\ g.mb = f.mb /\ g.hdr = f.hdr
  /\ g.bpn[b].next = INVLOC /\ g.bpn[b].fhloc = x /\ g.bpn[b].off \in BlockOffs
  /\ g.bytes[b] = f.hdr[x].path
  /\ g.bpn[last].next = b /\ g.bpn[last].fhloc = f.bpn[last].fhloc /\ g.bpn[last].off = f.bpn[last].off
  /\ g.bytes[last] = f.bytes[last]
  /\ \A c \in Blocks : c # b /\ c # last => g.bpn[c] = f.bpn[c] /\ g.bytes[c] = f.bytes[c]

InNoList(f, F, C, b) == b \notin F /\ \A h \in UsedHeaders(f) : \A i \in DOMAIN C[h] : C[h][i] # b

\* Offset off comes after those of list s.
OffArrives(f, s, off) ==
  \A i \in DOMAIN s : f.bpn[s[i]].off # off /\ (AnyOrder \/ f.bpn[s[i]].off < off)

\* The node before the new one is written, and the header is not yet: the list of
\* header x has block b more, and nodeTail is behind.
WithNode(C, x, b) == [h \in Headers |-> IF h = x THEN Append(C[x], b) ELSE C[h]]

LEMMA ListAppended ==
  ASSUME NEW f, NEW g, NEW F, NEW G, NEW C, NEW X, FileLists(f, F, G, C, X),
         NEW x \in UsedHeaders(f), NEW b \in Blocks, NEW last, last = C[x][Len(C[x])],
         InNoList(f, F, C, b), AppendWritten(f, g, x, last, b), OffArrives(f, C[x], g.bpn[b].off)
  PROVE  FileLists(g, F, G, WithNode(C, x, b), {"header"})
<1> DEFINE D == WithNode(C, x, b)
<1>10. x \in Headers /\ \A h \in UsedHeaders(f) : h \in Headers
  BY DEF UsedHeaders
<1>11. D[x] = Append(C[x], b) /\ \A h \in UsedHeaders(f) : h # x => D[h] = C[h]
  BY <1>10 DEF WithNode
<1>12. FileChain(f, x, C[x], X) /\ \A h \in UsedHeaders(f) : FileChain(f, h, C[h], X)
  BY DEF FileLists
<1>13. last \in Blocks /\ f.bpn[last].fhloc = x
  <2>1. /\ Len(C[x]) \in Nat \ {0}
        /\ \A i \in 1 .. Len(C[x]) : C[x][i] \in Blocks /\ f.bpn[C[x][i]].fhloc = x
    BY <1>12, FileChainParts
  <2>2. Len(C[x]) \in 1 .. Len(C[x])
    BY <2>1
  <2> QED
    BY <2>1, <2>2
<1>14. last \notin F
  <2>1. \A c \in F : f.bpn[c].fhloc = INVLOC
    BY DEF FileLists
  <2> QED
    BY <1>10, <1>13, <2>1, LocsAreNat
<1>15. ASSUME NEW h \in UsedHeaders(f), h # x, NEW i \in DOMAIN C[h]
       PROVE  C[h][i] # last
  <2>1. DOMAIN C[h] = 1 .. Len(C[h]) /\ \A k \in 1 .. Len(C[h]) : f.bpn[C[h][k]].fhloc = h
    BY <1>12, FileChainParts
  <2> QED
    BY <1>13, <1>15, <2>1
<1> HIDE DEF D
<1> USE DEF InNoList, AppendWritten, OffArrives
<1>1. /\ F \subseteq Blocks /\ Queue(F, f.mb.bfl, f.mb.bft, NextBlocks(f))
      /\ \A c \in F : f.bpn[c].fhloc = INVLOC
      /\ G \subseteq Headers /\ Queue(G, f.mb.hfl, f.mb.hft, NextHeaders(f))
      /\ \A h \in G : f.hdr[h].nodeHeader = INVLOC
      /\ \A h \in UsedHeaders(f) : FileChain(f, h, C[h], X)
      /\ \A h, i \in UsedHeaders(f) : f.hdr[h].path = f.hdr[i].path => h = i
  BY DEF FileLists
<1>2. UsedHeaders(g) = UsedHeaders(f) /\ NextHeaders(g) = NextHeaders(f)
  BY DEF UsedHeaders, NextHeaders
<1>3. \A c \in F : g.bpn[c] = f.bpn[c]
  BY <1>1, <1>14
<1>4. Queue(F, g.mb.bfl, g.mb.bft, NextBlocks(g))
  <2>1. \A c \in F : NextBlocks(g)[c] = NextBlocks(f)[c]
    BY <1>1, <1>3 DEF NextBlocks
  <2> QED
    BY <1>1, <2>1, QueueSame
<1>5. ASSUME NEW h \in UsedHeaders(f), h # x
      PROVE  FileChain(g, h, D[h], {"header"})
  <2> DEFINE s == C[h]
  <2>1. D[h] = s /\ FileChain(f, h, s, X) /\ g.hdr[h] = f.hdr[h]
    BY <1>1, <1>5, <1>11
  <2>6. FileChain(f, h, s, X)
    BY <2>1
  <2>2. DOMAIN s = 1 .. Len(s) /\ \A i \in 1 .. Len(s) : s[i] \in Blocks
    BY ONLY <2>6, FileChainParts
  <2>3. \A i \in DOMAIN s : s[i] \in Blocks /\ s[i] # b /\ s[i] # last
    BY <1>5, <1>15, <2>2
  <2>4. \A i \in DOMAIN s : g.bpn[s[i]] = f.bpn[s[i]] /\ g.bytes[s[i]] = f.bytes[s[i]]
    BY <2>3
  <2> HIDE DEF s
  <2>5. FileChain(g, h, s, {"header"})
    BY ONLY <2>1, <2>4, FileChainKept
  <2> QED
    BY <2>1, <2>5
<1>6. FileChain(g, x, D[x], {"header"})
  <2> DEFINE s == C[x]
             n == Len(s)
             d == D[x]
  <2>1. FileChain(f, x, s, X) /\ d = Append(s, b) /\ n = Len(s) /\ last = s[n]
    BY <1>1, <1>11
  <2>2. /\ \A i \in DOMAIN s : s[i] # b
        /\ \A i \in DOMAIN s : f.bpn[s[i]].off # g.bpn[b].off /\ (AnyOrder \/ f.bpn[s[i]].off < g.bpn[b].off)
    OBVIOUS
  <2> HIDE DEF s, n, d
  <2>3. /\ s \in Seq(Blocks) /\ s # <<>> /\ n \in Nat \ {0} /\ DOMAIN s = 1 .. n
        /\ \A i \in 1 .. n : s[i] \in Blocks
        /\ \A i, j \in 1 .. n : s[i] = s[j] => i = j
        /\ f.hdr[x].path \in Paths /\ f.hdr[x].next = INVLOC /\ f.hdr[x].nodeHeader = s[1]
        /\ \A i \in 1 .. n : f.bpn[s[i]].next = IF i = n THEN INVLOC ELSE s[i + 1]
        /\ \A i \in 1 .. n : f.bpn[s[i]].fhloc = x /\ f.bpn[s[i]].off \in BlockOffs /\ f.bpn[s[i]].off \in Nat
                             /\ f.bytes[s[i]] = f.hdr[x].path
        /\ \A i, j \in 1 .. n : f.bpn[s[i]].off = f.bpn[s[j]].off => i = j
        /\ AnyOrder \/ \A i, j \in 1 .. n : i < j => f.bpn[s[i]].off < f.bpn[s[j]].off
    <3>1. /\ s \in Seq(Blocks) /\ s # <<>> /\ Len(s) \in Nat \ {0} /\ DOMAIN s = 1 .. Len(s)
          /\ \A i \in 1 .. Len(s) : s[i] \in Blocks
          /\ \A i, j \in 1 .. Len(s) : s[i] = s[j] => i = j
          /\ f.hdr[x].path \in Paths /\ f.hdr[x].next = INVLOC /\ f.hdr[x].nodeHeader = s[1]
      BY ONLY <2>1, FileChainParts
    <3>2. \A i \in 1 .. Len(s) :
            /\ f.bpn[s[i]].next = IF i = Len(s) THEN INVLOC ELSE s[i + 1]
            /\ f.bpn[s[i]].fhloc = x /\ f.bpn[s[i]].off \in BlockOffs /\ f.bpn[s[i]].off \in Nat
            /\ f.bytes[s[i]] = f.hdr[x].path
      <4> SUFFICES ASSUME NEW i \in 1 .. Len(s)
                   PROVE  /\ f.bpn[s[i]].next = IF i = Len(s) THEN INVLOC ELSE s[i + 1]
                          /\ f.bpn[s[i]].fhloc = x /\ f.bpn[s[i]].off \in BlockOffs /\ f.bpn[s[i]].off \in Nat
                          /\ f.bytes[s[i]] = f.hdr[x].path
        OBVIOUS
      <4> QED
        BY ONLY <2>1, i \in 1 .. Len(s), FileChainParts
    <3>3. /\ \A i, j \in 1 .. Len(s) : f.bpn[s[i]].off = f.bpn[s[j]].off => i = j
          /\ AnyOrder \/ \A i, j \in 1 .. Len(s) : i < j => f.bpn[s[i]].off < f.bpn[s[j]].off
      BY ONLY <2>1, <3>1 DEF FileChain
    <3> QED
      BY ONLY <2>1, <3>1, <3>2, <3>3
  <2>4. /\ d \in Seq(Blocks) /\ Len(d) = n + 1 /\ d[n + 1] = b /\ \A i \in 1 .. n : d[i] = s[i]
    BY ONLY <2>1, <2>3, b \in Blocks, AppendProperties
  <2>5. DOMAIN d = 1 .. (n + 1) /\ d # <<>>
    BY ONLY <2>3, <2>4, LenProperties, EmptySeq
  <2>6. last = s[n]
    BY <2>1
  <2>7. \A i \in 1 .. n : f.bpn[s[i]].off # g.bpn[b].off /\ (AnyOrder \/ f.bpn[s[i]].off < g.bpn[b].off) /\ s[i] # b
    BY ONLY <2>2, <2>3
  <2>8. \A i \in 1 .. n : /\ g.bpn[s[i]].next = IF i = n THEN b ELSE s[i + 1]
                          /\ g.bpn[s[i]].fhloc = x /\ g.bpn[s[i]].off = f.bpn[s[i]].off
                          /\ g.bytes[s[i]] = f.hdr[x].path
    <3> SUFFICES ASSUME NEW i \in 1 .. n
                 PROVE  /\ g.bpn[s[i]].next = IF i = n THEN b ELSE s[i + 1]
                        /\ g.bpn[s[i]].fhloc = x /\ g.bpn[s[i]].off = f.bpn[s[i]].off
                        /\ g.bytes[s[i]] = f.hdr[x].path
      OBVIOUS
    <3>1. CASE i = n
      BY <2>3, <2>6, <3>1
    <3>2. CASE i # n
      <4>1. n \in 1 .. n
        BY <2>3
      <4>2. s[i] # last /\ s[i] # b /\ s[i] \in Blocks
        BY <2>3, <2>6, <2>7, <3>2, <4>1
      <4>3. g.bpn[s[i]] = f.bpn[s[i]] /\ g.bytes[s[i]] = f.bytes[s[i]]
        BY <4>2
      <4> QED
        BY <2>3, <3>2, <4>3
    <3> QED
      BY <3>1, <3>2
  <2>9. \A i \in 1 .. (n + 1) : i \in 1 .. n \/ i = n + 1
    BY <2>3
  <2>10. \A i, j \in DOMAIN d : d[i] = d[j] => i = j
    <3> SUFFICES ASSUME NEW i \in 1 .. (n + 1), NEW j \in 1 .. (n + 1), d[i] = d[j]
                 PROVE  i = j
      BY <2>5
    <3>1. i \in 1 .. n \/ i = n + 1
      BY <2>9
    <3>2. j \in 1 .. n \/ j = n + 1
      BY <2>9
    <3> QED
      BY ONLY <2>3, <2>4, <2>7, <3>1, <3>2, d[i] = d[j]
  <2>11. ASSUME NEW i \in DOMAIN d
         PROVE  /\ g.bpn[d[i]].next = IF i = Len(d) THEN INVLOC ELSE d[i + 1]
                /\ g.bpn[d[i]].fhloc = x /\ g.bpn[d[i]].off \in BlockOffs
                /\ g.bytes[d[i]] = g.hdr[x].path
    <3>1. CASE i = n + 1
      BY <2>4, <3>1
    <3>2. CASE i \in 1 .. n
      <4>1. i # n + 1 /\ i + 1 \in 1 .. (n + 1) /\ (i # n => i + 1 \in 1 .. n) /\ d[i] = s[i]
        BY <2>3, <2>4, <3>2
      <4>2. d[i + 1] = IF i = n THEN b ELSE s[i + 1]
        BY <2>4, <4>1
      <4>3. g.bpn[s[i]].next = d[i + 1]
        BY <2>8, <3>2, <4>2
      <4>4. g.bpn[s[i]].fhloc = x /\ g.bpn[s[i]].off \in BlockOffs /\ g.bytes[s[i]] = f.hdr[x].path
        BY <2>3, <2>8, <3>2
      <4> QED
        BY <2>4, <4>1, <4>3, <4>4
    <3> QED
      BY <2>5, <2>9, <3>1, <3>2
  <2>16. \A i \in 1 .. n : g.bpn[d[i]].off = f.bpn[s[i]].off
    BY <2>4, <2>8
  <2>17. g.bpn[d[n + 1]].off = g.bpn[b].off
    BY <2>4
  <2>18. /\ \A i, j \in 1 .. n : f.bpn[s[i]].off = f.bpn[s[j]].off => i = j
         /\ AnyOrder \/ \A i, j \in 1 .. n : i < j => f.bpn[s[i]].off < f.bpn[s[j]].off
    BY ONLY <2>3
  <2>12. ASSUME NEW i \in DOMAIN d, NEW j \in DOMAIN d, g.bpn[d[i]].off = g.bpn[d[j]].off
         PROVE  i = j
    <3>4. g.bpn[d[i]].off = g.bpn[d[j]].off
      BY <2>12
    <3>1. CASE i \in 1 .. n /\ j \in 1 .. n
      BY ONLY <2>16, <2>18, <3>1, <3>4
    <3>2. CASE i \in 1 .. n /\ j = n + 1
      BY ONLY <2>7, <2>16, <2>17, <3>2, <3>4
    <3>3. CASE i = n + 1 /\ j \in 1 .. n
      BY ONLY <2>7, <2>16, <2>17, <3>3, <3>4
    <3> QED
      BY <2>5, <2>9, <3>1, <3>2, <3>3
  <2>13. AnyOrder \/ \A i, j \in DOMAIN d : i < j => g.bpn[d[i]].off < g.bpn[d[j]].off
    <3> SUFFICES ASSUME ~AnyOrder, NEW i \in DOMAIN d, NEW j \in DOMAIN d, i < j
                 PROVE  g.bpn[d[i]].off < g.bpn[d[j]].off
      OBVIOUS
    <3>4. n \in Nat /\ i \in 1 .. (n + 1) /\ j \in 1 .. (n + 1) /\ i < j
      BY <2>3, <2>5
    <3>1. i \in 1 .. n
      BY ONLY <3>4
    <3>2. CASE j \in 1 .. n
      BY ONLY <2>16, <2>18, <3>1, <3>2, ~AnyOrder, i < j
    <3>3. CASE j = n + 1
      BY ONLY <2>7, <2>16, <2>17, <3>1, <3>3, ~AnyOrder
    <3> QED
      BY <2>5, <2>9, <3>2, <3>3
  <2>14. d[1] = s[1]
    BY <2>3, <2>4
  <2>15. FileChain(g, x, d, {"header"})
    BY <2>3, <2>4, <2>5, <2>10, <2>11, <2>12, <2>13, <2>14 DEF FileChain
  <2> QED
    BY <2>15 DEF d
<1>7. \A h, i \in UsedHeaders(g) : g.hdr[h].path = g.hdr[i].path => h = i
  BY <1>1, <1>2
<1>8. \A c \in F : g.bpn[c].fhloc = INVLOC
  BY <1>1, <1>3
<1>9. \A h \in UsedHeaders(g) : FileChain(g, h, D[h], {"header"})
  BY <1>2, <1>5, <1>6
<1>16. FileLists(g, F, G, D, {"header"})
  BY <1>1, <1>2, <1>4, <1>7, <1>8, <1>9 DEF FileLists
<1> QED
  BY <1>16 DEF D

-----------------------------------------------------------------------------
(* The cache files between the writes of a step, and the lists of writes.  *)

\* The cache files between the writes of a step.
Between(writes, a) ==
  /\ a[0] = file
  /\ \A k \in 1 .. Len(writes) : a[k] = Write_cache_off(a[k - 1], writes[k], Sections')
  /\ \A k \in 0 .. Len(writes) : a[k] \in FileType

LEMMA StepFiles ==
  ASSUME file \in FileType, Sections' \in SectionsType, NEW writes, Len(writes) \in Nat,
         \A k \in 1 .. Len(writes) : GoodWrite(writes[k]), Step(writes)
  PROVE  /\ run' \in {"up", "stopped"}
         /\ \E a : /\ Between(writes, a)
                   /\ run' = "up" => file' = a[Len(writes)] /\ torn' = torn
                   /\ run' = "stopped" =>
                        \E k \in 1 .. Len(writes) - 1 :
                          file' = a[k] /\ torn' = torn \cup HalfDone(writes, k)
<1> DEFINE a == FilesAfter(file, writes, Sections')
           n == Len(writes)
<1>1. Between(writes, a)
  BY FilesAfterParts DEF Between
<1>2. PICK k \in 0 .. n : /\ k < n => k > 0
                          /\ file' = a[k]
                          /\ run' = IF k = n THEN "up" ELSE "stopped"
                          /\ torn' = IF k = n THEN torn ELSE torn \cup HalfDone(writes, k)
  BY DEF Step
<1> HIDE DEF a
<1>3. n \in Nat
  OBVIOUS
<1> HIDE DEF n
<1>4. k # n => k \in 1 .. n - 1
  BY <1>2, <1>3
<1> QED
  BY <1>1, <1>2, <1>4 DEF n

LEMMA HalfDoneParts ==
  ASSUME NEW writes, NEW k \in Nat \ {0}
  PROVE  /\ writes[1][1] \in {"link", "linkHdr"} => "list" \in HalfDone(writes, k)
         /\ cut # NoCut => "cut" \in HalfDone(writes, k)
         /\ k = 3 /\ writes[2][1] = "data" => "header" \in HalfDone(writes, k)
<1>1. 1 \in 1 .. k
  OBVIOUS
<1> QED
  BY <1>1 DEF HalfDone

-----------------------------------------------------------------------------
(* A stop leaves lists that a start can read, but for those in half of a   *)
(* Return_file_block, a Return_file_header or a truncation.                *)

LEMMA NodeWritten ==
  ASSUME NEW f \in FileType, NEW new \in SectionsType, NEW b
  PROVE  BlockWritten(f, Write_cache_off(f, <<"bpn", b>>, new), b)
<1> DEFINE g == Write_cache_off(f, <<"bpn", b>>, new)
           q == IF f.bpn[b].fhloc = new.bpn[b].fhloc /\ f.bpn[b].off = new.bpn[b].off
                THEN f.bytes[b] ELSE NoPath
<1>1. g.mb = f.mb /\ g.hdr = f.hdr /\ g.bpn = [f.bpn EXCEPT ![b] = new.bpn[b]]
  BY WriteBpn
<1>2. g.bytes = [f.bytes EXCEPT ![b] = q]
  BY WriteBpnBytes
<1>3. f.bytes \in BytesType /\ f.bpn \in [Blocks -> NodeType]
  BY DEF FileType
<1> HIDE DEF g, q
<1>4. BlockWritten(f, g, b)
  BY <1>1, <1>2, <1>3 DEF BlockWritten, BytesType
<1> QED
  BY <1>4 DEF g

LEMMA NodeRewritten ==
  ASSUME NEW f \in FileType, NEW new \in SectionsType, NEW b,
         f.bpn[b].fhloc = new.bpn[b].fhloc, f.bpn[b].off = new.bpn[b].off
  PROVE  Write_cache_off(f, <<"bpn", b>>, new).bytes = f.bytes
<1> DEFINE g == Write_cache_off(f, <<"bpn", b>>, new)
<1>1. g.bytes = [f.bytes EXCEPT ![b] = f.bytes[b]]
  BY WriteBpnBytes
<1>2. f.bytes \in BytesType
  BY DEF FileType
<1> HIDE DEF g
<1>3. g.bytes = f.bytes
  BY <1>1, <1>2 DEF BytesType
<1> QED
  BY <1>3 DEF g

LEMMA DataWritten ==
  ASSUME NEW f \in FileType, NEW new \in SectionsType, NEW b, NEW p
  PROVE  BlockWritten(f, Write_cache_off(f, <<"data", b, p>>, new), b)
<1> DEFINE g == Write_cache_off(f, <<"data", b, p>>, new)
<1>1. g.mb = f.mb /\ g.hdr = f.hdr /\ g.bpn = f.bpn
  BY WriteData
<1>2. g.bytes = [f.bytes EXCEPT ![b] = p]
  BY WriteDataBytes
<1>3. f.bytes \in BytesType
  BY DEF FileType
<1> HIDE DEF g
<1>4. BlockWritten(f, g, b)
  BY <1>1, <1>2, <1>3 DEF BlockWritten, BytesType
<1> QED
  BY <1>4 DEF g


\* A block of no list is written.
LEMMA OtherBlockWritten ==
  ASSUME NEW f, NEW g, NEW F, NEW G, NEW C, NEW X, NEW Y, FileLists(f, F, G, C, X),
         Y = {} => X = {},
         NEW b, InNoList(f, F, C, b), BlockWritten(f, g, b)
  PROVE  FileLists(g, F, G, C, Y)
<1> USE DEF InNoList, BlockWritten
<1>1. /\ F \subseteq Blocks
      /\ \A h \in UsedHeaders(f) : FileChain(f, h, C[h], X)
      /\ \A h \in G : f.hdr[h].nodeHeader = INVLOC
  BY DEF FileLists
<1>2. \A h \in UsedHeaders(f) : \A i \in DOMAIN C[h] : C[h][i] \in Blocks
  BY <1>1, FileChainParts
<1>3. \A h \in UsedHeaders(f) : \A i \in DOMAIN C[h] :
        g.bpn[C[h][i]] = f.bpn[C[h][i]] /\ g.bytes[C[h][i]] = f.bytes[C[h][i]]
  BY <1>2
<1>4. \A c \in F : g.bpn[c] = f.bpn[c]
  BY <1>1
<1> QED
  BY <1>1, <1>3, <1>4, ListsKept

\* A free header is written as a free header.
LEMMA FreeHeaderWritten ==
  ASSUME NEW f, NEW g, NEW F, NEW G, NEW C, NEW X, NEW Y, FileLists(f, F, G, C, X),
         Y = {} => X = {},
         NEW x, x \in G => g.hdr[x].next = f.hdr[x].next, g.hdr[x].nodeHeader = INVLOC,
         HeaderWritten(f, g, x)
  PROVE  FileLists(g, F, G, C, Y)
<1> USE DEF HeaderWritten
<1>1. G \subseteq Headers /\ \A h \in G : f.hdr[h].nodeHeader = INVLOC
  BY DEF FileLists
<1>2. \A h \in G : g.hdr[h].next = f.hdr[h].next /\ g.hdr[h].nodeHeader = INVLOC
  BY <1>1
<1>3. \A h \in Headers : g.hdr[h] = f.hdr[h] \/ g.hdr[h].nodeHeader = INVLOC
  OBVIOUS
<1> QED
  BY <1>2, <1>3, ListsKept

-----------------------------------------------------------------------------
(* The writes, one by one.                                                 *)

LEMMA Return_file_headerList ==
  ASSUME NEW h
  PROVE  /\ mb.hfl = INVLOC => Return_file_headerWrites(h) = <<<<"hdr", h>>, <<"mb">>>>
         /\ mb.hfl # INVLOC =>
              Return_file_headerWrites(h) = <<<<"linkHdr", mb.hft, h>>, <<"hdr", h>>, <<"mb">>>>
<1>1. <<<<"linkHdr", mb.hft, h>>>> \o <<<<"hdr", h>>, <<"mb">>>>
        = <<<<"linkHdr", mb.hft, h>>, <<"hdr", h>>, <<"mb">>>>
  BY OneAndTwo
<1>2. CASE mb.hfl = INVLOC
  BY <1>2 DEF Return_file_headerWrites
<1>3. CASE mb.hfl # INVLOC
  BY <1>1, <1>3 DEF Return_file_headerWrites
<1> QED
  BY <1>2, <1>3

LEMMA Return_file_blockList ==
  ASSUME NEW b
  PROVE  /\ mb.bfl = INVLOC => Return_file_blockWrites(b) = <<<<"bpn", b>>, <<"mb">>>>
         /\ mb.bfl # INVLOC =>
              Return_file_blockWrites(b) = <<<<"link", mb.bft, b>>, <<"bpn", b>>, <<"mb">>>>
<1>1. <<<<"link", mb.bft, b>>>> \o <<<<"bpn", b>>, <<"mb">>>>
        = <<<<"link", mb.bft, b>>, <<"bpn", b>>, <<"mb">>>>
  BY OneAndTwo
<1>2. CASE mb.bfl = INVLOC
  BY <1>2 DEF Return_file_blockWrites
<1>3. CASE mb.bfl # INVLOC
  BY <1>1, <1>3 DEF Return_file_blockWrites
<1> QED
  BY <1>2, <1>3

LEMMA InsertList ==
  ASSUME NEW b, NEW p, NEW q, NEW h
  PROVE  /\ InsertWrites(b, p, <<>>, h) = <<<<"bpn", b>>, <<"data", b, p>>, <<"hdr", h>>>>
         /\ InsertWrites(b, p, <<<<"bpn", q>>>>, h) =
              <<<<"bpn", b>>, <<"data", b, p>>, <<"bpn", q>>, <<"hdr", h>>>>
<1>1. <<<<"bpn", b>>, <<"data", b, p>>>> \o <<<<"hdr", h>>>> = <<<<"bpn", b>>, <<"data", b, p>>, <<"hdr", h>>>>
  BY TwoAndOne
<1>2. <<<<"bpn", b>>, <<"data", b, p>>>> \o <<>> = <<<<"bpn", b>>, <<"data", b, p>>>>
  OBVIOUS
<1>3. <<<<"bpn", b>>, <<"data", b, p>>>> \o <<<<"bpn", q>>>> = <<<<"bpn", b>>, <<"data", b, p>>, <<"bpn", q>>>>
  BY TwoAndOne
<1>4. <<<<"bpn", b>>, <<"data", b, p>>, <<"bpn", q>>>> \o <<<<"hdr", h>>>>
        = <<<<"bpn", b>>, <<"data", b, p>>, <<"bpn", q>>, <<"hdr", h>>>>
  BY ThreeAndOne
<1> QED
  BY <1>1, <1>2, <1>3, <1>4 DEF InsertWrites

-----------------------------------------------------------------------------
(* The stops, one kind of step after the other.                            *)

Stop(F, G, C, X, Y) ==
  /\ file \in FileType /\ Sections' \in SectionsType /\ SameSections(file, Sections)
  /\ FileLists(file, F, G, C, X)
  /\ run' = "stopped" /\ torn' \cap {"list", "cut"} = {}
  /\ X = torn \cap {"header"} /\ Y = torn' \cap {"header"}

Good(writes) == Len(writes) \in Nat /\ \A k \in 1 .. Len(writes) : GoodWrite(writes[k])

LEMMA GoodLists ==
  ASSUME NEW v, NEW w, NEW x, NEW y, GoodWrite(v), GoodWrite(w), GoodWrite(x), GoodWrite(y)
  PROVE  Good(<<v, w>>) /\ Good(<<v, w, x>>) /\ Good(<<v, w, x, y>>)
<1>1. Good(<<v, w>>)
  BY Elements DEF Good
<1>2. Good(<<v, w, x>>)
  BY Elements DEF Good
<1>3. Good(<<v, w, x, y>>)
  <2>1. Len(<<v, w, x, y>>) = 4 /\ \A i \in 1 .. 4 : i = 1 \/ i = 2 \/ i = 3 \/ i = 4
    OBVIOUS
  <2> QED
    BY <2>1 DEF Good
<1> QED
  BY <1>1, <1>2, <1>3

\* The writes that hang a block in a file are writes of Write_cache_off.
LEMMA GoodInsert ==
  ASSUME NEW b, NEW p \in Paths, NEW q, NEW h
  PROVE  /\ Good(InsertWrites(b, p, <<>>, h))
         /\ Good(InsertWrites(b, p, <<<<"bpn", q>>>>, h))
<1>1. /\ GoodWrite(<<"bpn", b>>) /\ GoodWrite(<<"data", b, p>>)
      /\ GoodWrite(<<"hdr", h>>) /\ GoodWrite(<<"bpn", q>>)
  BY DEF GoodWrite
<1>2. Good(<<<<"bpn", b>>, <<"data", b, p>>, <<"hdr", h>>>>)
  BY <1>1, GoodLists
<1>3. Good(<<<<"bpn", b>>, <<"data", b, p>>, <<"bpn", q>>, <<"hdr", h>>>>)
  BY <1>1, GoodLists
<1> QED
  BY <1>2, <1>3, InsertList

LEMMA StopParts ==
  ASSUME NEW F, NEW G, NEW C, NEW X, NEW Y, Stop(F, G, C, X, Y),
         NEW writes, Good(writes), Step(writes)
  PROVE  /\ cut = NoCut
         /\ Y = {} => X = {}
         /\ writes[1][1] \notin {"link", "linkHdr"}
         /\ \E a : /\ Between(writes, a)
                   /\ \E k \in 1 .. Len(writes) - 1 :
                        file' = a[k] /\ (k = 3 /\ writes[2][1] = "data" => "header" \in Y)
<1>1. Len(writes) \in Nat /\ \A k \in 1 .. Len(writes) : GoodWrite(writes[k])
  BY DEF Good
<1>2. PICK a : /\ Between(writes, a)
               /\ \E k \in 1 .. Len(writes) - 1 : file' = a[k] /\ torn' = torn \cup HalfDone(writes, k)
  BY <1>1, StepFiles DEF Stop
<1>3. PICK k \in 1 .. Len(writes) - 1 : file' = a[k] /\ torn' = torn \cup HalfDone(writes, k)
  BY <1>2
<1>4. k \in Nat \ {0}
  BY <1>1
<1>5. /\ writes[1][1] \in {"link", "linkHdr"} => "list" \in torn'
      /\ cut # NoCut => "cut" \in torn'
      /\ k = 3 /\ writes[2][1] = "data" => "header" \in torn'
  BY <1>3, <1>4, HalfDoneParts
<1>6. Y = {} => X = {}
  BY <1>3 DEF Stop
<1> QED
  BY <1>2, <1>3, <1>5, <1>6 DEF Stop

\* Return_file_header, for a removed file and for the new one of an Insert that
\* gives up
LEMMA HeaderReturnStops ==
  ASSUME TypeOK, NEW F, NEW G, NEW C, NEW X, NEW Y, Stop(F, G, C, X, Y),
         NEW h \in Headers, NEW p, Return_file_header(h, p), bpn' = bpn,
         h \notin G,
         Step(Return_file_headerWrites(h))
  PROVE  FileLists(file', F, G, C, Y)
<1> DEFINE writes == Return_file_headerWrites(h)
<1>0. Good(writes)
  BY HeaderReturnedWrites DEF Stop, Complete, Good
<1>1. writes[1][1] \notin {"link", "linkHdr"} /\ (Y = {} => X = {})
  BY <1>0, StopParts
<1>2. mb.hfl = INVLOC
  BY <1>1, Return_file_headerList
<1>3. writes = <<<<"hdr", h>>, <<"mb">>>>
  BY <1>2, Return_file_headerList
<1>4. Len(writes) = 2 /\ writes[1] = <<"hdr", h>>
  BY <1>3
<1>5. PICK a : Between(writes, a) /\ \E k \in 1 .. Len(writes) - 1 : file' = a[k]
  BY <1>0, StopParts
<1> HIDE DEF writes
<1>6. file' = a[1] /\ a[1] = Write_cache_off(file, <<"hdr", h>>, Sections')
  BY <1>4, <1>5 DEF Between
<1> DEFINE g == Write_cache_off(file, <<"hdr", h>>, Sections')
<1>7. g.mb = file.mb /\ g.bpn = file.bpn /\ g.bytes = file.bytes /\ g.hdr = [file.hdr EXCEPT ![h] = Sections'.hdr[h]]
  BY WriteHdr DEF Stop
<1> HIDE DEF g
<1>8. hdr'[h].nodeHeader = INVLOC
  BY <1>2, TypeParts DEF Return_file_header, FreeHeader
<1>9. g.hdr[h].nodeHeader = INVLOC /\ \A x \in Headers : x # h => g.hdr[x] = file.hdr[x]
  <2>1. file.hdr \in [Headers -> DiskHeader]
    BY DEF Stop, FileType
  <2> QED
    BY <1>7, <1>8, <2>1, SectionsParts
<1>11. FileLists(file, F, G, C, X)
  BY DEF Stop
<1>12. HeaderWritten(file, g, h)
  BY ONLY <1>7, <1>9 DEF HeaderWritten
<1>13. (Y = {} => X = {}) /\ h \notin G
  BY <1>1
<1>10. FileLists(g, F, G, C, Y)
  BY ONLY <1>9, <1>11, <1>12, <1>13, FreeHeaderWritten
<1> QED
  BY <1>6, <1>10 DEF g

\* Alloc_file_header, of an Insert
LEMMA HeaderTakeStops ==
  ASSUME TypeOK, NEW F, NEW G, NEW C, NEW X, NEW Y, Stop(F, G, C, X, Y), mb.hfl \in G,
         NEW p, Alloc_file_header(p), Good(Alloc_file_headerWrites), Step(Alloc_file_headerWrites)
  PROVE  FileLists(file', F, G, C, Y)
<1> DEFINE writes == Alloc_file_headerWrites
           h == mb.hfl
<1>4. Len(writes) = 2 /\ writes[1] = <<"hdr", h>>
  BY DEF Alloc_file_headerWrites
<1>5. (Y = {} => X = {}) /\ \E a : Between(writes, a) /\ \E k \in 1 .. Len(writes) - 1 : file' = a[k]
  BY StopParts
<1> HIDE DEF writes
<1>6. file' = Write_cache_off(file, <<"hdr", h>>, Sections')
  BY <1>4, <1>5 DEF Between
<1> DEFINE g == Write_cache_off(file, <<"hdr", h>>, Sections')
<1>7. g.mb = file.mb /\ g.bpn = file.bpn /\ g.bytes = file.bytes /\ g.hdr = [file.hdr EXCEPT ![h] = Sections'.hdr[h]]
  BY WriteHdr DEF Stop
<1> HIDE DEF g
<1>8. file.hdr = hdr /\ h \in Headers /\ file.hdr[h].nodeHeader = INVLOC
  BY SectionsParts DEF Stop, SameSections, FileLists
<1>9. hdr'[h].nodeHeader = INVLOC /\ hdr'[h].next = hdr[h].next
  BY <1>8, TypeParts DEF Alloc_file_header, HeaderType
<1>10. /\ g.hdr[h].nodeHeader = INVLOC /\ g.hdr[h].next = file.hdr[h].next
       /\ \A x \in Headers : x # h => g.hdr[x] = file.hdr[x]
  <2>1. file.hdr \in [Headers -> DiskHeader]
    BY DEF Stop, FileType
  <2> QED
    BY <1>7, <1>8, <1>9, <2>1, SectionsParts
<1>12. FileLists(file, F, G, C, X)
  BY DEF Stop
<1> HIDE DEF h
<1>13. HeaderWritten(file, g, h)
  BY ONLY <1>7, <1>10 DEF HeaderWritten
<1>11. FileLists(g, F, G, C, Y)
  BY ONLY <1>5, <1>10, <1>12, <1>13, FreeHeaderWritten
<1> QED
  BY <1>6, <1>11 DEF g

\* The loop of Rm_file_block_table_fbt
LEMMA BlockReturnStops ==
  ASSUME TypeOK, NEW F, NEW G, NEW C, NEW X, NEW Y, Stop(F, G, C, X, Y),
         NEW b \in Blocks, Return_file_block(b), hdr' = hdr,
         InNoList(file, F, C, b),
         Step(Return_file_blockWrites(b))
  PROVE  FileLists(file', F, G, C, Y)
<1> DEFINE writes == Return_file_blockWrites(b)
<1>0. Good(writes)
  BY BlockReturnedWrites DEF Stop, Complete, Good
<1>1. writes[1][1] \notin {"link", "linkHdr"} /\ (Y = {} => X = {})
  BY <1>0, StopParts
<1>2. mb.bfl = INVLOC
  BY <1>1, Return_file_blockList
<1>3. writes = <<<<"bpn", b>>, <<"mb">>>>
  BY <1>2, Return_file_blockList
<1>4. Len(writes) = 2 /\ writes[1] = <<"bpn", b>>
  BY <1>3
<1>5. PICK a : Between(writes, a) /\ \E k \in 1 .. Len(writes) - 1 : file' = a[k]
  BY <1>0, StopParts
<1> HIDE DEF writes
<1>6. file' = Write_cache_off(file, <<"bpn", b>>, Sections')
  BY <1>4, <1>5 DEF Between
<1> DEFINE g == Write_cache_off(file, <<"bpn", b>>, Sections')
<1>11. FileLists(file, F, G, C, X)
  BY DEF Stop
<1>12. BlockWritten(file, g, b)
  BY NodeWritten DEF Stop
<1> HIDE DEF g
<1>13. (Y = {} => X = {}) /\ InNoList(file, F, C, b)
  BY <1>1
<1>10. FileLists(g, F, G, C, Y)
  BY ONLY <1>11, <1>12, <1>13, OtherBlockWritten
<1> QED
  BY <1>6, <1>10 DEF g

\* A write of the user's, in place
LEMMA OverwriteStops ==
  ASSUME NEW F, NEW G, NEW C, NEW X, NEW Y, Stop(F, G, C, X, Y),
         NEW b, NEW p, file.bytes[b] = p, NEW h,
         Good(<<<<"data", b, p>>, <<"hdr", h>>>>), Step(<<<<"data", b, p>>, <<"hdr", h>>>>)
  PROVE  FileLists(file', F, G, C, Y)
<1> DEFINE writes == <<<<"data", b, p>>, <<"hdr", h>>>>
<1>1. Len(writes) = 2 /\ writes[1] = <<"data", b, p>>
  OBVIOUS
<1>2. (Y = {} => X = {}) /\ \E a : Between(writes, a) /\ \E k \in 1 .. Len(writes) - 1 : file' = a[k]
  BY StopParts
<1> HIDE DEF writes
<1>3. file' = Write_cache_off(file, <<"data", b, p>>, Sections')
  BY <1>1, <1>2 DEF Between
<1> DEFINE g == Write_cache_off(file, <<"data", b, p>>, Sections')
<1>4. g.mb = file.mb /\ g.hdr = file.hdr /\ g.bpn = file.bpn
  BY WriteData DEF Stop
<1>5. g.bytes = [file.bytes EXCEPT ![b] = p]
  BY WriteDataBytes DEF Stop
<1> HIDE DEF g
<1>6. \A c \in Blocks : g.bytes[c] = file.bytes[c]
  <2>1. file.bytes \in BytesType
    BY DEF Stop, FileType
  <2> QED
    BY <1>5, <2>1 DEF BytesType
<1>7. FileLists(file, F, G, C, X)
  BY DEF Stop
<1>8. BlockWritten(file, g, INVLOC)
  BY ONLY <1>4, <1>6 DEF BlockWritten
<1>9. InNoList(file, F, C, INVLOC)
  <2>1. INVLOC \notin Blocks /\ F \subseteq Blocks
    BY <1>7, LocsAreNat DEF FileLists
  <2>2. \A x \in UsedHeaders(file) : FileChain(file, x, C[x], X)
    BY <1>7 DEF FileLists
  <2>3. ASSUME NEW x \in UsedHeaders(file), NEW i \in DOMAIN C[x]
        PROVE  C[x][i] # INVLOC
    <3>1. FileChain(file, x, C[x], X)
      BY <2>2
    <3> QED
      BY <2>1, <3>1, FileChainParts
  <2> QED
    BY <2>1, <2>3 DEF InNoList
<1>10. Y = {} => X = {}
  BY <1>2
<1>11. FileLists(g, F, G, C, Y)
  BY ONLY <1>7, <1>8, <1>9, <1>10, OtherBlockWritten
<1> QED
  BY <1>3, <1>11 DEF g

\* An insert: the block is in no list before the node in front of it, or the
\* header, is written.
LEMMA InsertStops ==
  ASSUME NEW F, NEW G, NEW C, NEW X, NEW Y, Stop(F, G, C, X, Y),
         NEW b, InNoList(file, F, C, b), NEW p, NEW h,
         Good(InsertWrites(b, p, <<>>, h)), Step(InsertWrites(b, p, <<>>, h))
  PROVE  FileLists(file', F, G, C, Y)
<1> DEFINE writes == InsertWrites(b, p, <<>>, h)
<1>1. Len(writes) = 3 /\ writes[1] = <<"bpn", b>> /\ writes[2] = <<"data", b, p>>
  <2>1. writes = <<<<"bpn", b>>, <<"data", b, p>>, <<"hdr", h>>>>
    BY InsertList
  <2> QED
    BY <2>1
<1>2. (Y = {} => X = {}) /\ \E a : Between(writes, a) /\ \E k \in 1 .. Len(writes) - 1 : file' = a[k]
  BY StopParts
<1> HIDE DEF writes
<1>3. PICK a : Between(writes, a) /\ \E k \in 1 .. Len(writes) - 1 : file' = a[k]
  BY <1>2
<1>4. /\ a[1] = Write_cache_off(file, <<"bpn", b>>, Sections')
      /\ a[2] = Write_cache_off(a[1], <<"data", b, p>>, Sections')
      /\ a[1] \in FileType /\ file \in FileType /\ Sections' \in SectionsType
      /\ file' = a[1] \/ file' = a[2]
  <2>1. 1 \in 1 .. Len(writes) /\ 2 \in 1 .. Len(writes) /\ 1 \in 0 .. Len(writes)
    BY <1>1
  <2>2. \A k \in 1 .. Len(writes) - 1 : k = 1 \/ k = 2
    BY <1>1
  <2> QED
    BY <1>1, <1>3, <2>1, <2>2 DEF Between, Stop
<1>5. BlockWritten(file, a[1], b) /\ BlockWritten(a[1], a[2], b)
  BY <1>4, NodeWritten, DataWritten
<1>6. BlockWritten(file, a[2], b)
  BY <1>5 DEF BlockWritten
<1>7. FileLists(file, F, G, C, X) /\ (Y = {} => X = {})
  BY <1>2 DEF Stop
<1>8. FileLists(a[1], F, G, C, Y)
  BY ONLY <1>5, <1>7, InNoList(file, F, C, b), OtherBlockWritten
<1>9. FileLists(a[2], F, G, C, Y)
  BY ONLY <1>6, <1>7, InNoList(file, F, C, b), OtherBlockWritten
<1> QED
  BY <1>4, <1>8, <1>9

\* The third write of an insert is the node in front of the new one: then the
\* list has the new one too, and only the header is behind.
LEMMA AppendStops ==
  ASSUME NEW F, NEW G, NEW C, NEW X, NEW Y, Stop(F, G, C, X, Y),
         NEW b \in Blocks, InNoList(file, F, C, b), NEW p, NEW x \in UsedHeaders(file), file.hdr[x].path = p,
         NEW last \in Blocks, last = C[x][Len(C[x])], last # b,
         bpn'[b].next = INVLOC, bpn'[b].fhloc = x, bpn'[b].off \in BlockOffs,
         OffArrives(file, C[x], bpn'[b].off),
         bpn'[last].next = b, bpn'[last].fhloc = bpn[last].fhloc, bpn'[last].off = bpn[last].off,
         Good(InsertWrites(b, p, <<<<"bpn", last>>>>, x)), Step(InsertWrites(b, p, <<<<"bpn", last>>>>, x))
  PROVE  \E D : FileLists(file', F, G, D, Y)
<1> DEFINE writes == InsertWrites(b, p, <<<<"bpn", last>>>>, x)
           new == Sections'
<1>1. /\ Len(writes) = 4 /\ writes[1] = <<"bpn", b>> /\ writes[2] = <<"data", b, p>>
      /\ writes[3] = <<"bpn", last>>
  <2>1. writes = <<<<"bpn", b>>, <<"data", b, p>>, <<"bpn", last>>, <<"hdr", x>>>>
    BY InsertList
  <2> QED
    BY <2>1
<1>2. (Y = {} => X = {})
      /\ \E a : Between(writes, a)
               /\ \E k \in 1 .. Len(writes) - 1 :
                    file' = a[k] /\ (k = 3 /\ writes[2][1] = "data" => "header" \in Y)
  <2>1. Good(writes) /\ Step(writes)
    OBVIOUS
  <2> HIDE DEF writes
  <2> QED
    BY ONLY <2>1, Stop(F, G, C, X, Y), StopParts
<1> HIDE DEF writes
<1>3. PICK a : Between(writes, a)
               /\ \E k \in 1 .. Len(writes) - 1 :
                    file' = a[k] /\ (k = 3 /\ writes[2][1] = "data" => "header" \in Y)
  BY <1>2
<1>4. /\ a[1] = Write_cache_off(file, <<"bpn", b>>, new)
      /\ a[2] = Write_cache_off(a[1], <<"data", b, p>>, new)
      /\ a[3] = Write_cache_off(a[2], <<"bpn", last>>, new)
      /\ a[1] \in FileType /\ a[2] \in FileType /\ file \in FileType /\ new \in SectionsType
      /\ file' = a[1] \/ file' = a[2] \/ (file' = a[3] /\ "header" \in Y)
  <2>1. /\ 1 \in 1 .. Len(writes) /\ 2 \in 1 .. Len(writes) /\ 3 \in 1 .. Len(writes)
        /\ 1 \in 0 .. Len(writes) /\ 2 \in 0 .. Len(writes)
        /\ 2 - 1 = 1 /\ 3 - 1 = 2 /\ 1 - 1 = 0
    BY <1>1
  <2>2. \A k \in 1 .. Len(writes) - 1 : k = 1 \/ k = 2 \/ k = 3
    BY <1>1
  <2>3. writes[2][1] = "data"
    BY <1>1
  <2>4. file' = a[1] \/ file' = a[2] \/ (file' = a[3] /\ "header" \in Y)
    BY <1>3, <2>2, <2>3
  <2>5. /\ a[0] = file
        /\ \A k \in 1 .. Len(writes) : a[k] = Write_cache_off(a[k - 1], writes[k], new)
        /\ \A k \in 0 .. Len(writes) : a[k] \in FileType
    BY <1>3 DEF Between
  <2>6. a[1] \in FileType /\ a[2] \in FileType
    BY <2>1, <2>5
  <2>7. /\ a[1] = Write_cache_off(file, <<"bpn", b>>, new)
        /\ a[2] = Write_cache_off(a[1], <<"data", b, p>>, new)
        /\ a[3] = Write_cache_off(a[2], <<"bpn", last>>, new)
    BY <1>1, <2>1, <2>5
  <2> QED
    BY <2>4, <2>6, <2>7 DEF Stop
<1>5. BlockWritten(file, a[1], b) /\ BlockWritten(a[1], a[2], b)
  BY <1>4, NodeWritten, DataWritten
<1>6. BlockWritten(file, a[2], b)
  BY <1>5 DEF BlockWritten
<1>7. FileLists(file, F, G, C, X) /\ (Y = {} => X = {})
  BY <1>2 DEF Stop
<1>8. FileLists(a[1], F, G, C, Y)
  BY ONLY <1>5, <1>7, InNoList(file, F, C, b), OtherBlockWritten
<1>9. FileLists(a[2], F, G, C, Y)
  BY ONLY <1>6, <1>7, InNoList(file, F, C, b), OtherBlockWritten
<1>10. ASSUME "header" \in Y
       PROVE  FileLists(a[3], F, G, WithNode(C, x, b), Y)
  <2>1. a[1].bpn = [file.bpn EXCEPT ![b] = new.bpn[b]] /\ a[1].mb = file.mb /\ a[1].hdr = file.hdr
    BY ONLY <1>4, WriteBpn
  <2>2. a[2].bpn = a[1].bpn /\ a[2].mb = a[1].mb /\ a[2].hdr = a[1].hdr /\ a[2].bytes = [a[1].bytes EXCEPT ![b] = p]
    BY ONLY <1>4, WriteData, WriteDataBytes
  <2>3. a[3].bpn = [a[2].bpn EXCEPT ![last] = new.bpn[last]] /\ a[3].mb = a[2].mb /\ a[3].hdr = a[2].hdr
    BY ONLY <1>4, WriteBpn
  <2>5. /\ file.bpn \in [Blocks -> NodeType] /\ a[1].bytes \in BytesType /\ a[2].bytes \in BytesType
        /\ a[2].bpn \in [Blocks -> NodeType]
    BY <1>4 DEF FileType
  <2>6. new.bpn = bpn' /\ file.bpn = bpn
    BY SectionsParts DEF Stop, SameSections
  <2> HIDE DEF new
  <2>7. a[2].bpn[last] = bpn[last] /\ a[2].bpn[b] = bpn'[b] /\ \A c \in Blocks : c # b => a[2].bpn[c] = file.bpn[c]
    BY <2>1, <2>2, <2>5, <2>6
  <2>8. /\ a[3].bpn[last] = bpn'[last] /\ a[3].bpn[b] = bpn'[b]
        /\ \A c \in Blocks : c # b /\ c # last => a[3].bpn[c] = file.bpn[c]
    BY <2>3, <2>5, <2>6, <2>7
  <2>9. a[3].bytes = a[2].bytes
    <3>1. a[2].bpn[last].fhloc = new.bpn[last].fhloc /\ a[2].bpn[last].off = new.bpn[last].off
      BY <2>6, <2>7
    <3> QED
      BY ONLY <1>4, <3>1, NodeRewritten DEF new
  <2>10. a[2].bytes[b] = p /\ \A c \in Blocks : c # b => a[2].bytes[c] = file.bytes[c]
    <3>1. \A c \in Blocks : c # b => a[2].bytes[c] = file.bytes[c]
      BY <1>6 DEF BlockWritten
    <3> QED
      BY <2>2, <2>5, <3>1 DEF BytesType
  <2>11. AppendWritten(file, a[3], x, last, b)
    <3>1. a[3].mb = file.mb /\ a[3].hdr = file.hdr
      BY <2>1, <2>2, <2>3
    <3>2. /\ a[3].bpn[b].next = INVLOC /\ a[3].bpn[b].fhloc = x /\ a[3].bpn[b].off \in BlockOffs
          /\ a[3].bytes[b] = file.hdr[x].path
      BY <2>8, <2>9, <2>10
    <3>3. /\ a[3].bpn[last].next = b /\ a[3].bpn[last].fhloc = file.bpn[last].fhloc
          /\ a[3].bpn[last].off = file.bpn[last].off
      BY <2>6, <2>8
    <3>4. a[3].bytes[last] = file.bytes[last]
      BY <2>9, <2>10
    <3>5. \A c \in Blocks : c # b /\ c # last => a[3].bpn[c] = file.bpn[c] /\ a[3].bytes[c] = file.bytes[c]
      BY <2>8, <2>9, <2>10
    <3> QED
      BY ONLY <3>1, <3>2, <3>3, <3>4, <3>5 DEF AppendWritten
  <2>12. OffArrives(file, C[x], a[3].bpn[b].off)
    BY <2>8
  <2>13. FileLists(a[3], F, G, WithNode(C, x, b), {"header"})
    BY ONLY <1>7, <2>11, <2>12, b \in Blocks, x \in UsedHeaders(file), last = C[x][Len(C[x])],
            InNoList(file, F, C, b), ListAppended
  <2>14. Y = {"header"}
    BY <1>10 DEF Stop
  <2> QED
    BY <2>13, <2>14
<1> QED
  BY <1>4, <1>8, <1>9, <1>10

LEMMA StopsLeaveLists ==
  ASSUME CrashInv, NEW L, NEW M, NEW X, NEW Y, UpInv(L, M, X),
         X = torn \cap {"header"}, Y = torn' \cap {"header"},
         CrashNext, run' = "stopped", torn' \cap {"list", "cut"} = {}
  PROVE  \E F, G, C : FileLists(file', F, G, C, Y)
<1>1. PICK writes : Writing(writes)
  BY WritesKnown DEF CrashInv, MemoryInv, TailAsserts, Kill, Init_RSC_table_m
<1>2. MemoryInv /\ TypeOK /\ CallInv /\ StaleMatches /\ HeaderLengths /\ file \in FileType
  BY DEF CrashInv, MemoryInv
<1>3. Sections' \in SectionsType /\ run = "up" /\ SameSections(file, Sections)
  BY <1>1, <1>2, NextSections DEF Writing, Step, CrashInv
<1>4. cut = NoCut
  <2>1. Len(writes) \in Nat /\ \A k \in 1 .. Len(writes) : GoodWrite(writes[k])
    BY <1>1 DEF Writing, Complete
  <2>2. PICK k \in 1 .. Len(writes) - 1 : torn' = torn \cup HalfDone(writes, k)
    BY <1>1, <1>2, <1>3, <2>1, StepFiles DEF Writing
  <2>3. k \in Nat \ {0}
    BY <2>1
  <2> QED
    BY <2>2, <2>3, HalfDoneParts
<1>5. PICK F, G, C : /\ F = Unowned(L) /\ G = Spare(M) /\ C = MemLists
                     /\ FileLists(file, F, G, C, X)
                     /\ \A h \in UsedHeaders(file) : \E p : HasList(p, h)
  BY <1>2, <1>3, <1>4, RunningLists
<1>6. Stop(F, G, C, X, Y)
  BY <1>2, <1>3, <1>5 DEF Stop
<1>7. /\ mb = file.mb /\ hdr = file.hdr /\ bpn = file.bpn
      /\ DiskInv(L, M) /\ ChainInv(L) /\ HeaderInv(M) /\ FreeInv(L) /\ DeadInv(L)
      /\ HeadsMatch(X) /\ OffsInv /\ UnusedHeaders /\ OwnData
  BY <1>3 DEF SameSections, Sections, UpInv, DiskInv
<1>8. \A p \in DOMAIN tab : tab[p] \in CachedFile /\ tab[p].loc \in Headers /\ p \in Paths
  BY <1>2, TypeParts DEF CachedFile
<1>9. ASSUME NEW b, b \notin F, \A p \in DOMAIN tab : b \notin ChainLocs(p)
      PROVE  InNoList(file, F, C, b)
  <2>1. ASSUME NEW h \in UsedHeaders(file), NEW i \in DOMAIN C[h]
        PROVE  C[h][i] # b
    <3>1. PICK p : HasList(p, h)
      BY <1>5
    <3>2. p \in DOMAIN tab /\ C[h] = Locs(p)
      BY <1>5, <3>1 DEF HasList
    <3>3. C[h][i] \in ChainLocs(p)
      BY <1>8, <2>1, <3>2, LocsParts
    <3> QED
      BY <1>9, <3>2, <3>3
  <2> QED
    BY <1>9, <2>1 DEF InNoList
<1>10. GoodWrite(<<"mb">>) /\ \A x : GoodWrite(<<"hdr", x>>) /\ GoodWrite(<<"bpn", x>>) /\ \A p \in Paths : GoodWrite(<<"data", x, p>>)
  BY GoodWrites
<1>11. ASSUME Step(<<>>)
       PROVE  FALSE
  <2>1. Len(<<>>) = 0 /\ Len(<<>>) \in Nat /\ 1 .. Len(<<>>) = {} /\ 1 .. Len(<<>>) - 1 = {}
    OBVIOUS
  <2> QED
    BY <1>2, <1>3, <1>11, <2>1, StepFiles
<1>12. ASSUME NEW w, GoodWrite(w), Step(<<w>>)
       PROVE  FALSE
  <2>1. Len(<<w>>) = 1 /\ Len(<<w>>) \in Nat /\ (\A k \in 1 .. Len(<<w>>) : <<w>>[k] = w) /\ 1 .. Len(<<w>>) - 1 = {}
    OBVIOUS
  <2>2. \A k \in 1 .. Len(<<w>>) : GoodWrite(<<w>>[k])
    BY <1>12, <2>1
  <2> QED
    BY <1>2, <1>3, <1>12, <2>1, <2>2, StepFiles
<1>13. ASSUME NEW h \in Headers, NEW p, Return_file_header(h, p), bpn' = bpn, h \notin G,
              Step(Return_file_headerWrites(h))
       PROVE  FileLists(file', F, G, C, Y)
  BY <1>2, <1>6, <1>13, HeaderReturnStops
<1>14. ASSUME NEW p \in DOMAIN tab, RemoveFile(p), Step(Return_file_headerWrites(tab[p].loc))
       PROVE  FileLists(file', F, G, C, Y)
  <2>1. tab[p].loc \in Headers /\ tab[p].loc \notin G
    BY <1>5, <1>8 DEF Spare
  <2>2. Return_file_header(tab[p].loc, p) /\ bpn' = bpn
    BY <1>14 DEF RemoveFile
  <2> QED
    BY <1>13, <1>14, <2>1, <2>2
<1>15. CASE Inserts
  <2> SUFFICES ASSUME NEW p \in Paths, NEW off \in BlockOffs,
                      \/ InsertNewFile(p, off, CBlkSize) /\ Step(Alloc_file_headerWrites)
                      \/ Step(<<>>)
                      \/ /\ OverwriteBlock(p, off, off + CBlkSize)
                         /\ \E i \in DOMAIN tab[p].chain :
                              /\ tab[p].chain[i].off = off
                              /\ Step(<<<<"data", tab[p].chain[i].loc, p>>, <<"hdr", tab[p].loc>>>>)
               PROVE  \E H, I, D : FileLists(file', H, I, D, Y)
    BY <1>15 DEF Inserts
  <2>1. CASE InsertNewFile(p, off, CBlkSize) /\ Step(Alloc_file_headerWrites)
    <3>1. Alloc_file_header(p)
      BY <2>1 DEF InsertNewFile
    <3>2. mb.hfl \in G
      <4>1. mb.hfl # INVLOC /\ Queue(G, mb.hfl, mb.hft, HeaderNext)
        BY <1>5, <1>7, <3>1 DEF Alloc_file_header, HeaderInv
      <4> QED
        BY <4>1, QueueParts
    <3>3. Good(Alloc_file_headerWrites)
      BY <1>10, GoodLists DEF Alloc_file_headerWrites
    <3> QED
      BY <1>2, <1>6, <2>1, <3>1, <3>2, <3>3, HeaderTakeStops
  <2>2. CASE Step(<<>>)
    BY <1>11, <2>2
  <2>3. ASSUME OverwriteBlock(p, off, off + CBlkSize), NEW i \in DOMAIN tab[p].chain,
               Step(<<<<"data", tab[p].chain[i].loc, p>>, <<"hdr", tab[p].loc>>>>)
        PROVE  \E H, I, D : FileLists(file', H, I, D, Y)
    <3> DEFINE b == tab[p].chain[i].loc
               h == tab[p].loc
    <3>1. p \in DOMAIN tab
      BY <2>3 DEF OverwriteBlock
    <3>2. file.bytes[b] = p
      BY <1>7, <3>1 DEF OwnData, ChainLocs
    <3>3. Step(<<<<"data", b, p>>, <<"hdr", h>>>>)
      BY <2>3
    <3> HIDE DEF b, h
    <3>4. Good(<<<<"data", b, p>>, <<"hdr", h>>>>)
      BY <1>10, GoodLists
    <3> QED
      BY <1>6, <3>2, <3>3, <3>4, OverwriteStops
  <2> QED
    BY <2>1, <2>2, <2>3
<1>16. CASE AllocSteps
  <2>1. CASE Step(<<<<"mb">>>>)
    BY <1>10, <1>12, <2>1
  <2>2. CASE GiveUp /\ Step(IF req.hdr = INVLOC THEN <<>> ELSE Return_file_headerWrites(req.hdr))
    <3>1. CASE req.hdr = INVLOC
      BY <1>11, <2>2, <3>1
    <3>2. CASE req.hdr # INVLOC
      <4>1. req.hdr \in Headers /\ req.hdr \notin G
        BY <1>2, <1>5, <3>2, TypeParts DEF RequestType, HeaderOrNone, Spare
      <4>2. Return_file_header(req.hdr, req.path) /\ bpn' = bpn /\ Step(Return_file_headerWrites(req.hdr))
        BY <2>2, <3>2 DEF GiveUp
      <4> QED
        BY <1>13, <4>1, <4>2
    <3> QED
      BY <3>1, <3>2
  <2>3. CASE Evict /\ Step(Return_file_headerWrites(tab[Head(stale)].loc))
    <3>1. Head(stale) \in DOMAIN tab /\ RemoveFile(Head(stale))
      BY <1>2, <2>3, StaleHead DEF Evict
    <3> QED
      BY <1>14, <2>3, <3>1
  <2>4. CASE Step(<<>>)
    BY <1>11, <2>4
  <2> QED
    BY <1>16, <2>1, <2>2, <2>3, <2>4 DEF AllocSteps
<1>17. ASSUME req.blk # INVLOC
       PROVE  /\ req.blk \in Blocks /\ InNoList(file, F, C, req.blk)
              /\ \A p \in DOMAIN tab : req.blk \notin ChainLocs(p)
  <2>1. req.blk \in Blocks
    BY <1>2, <1>17, TypeParts DEF RequestType, BlockOrNone
  <2>2. req.blk \notin F
    BY <1>5 DEF Unowned
  <2>3. bpn[req.blk].fhloc = INVLOC
    BY <1>7, <1>17 DEF FreeInv
  <2>4. ASSUME NEW p \in DOMAIN tab
        PROVE  req.blk \notin ChainLocs(p)
    <3>1. \A b \in ChainLocs(p) : bpn[b].fhloc = tab[p].loc
      BY <1>7 DEF ChainInv, FileInv, NodesInv, ChainLocs
    <3>2. tab[p].loc # INVLOC
      BY <1>8, LocsAreNat
    <3> QED
      BY <2>3, <3>1, <3>2
  <2> QED
    BY <1>9, <2>1, <2>2, <2>4
<1>18. CASE LinkSteps
  <2>1. CASE LinkNewFile /\ Step(InsertWrites(req.blk, req.path, <<>>, req.hdr))
    <3>1. req.blk # INVLOC /\ req.path \in Paths
      BY <1>2, <2>1 DEF LinkNewFile, CallInv
    <3>2. Good(InsertWrites(req.blk, req.path, <<>>, req.hdr))
      BY <1>10, <3>1, GoodInsert
    <3> QED
      BY <1>6, <1>17, <2>1, <3>1, <3>2, InsertStops
  <2>2. ASSUME LinkBlock, tab[req.path].chain = <<>>,
               Step(InsertWrites(req.blk, req.path, <<>>, tab[req.path].loc))
        PROVE  FileLists(file', F, G, C, Y)
    <3> DEFINE h == tab[req.path].loc
    <3>1. req.blk # INVLOC /\ req.path \in Paths
      BY <1>2, <2>2 DEF LinkBlock, CallInv
    <3> HIDE DEF h
    <3>2. Good(InsertWrites(req.blk, req.path, <<>>, h))
      BY <1>10, <3>1, GoodInsert
    <3> QED
      BY <1>6, <1>17, <2>2, <3>1, <3>2, InsertStops DEF h
  <2>3. ASSUME LinkBlock, NEW last, last = Last(tab[req.path].chain).loc, tab[req.path].chain # <<>>,
               Step(InsertWrites(req.blk, req.path, <<<<"bpn", last>>>>, tab[req.path].loc))
        PROVE  \E D : FileLists(file', F, G, D, Y)
    <3> DEFINE p == req.path
               b == req.blk
               f == tab[p]
               x == f.loc
               s == Locs(p)
               n == Len(s)
    <3>1. b # INVLOC /\ p \in Paths /\ p \in DOMAIN tab /\ f \in CachedFile /\ x \in Headers /\ p # cut.path
      BY <1>2, <1>8, <2>3 DEF LinkBlock, CallInv
    <3>2. FileInv(L, p) /\ HeadTail(f, X) /\ p \in DOMAIN tab
      BY <1>7, <3>1 DEF ChainInv, HeadsMatch
    <3>3. /\ n = Len(f.chain) /\ n \in Nat /\ s # <<>> /\ DOMAIN s = 1 .. n /\ DOMAIN f.chain = 1 .. n
          /\ \A i \in 1 .. n : s[i] = f.chain[i].loc /\ s[i] \in Blocks /\ s[i] \in ChainLocs(p)
      BY <2>3, <3>1, LocsParts
    <3>4. n \in 1 .. n /\ 1 \in 1 .. n
      BY <2>3, <3>1, <3>3, ChainType
    <3>5. last = s[n] /\ last \in Blocks /\ last \in ChainLocs(p)
      BY <2>3, <3>3, <3>4 DEF Last
    <3>6. hdr[x] = HeaderOf(p, f) /\ f.nodeHeader = f.chain[1].loc
      BY <2>3, <3>1, <3>2 DEF FileInv, HeadTail
    <3>7. x \in UsedHeaders(file) /\ file.hdr[x].path = p
      <4>1. hdr[x].nodeHeader = s[1] /\ s[1] # INVLOC /\ hdr[x].path = p
        BY <3>3, <3>4, <3>6, LocsAreNat DEF HeaderOf
      <4> QED
        BY <1>7, <3>1, <4>1 DEF UsedHeaders
    <3>8. MemLists[x] = s
      <4>1. PICK q : HasList(q, x)
        BY <1>5, <3>7
      <4>2. q \in DOMAIN tab /\ tab[q].loc = x /\ MemLists[x] = Locs(q)
        BY <4>1 DEF HasList
      <4>3. q = p
        BY <1>7, <3>1, <4>2 DEF HeaderInv
      <4> QED
        BY <4>2, <4>3
    <3>9. last # b
      BY <1>17, <3>1, <3>5
    <3>10. bpn' = NodesWithLink(f, b, req.off)
      BY <2>3 DEF LinkBlock
    <3>11. bpn' = [bpn EXCEPT ![b] = [next |-> INVLOC, fhloc |-> x, off |-> req.off], ![last].next = b]
      BY <2>3, <3>10 DEF NodesWithLink
    <3>12. b \in Blocks /\ req.off \in BlockOffs
      BY <1>2, <1>17, <3>1 DEF CallInv
    <3> HIDE DEF x, s, b, n, f, p
    <3>13. bpn \in [Blocks -> NodeType]
      BY <1>2, TypeParts
    <3>14. /\ bpn'[b].next = INVLOC /\ bpn'[b].fhloc = x /\ bpn'[b].off = req.off
           /\ bpn'[last].next = b /\ bpn'[last].fhloc = bpn[last].fhloc /\ bpn'[last].off = bpn[last].off
      <4>1. bpn'[b] = [next |-> INVLOC, fhloc |-> x, off |-> req.off]
        BY <3>5, <3>9, <3>11, <3>12, <3>13
      <4>2. bpn'[last] = [bpn[last] EXCEPT !.next = b]
        BY <3>5, <3>9, <3>11, <3>12, <3>13
      <4>3. bpn[last] \in NodeType
        BY <3>5, <3>13
      <4> QED
        BY <4>1, <4>2, <4>3 DEF NodeType
    <3>15. OffArrives(file, s, req.off)
      <4>1. \A i \in 1 .. n : f.chain[i].off \in Offs(p) /\ bpn[s[i]].off = f.chain[i].off
        BY <3>2, <3>3 DEF FileInv, NodesInv, Offs, f
      <4>2. req.off \notin Offs(p) /\ Arrives(p, req.off)
        BY <1>2, <1>7, <3>1 DEF CallInv, OffsInv, p
      <4> QED
        BY <1>7, <3>3, <4>1, <4>2 DEF OffArrives, Arrives
    <3>16. Good(InsertWrites(b, p, <<<<"bpn", last>>>>, x))
      BY <1>10, <3>1, GoodInsert
    <3>17. Step(InsertWrites(b, p, <<<<"bpn", last>>>>, x))
      BY <2>3 DEF b, p, x, f
    <3>18. InNoList(file, F, C, b)
      BY <1>17, <3>1 DEF b
    <3>19. C[x] = s
      BY <1>5, <3>8
    <3>20. last = C[x][Len(C[x])] /\ OffArrives(file, C[x], bpn'[b].off)
      BY <3>5, <3>14, <3>15, <3>19 DEF n
    <3> QED
      BY <1>6, <3>5, <3>7, <3>9, <3>12, <3>14, <3>16, <3>17, <3>18, <3>20, AppendStops
  <2>4. CASE Step(<<>>)
    BY <1>11, <2>4
  <2> QED
    BY <1>18, <2>1, <2>2, <2>3, <2>4 DEF LinkSteps
<1>19. CASE Removes
  <2>1. ASSUME NEW p \in Paths, Rm(p), Step(Return_file_headerWrites(tab[p].loc))
        PROVE  FileLists(file', F, G, C, Y)
    BY <1>14, <2>1 DEF Rm
  <2>2. CASE RmBlock /\ Step(Return_file_blockWrites(walk))
    <3>1. walk \in Dead(L)
      BY <1>7, <2>2, ChainedFirst DEF RmBlock, DeadInv
    <3>2. walk \in Blocks /\ walk \notin F /\ \A p \in DOMAIN tab : walk \notin ChainLocs(p)
      BY <1>5, <3>1 DEF Dead, Unowned
    <3>3. InNoList(file, F, C, walk)
      BY <1>9, <3>2
    <3>4. Return_file_block(walk) /\ hdr' = hdr
      BY <2>2 DEF RmBlock
    <3> QED
      BY <1>2, <1>6, <2>2, <3>2, <3>3, <3>4, BlockReturnStops
  <2>3. CASE Step(<<>>)
    BY <1>11, <2>3
  <2> QED
    BY <1>19, <2>1, <2>2, <2>3 DEF Removes
<1>20. CASE Truncates
  <2>1. Step(<<>>)
    BY <1>4, <1>20 DEF Truncates, TruncateBlock, TruncateDone
  <2> QED
    BY <1>11, <2>1
<1>21. CASE OpensAndCloses
  BY <1>11, <1>21 DEF OpensAndCloses
<1> QED
  BY <1>3, <1>15, <1>16, <1>18, <1>19, <1>20, <1>21 DEF CrashNext, TailAsserts, Kill, Init_RSC_table_m

-----------------------------------------------------------------------------
(* The blocks of the cached files keep their data.                         *)

\* A write leaves the data of a block whose node keeps its file and its offset.
LEMMA WriteKeepsData ==
  ASSUME NEW f \in FileType, NEW w, GoodWrite(w), NEW new \in SectionsType, NEW b \in Blocks,
         new.bpn[b].fhloc = f.bpn[b].fhloc, new.bpn[b].off = f.bpn[b].off,
         w[1] = "data" /\ w[2] = b => w[3] = f.bytes[b]
  PROVE  LET g == Write_cache_off(f, w, new) IN
         g.bytes[b] = f.bytes[b] /\ g.bpn[b].fhloc = f.bpn[b].fhloc /\ g.bpn[b].off = f.bpn[b].off
<1> DEFINE g == Write_cache_off(f, w, new)
<1>1. /\ f.bpn \in [Blocks -> NodeType] /\ f.bytes \in BytesType
      /\ new.bpn \in [Blocks -> NodeType]
  BY DEF FileType, SectionsType
<1>2. CASE w[1] \in {"mb", "hdr", "linkHdr"}
  <2>1. g.bytes = f.bytes /\ g.bpn = f.bpn
    BY <1>2 DEF Write_cache_off, FileType
  <2> QED
    BY <2>1
<1>3. CASE w[1] = "link"
  <2>1. g.bytes = f.bytes /\ g.bpn = [f.bpn EXCEPT ![w[2]].next = w[3]]
    BY <1>3 DEF Write_cache_off, FileType
  <2> HIDE DEF g
  <2>2. g.bpn[b].fhloc = f.bpn[b].fhloc /\ g.bpn[b].off = f.bpn[b].off
    BY <1>1, <2>1 DEF NodeType
  <2> QED
    BY <2>1, <2>2 DEF g
<1>4. CASE w[1] = "data"
  <2>1. g.bpn = f.bpn /\ g.bytes = [f.bytes EXCEPT ![w[2]] = w[3]]
    BY <1>4 DEF Write_cache_off, FileType
  <2> HIDE DEF g
  <2>2. g.bytes[b] = f.bytes[b]
    BY <1>1, <1>4, <2>1 DEF BytesType
  <2> QED
    BY <2>1, <2>2 DEF g
<1>5. CASE w[1] = "bpn"
  <2>1. g.bpn = [f.bpn EXCEPT ![w[2]] = new.bpn[w[2]]]
    BY <1>5 DEF Write_cache_off, FileType
  <2>2. g.bytes = [f.bytes EXCEPT ![w[2]] = IF /\ f.bpn[w[2]].fhloc = new.bpn[w[2]].fhloc
                                               /\ f.bpn[w[2]].off = new.bpn[w[2]].off
                                            THEN @ ELSE NoPath]
    BY <1>5 DEF Write_cache_off, FileType
  <2> HIDE DEF g
  <2>3. g.bytes[b] = f.bytes[b]
    BY <1>1, <2>2 DEF BytesType
  <2>4. g.bpn[b].fhloc = f.bpn[b].fhloc /\ g.bpn[b].off = f.bpn[b].off
    BY <1>1, <2>1
  <2> QED
    BY <2>3, <2>4 DEF g
<1> QED
  BY <1>2, <1>3, <1>4, <1>5 DEF GoodWrite

\* No write of the step puts another file's data in a block of a cached file.
Harmless(writes) ==
  \A k \in 1 .. Len(writes) : writes[k][1] = "data" =>
    \A p \in DOMAIN tab : writes[k][2] \in ChainLocs(p) => writes[k][3] = p

LEMMA WritesKeepData ==
  ASSUME NEW writes, Good(writes), Harmless(writes), NEW a, Between(writes, a),
         Sections' \in SectionsType, OwnData, NEW p \in DOMAIN tab, NEW b \in Blocks, b \in ChainLocs(p),
         bpn'[b].fhloc = file.bpn[b].fhloc, bpn'[b].off = file.bpn[b].off
  PROVE  a[Len(writes)].bytes[b] = p
<1> DEFINE n == Len(writes)
           x == file.bpn[b].fhloc
           o == file.bpn[b].off
           D == {f \in FileType : f.bytes[b] = p /\ f.bpn[b].fhloc = x /\ f.bpn[b].off = o}
<1>1. n \in Nat /\ \A k \in 1 .. n : GoodWrite(writes[k])
  BY DEF Good
<1>2. /\ a[0] = file /\ \A k \in 0 .. n : a[k] \in FileType
      /\ \A k \in 1 .. n : a[k] = Write_cache_off(a[k - 1], writes[k], Sections')
  BY DEF Between
<1>3. Sections'.bpn[b].fhloc = x /\ Sections'.bpn[b].off = o
  BY SectionsParts
<1>4. \A k \in 1 .. n : writes[k][1] = "data" /\ writes[k][2] = b => writes[k][3] = p
  BY DEF Harmless
<1> HIDE DEF n, x, o
<1>5. ASSUME NEW k \in 1 .. n, a[k - 1] \in D
      PROVE  a[k] \in D
  <2> DEFINE f == a[k - 1]
             w == writes[k]
  <2>1. f \in FileType /\ f.bytes[b] = p /\ f.bpn[b].fhloc = x /\ f.bpn[b].off = o
    BY <1>5
  <2>2. GoodWrite(w) /\ (w[1] = "data" /\ w[2] = b => w[3] = p) /\ a[k] = Write_cache_off(f, w, Sections')
    BY <1>1, <1>2, <1>4
  <2>3. a[k] \in FileType
    BY <1>1, <1>2
  <2> HIDE DEF f, w
  <2>4. a[k].bytes[b] = f.bytes[b] /\ a[k].bpn[b].fhloc = f.bpn[b].fhloc /\ a[k].bpn[b].off = f.bpn[b].off
    BY <1>3, <2>1, <2>2, WriteKeepsData
  <2> QED
    BY <2>1, <2>3, <2>4
<1>6. a[0] \in D
  <2>1. a[0] \in FileType
    BY <1>1, <1>2
  <2> QED
    BY <1>2, <2>1 DEF x, o, OwnData
<1> HIDE DEF D
<1>7. \A k \in 0 .. n : a[k] \in D
  BY ONLY <1>1, <1>5, <1>6, StaysIn
<1>8. a[n] \in D
  BY <1>1, <1>7
<1> QED
  BY <1>8 DEF D, n

-----------------------------------------------------------------------------
(* The nodes of the cached files after a step: those they had, and the one *)
(* that Insert_RSC_table hangs in.                                         *)

OldNode(p, i) ==
  /\ p \in DOMAIN tab /\ tab'[p].loc = tab[p].loc
  /\ \E j \in DOMAIN tab[p].chain : tab'[p].chain[i] = tab[p].chain[j]

Linking == pc = "link" /\ pc' = "idle"

TakenNode(p, i) == Linking /\ p = req.path /\ tab'[p].chain[i].loc = req.blk

LEMMA NodesStep ==
  ASSUME TypeOK, CallInv, StaleMatches, Next
  PROVE  \A p \in DOMAIN tab' : \A i \in DOMAIN tab'[p].chain : OldNode(p, i) \/ TakenNode(p, i)
<1> DEFINE Old == \A p \in DOMAIN tab' : \A i \in DOMAIN tab'[p].chain : OldNode(p, i)
<1> USE TypeParts
<1>1. \A p \in DOMAIN tab : tab[p] \in CachedFile /\ p \in Paths
  OBVIOUS
<1>2. ASSUME tab' = tab
      PROVE  Old
  BY <1>2 DEF OldNode
<1>3. ASSUME NEW p \in DOMAIN tab, RemoveFile(p)
      PROVE  Old
  BY <1>3 DEF RemoveFile, OldNode
<1>4. ASSUME NEW p \in DOMAIN tab, NEW f, tab' = [tab EXCEPT ![p] = f], f.chain = tab[p].chain, f.loc = tab[p].loc
      PROVE  Old
  BY <1>4 DEF OldNode
<1>5. CASE Call
  <2> SUFFICES ASSUME NEW p \in Paths,
                      \/ \E off \in BlockOffs, len \in Lens : InsertNewFile(p, off, len)
                      \/ \E off \in BlockOffs, len \in Lens, flag \in InsertFlags : InsertBlock(p, off, len, flag)
                      \/ \E off \in BlockOffs, len \in Lens : OverwriteBlock(p, off, off + len)
                      \/ Rm(p)
                      \/ Append_to_stale_list(p)
                      \/ Rm_file_from_stale_list(p)
                      \/ NodeNotListed(p)
                      \/ \E off \in TruncateOffs : TruncateStart(p, off)
               PROVE  Old
    BY <1>5 DEF Call
  <2>1. ASSUME NEW off \in BlockOffs, NEW len \in Lens,
               InsertNewFile(p, off, len) \/ \E flag \in InsertFlags : InsertBlock(p, off, len, flag)
        PROVE  Old
    BY <1>2, <2>1 DEF InsertNewFile, InsertBlock
  <2>2. ASSUME NEW o, p \in DOMAIN tab, tab' = [tab EXCEPT ![p].fileoff = o]
        PROVE  Old
    <3> DEFINE f == [tab[p] EXCEPT !.fileoff = o]
    <3>1. f.chain = tab[p].chain /\ f.loc = tab[p].loc /\ tab' = [tab EXCEPT ![p] = f]
      BY <1>1, <2>2 DEF CachedFile
    <3> HIDE DEF f
    <3> QED
      BY <1>4, <2>2, <3>1
  <2>3. ASSUME NEW sn, p \in DOMAIN tab, tab' = [tab EXCEPT ![p].sn = sn]
        PROVE  Old
    <3> DEFINE f == [tab[p] EXCEPT !.sn = sn]
    <3>1. f.chain = tab[p].chain /\ f.loc = tab[p].loc /\ tab' = [tab EXCEPT ![p] = f]
      BY <1>1, <2>3 DEF CachedFile
    <3> HIDE DEF f
    <3> QED
      BY <1>4, <2>3, <3>1
  <2>4. ASSUME NEW off \in BlockOffs, NEW len \in Lens, OverwriteBlock(p, off, off + len)
        PROVE  Old
    BY <2>2, <2>4 DEF OverwriteBlock
  <2>5. CASE Rm(p)
    BY <1>3, <2>5 DEF Rm
  <2>6. CASE Append_to_stale_list(p) \/ Rm_file_from_stale_list(p)
    BY <2>3, <2>6 DEF Append_to_stale_list, Rm_file_from_stale_list
  <2>8. CASE NodeNotListed(p)
    BY <1>2, <2>8 DEF NodeNotListed
  <2>7. ASSUME NEW off \in TruncateOffs, TruncateStart(p, off)
        PROVE  Old
    BY <2>2, <2>7 DEF TruncateStart
  <2> QED
    BY <2>1, <2>4, <2>5, <2>6, <2>7, <2>8
<1>6. CASE Evict
  BY <1>3, <1>6, StaleHead DEF Evict
<1>7. CASE LinkNewFile
  <2> DEFINE f == [loc |-> req.hdr, nodeHeader |-> req.blk, nodeTail |-> req.blk,
                   fileoff |-> Grow(hdr[req.hdr].fileoff, req.end),
                   chain |-> <<[loc |-> req.blk, off |-> req.off]>>, sn |-> "null"]
  <2>1. tab' = [q \in DOMAIN tab \cup {req.path} |-> IF q = req.path THEN f ELSE tab[q]] /\ Linking
    BY <1>7 DEF LinkNewFile, Linking
  <2>2. \A i \in DOMAIN f.chain : f.chain[i].loc = req.blk
    OBVIOUS
  <2> HIDE DEF f
  <2>3. \A p \in DOMAIN tab' : IF p = req.path THEN tab'[p] = f ELSE p \in DOMAIN tab /\ tab'[p] = tab[p]
    BY <2>1
  <2> QED
    BY <2>1, <2>2, <2>3 DEF OldNode, TakenNode
<1>8. CASE LinkBlock
  <2> DEFINE p == req.path
             f == tab[p]
             g == WithBlock(f, req.blk, req.off, req.end)
             n == Len(f.chain)
             node == [loc |-> req.blk, off |-> req.off]
  <2>1. /\ p \in DOMAIN tab /\ f \in CachedFile /\ req.blk \in Blocks /\ req.off \in BlockOffs /\ req.end \in Nat
        /\ tab' = [tab EXCEPT ![p] = g] /\ Linking
    BY <1>1, <1>8 DEF LinkBlock, CallInv, RequestType, BlockOrNone, Linking
  <2> HIDE DEF f, p
  <2>2. g.chain = Append(f.chain, node) /\ g.loc = f.loc
    BY ONLY <2>1, WithBlockType
  <2>3. f.chain \in Seq(ChainNode) /\ n \in Nat /\ DOMAIN f.chain = 1 .. n /\ node \in ChainNode
    BY <2>1, ChainType DEF ChainNode
  <2> HIDE DEF g
  <2>4. /\ DOMAIN g.chain = 1 .. (n + 1) /\ g.chain[n + 1] = node
        /\ \A i \in 1 .. n : g.chain[i] = f.chain[i]
    BY <2>2, <2>3, AppendProperties
  <2>5. node.loc = req.blk
    OBVIOUS
  <2> HIDE DEF n, node
  <2>6. \A i \in DOMAIN g.chain : (i \in DOMAIN f.chain /\ g.chain[i] = f.chain[i]) \/ g.chain[i].loc = req.blk
    BY <2>3, <2>4, <2>5
  <2>7. \A q \in DOMAIN tab' : q \in DOMAIN tab /\ tab'[q] = IF q = p THEN g ELSE tab[q]
    BY <2>1
  <2> QED
    BY <2>1, <2>2, <2>6, <2>7 DEF f, p, OldNode, TakenNode
<1>9. CASE TruncateBlock
  <2> DEFINE p == cut.path
             f == tab[p]
             n == Len(f.chain)
  <2>1. PICK i \in DOMAIN f.chain : tab' = [tab EXCEPT ![p] = WithoutNode(f, i)]
    BY <1>9 DEF TruncateBlock, CutBlock, CutNodes
  <2> DEFINE g == WithoutNode(f, i)
  <2>2. p \in DOMAIN tab /\ f \in CachedFile
    BY <1>1, <1>9 DEF TruncateBlock, CallInv
  <2>3. f.chain \in Seq(ChainNode) /\ n \in Nat /\ DOMAIN f.chain = 1 .. n
    BY <2>2, ChainType
  <2>4. g.chain = RemoveAt(f.chain, i) /\ g.loc = f.loc
    BY <2>2, WithoutNodeType
  <2> HIDE DEF g
  <2>5. /\ DOMAIN g.chain = 1 .. (n - 1)
        /\ \A j \in 1 .. (n - 1) : g.chain[j] = IF j < i THEN f.chain[j] ELSE f.chain[j + 1]
    BY <2>3, <2>4, RemoveAtProperties
  <2>6. \A j \in 1 .. (n - 1) : j \in 1 .. n /\ j + 1 \in 1 .. n
    BY <2>3
  <2>7. \A j \in DOMAIN g.chain : \E k \in DOMAIN f.chain : g.chain[j] = f.chain[k]
    BY <2>3, <2>5, <2>6
  <2>8. \A q \in DOMAIN tab' : q \in DOMAIN tab /\ tab'[q] = IF q = p THEN g ELSE tab[q]
    BY <2>1 DEF g
  <2> QED
    BY <2>4, <2>7, <2>8 DEF OldNode
<1>10. CASE \/ AllocBlock \/ GiveUp \/ NoBlockAfterEviction \/ HeadNotListed \/ LinkAborts \/ LinkToEvicted
            \/ RmBlock \/ RmDone \/ TruncateDone \/ Race
  BY <1>2, <1>10 DEF AllocBlock, GiveUp, NoBlockAfterEviction, HeadNotListed, LinkAborts, LinkToEvicted,
     RmBlock, RmDone, TruncateDone, Race
<1>11. ASSUME NEW p \in Paths, AppendNode(p)
       PROVE  Old
  <2> DEFINE f == [tab[p] EXCEPT !.sn = "listed"]
  <2>1. /\ p \in DOMAIN tab /\ f.chain = tab[p].chain /\ f.loc = tab[p].loc
        /\ tab' = [tab EXCEPT ![p] = f]
    BY <1>1, <1>11 DEF AppendNode, CachedFile
  <2> HIDE DEF f
  <2> QED
    BY <1>4, <2>1
<1> QED
  BY <1>5, <1>6, <1>7, <1>8, <1>9, <1>10, <1>11 DEF Next, CallStep, CutStep, AppendStep

\* Lists of writes without data
NoData(writes) == \A k \in 1 .. Len(writes) : writes[k][1] # "data"

LEMMA NoDataLists ==
  ASSUME NEW b, NEW h
  PROVE  NoData(Return_file_headerWrites(h)) /\ NoData(Return_file_blockWrites(b))
<1>1. ASSUME NEW v, NEW w, v[1] # "data", w[1] # "data"
      PROVE  NoData(<<v, w>>)
  BY <1>1, Elements DEF NoData
<1>2. ASSUME NEW u, NEW v, NEW w, u[1] # "data", v[1] # "data", w[1] # "data"
      PROVE  NoData(<<u, v, w>>)
  BY <1>2, Elements DEF NoData
<1>3. NoData(<<<<"hdr", h>>, <<"mb">>>>) /\ NoData(<<<<"bpn", b>>, <<"mb">>>>)
  BY <1>1
<1>4. NoData(<<<<"linkHdr", mb.hft, h>>, <<"hdr", h>>, <<"mb">>>>)
  BY <1>2
<1>5. NoData(<<<<"link", mb.bft, b>>, <<"bpn", b>>, <<"mb">>>>)
  BY <1>2
<1> QED
  BY <1>3, <1>4, <1>5, Return_file_headerList, Return_file_blockList

LEMMA NoDataTruncate ==
  ASSUME NEW f, NEW i
  PROVE  NoData(TruncateWrites(f, i))
<1> DEFINE b == f.chain[i].loc
           q == f.chain[i - 1].loc
<1>1. CASE ~(i = Len(f.chain) /\ i # 1)
  <2>1. TruncateWrites(f, i) = <<>> \o Return_file_blockWrites(b)
    BY <1>1 DEF TruncateWrites
  <2>2. <<>> \o Return_file_blockWrites(b) = Return_file_blockWrites(b)
    BY DEF Return_file_blockWrites
  <2> QED
    BY <2>1, <2>2, NoDataLists
<1>2. CASE i = Len(f.chain) /\ i # 1
  <2> HIDE DEF b, q
  <2>1. TruncateWrites(f, i) = <<<<"bpn", q>>>> \o Return_file_blockWrites(b)
    BY <1>2 DEF TruncateWrites, b, q
  <2>2. CASE mb.bfl = INVLOC
    <3>1. TruncateWrites(f, i) = <<<<"bpn", q>>, <<"bpn", b>>, <<"mb">>>>
      <4>1. <<<<"bpn", q>>>> \o <<<<"bpn", b>>, <<"mb">>>> = <<<<"bpn", q>>, <<"bpn", b>>, <<"mb">>>>
        BY OneAndTwo
      <4> QED
        BY <2>1, <2>2, <4>1, Return_file_blockList
    <3> QED
      BY <3>1, Elements DEF NoData
  <2>3. CASE mb.bfl # INVLOC
    <3>1. TruncateWrites(f, i) = <<<<"bpn", q>>, <<"link", mb.bft, b>>, <<"bpn", b>>, <<"mb">>>>
      BY <2>1, <2>3, Return_file_blockList, OneAndThree
    <3> DEFINE writes == TruncateWrites(f, i)
    <3> HIDE DEF writes
    <3>2. Len(writes) = 4 /\ \A k \in 1 .. 4 : k = 1 \/ k = 2 \/ k = 3 \/ k = 4
      BY <3>1 DEF writes
    <3>3. NoData(writes)
      BY <3>1, <3>2 DEF NoData, writes
    <3> QED
      BY <3>3 DEF writes
  <2> QED
    BY <2>2, <2>3
<1> QED
  BY <1>1, <1>2

\* A step that hangs no block in a file leaves the data of the cached files.
LEMMA OwnDataKept ==
  ASSUME CrashInv, NEW L, NEW M, NEW X, UpInv(L, M, X), DiskInv(L, M)', MemoryInv',
         NEW writes, Next, Step(writes), Good(writes), Harmless(writes), run' = "up",
         NEW p \in DOMAIN tab', NEW i \in DOMAIN tab'[p].chain, OldNode(p, i)
  PROVE  file'.bytes[tab'[p].chain[i].loc] = p
<1>1. TypeOK /\ CallInv /\ StaleMatches /\ HeaderLengths /\ file \in FileType
  BY DEF CrashInv, MemoryInv
<1>2. Sections' \in SectionsType /\ SameSections(file, Sections)
  BY <1>1, NextSections DEF Step, CrashInv
<1>4. PICK a : Between(writes, a) /\ file' = a[Len(writes)]
  BY <1>1, <1>2, StepFiles DEF Good
<1>5. PICK j \in DOMAIN tab[p].chain : tab'[p].chain[i] = tab[p].chain[j]
  BY DEF OldNode
<1> DEFINE b == tab[p].chain[j].loc
<1>6. p \in DOMAIN tab /\ tab'[p].loc = tab[p].loc /\ tab[p] \in CachedFile
  BY <1>1, TypeParts DEF OldNode
<1>7. b \in Blocks /\ b \in ChainLocs(p)
  BY <1>6, ChainType DEF ChainLocs
<1>8. bpn[b].fhloc = tab[p].loc /\ bpn[b].off = tab[p].chain[j].off
  BY <1>6 DEF UpInv, DiskInv, ChainInv, FileInv, NodesInv
<1>9. NodesInv(L, p)'
  BY DEF DiskInv, ChainInv, FileInv
<1>10. bpn'[tab'[p].chain[i].loc].fhloc = tab'[p].loc /\ bpn'[tab'[p].chain[i].loc].off = tab'[p].chain[i].off
  BY <1>9 DEF NodesInv
<1>11. bpn'[b].fhloc = file.bpn[b].fhloc /\ bpn'[b].off = file.bpn[b].off
  BY <1>2, <1>5, <1>6, <1>8, <1>10 DEF SameSections, Sections
<1>12. OwnData
  BY DEF UpInv
<1> HIDE DEF b
<1>13. a[Len(writes)].bytes[b] = p
  BY <1>2, <1>4, <1>6, <1>7, <1>11, <1>12, WritesKeepData
<1> QED
  BY <1>4, <1>5, <1>13 DEF b

\* The writes of an insert: the block has the data of its file when they are made.
LEMMA InsertWritesData ==
  ASSUME NEW f \in FileType, NEW new \in SectionsType, NEW b \in Blocks, NEW p
  PROVE  /\ Write_cache_off(f, <<"data", b, p>>, new).bytes[b] = p
         /\ \A h : Write_cache_off(f, <<"hdr", h>>, new).bytes[b] = f.bytes[b]
         /\ \A q : q # b => Write_cache_off(f, <<"bpn", q>>, new).bytes[b] = f.bytes[b]
<1>1. f.bytes \in BytesType
  BY DEF FileType
<1>2. Write_cache_off(f, <<"data", b, p>>, new).bytes = [f.bytes EXCEPT ![b] = p]
  BY WriteDataBytes
<1>3. \A h : Write_cache_off(f, <<"hdr", h>>, new).bytes = f.bytes
  BY WriteHdr
<1>4. ASSUME NEW q, q # b
      PROVE  Write_cache_off(f, <<"bpn", q>>, new).bytes[b] = f.bytes[b]
  <2> DEFINE x == IF f.bpn[q].fhloc = new.bpn[q].fhloc /\ f.bpn[q].off = new.bpn[q].off
                  THEN f.bytes[q] ELSE NoPath
  <2>1. Write_cache_off(f, <<"bpn", q>>, new).bytes = [f.bytes EXCEPT ![q] = x]
    BY WriteBpnBytes
  <2> HIDE DEF x
  <2> QED
    BY <1>1, <1>4, <2>1 DEF BytesType
<1> QED
  BY <1>1, <1>2, <1>3, <1>4 DEF BytesType

InsertOf(writes, b, p, q, h) ==
  writes = InsertWrites(b, p, <<>>, h) \/ writes = InsertWrites(b, p, <<<<"bpn", q>>>>, h)

LEMMA InsertedData ==
  ASSUME NEW b \in Blocks, NEW p, NEW q, q # b, NEW h, NEW writes, NEW a, Between(writes, a),
         Sections' \in SectionsType,
         InsertOf(writes, b, p, q, h)
  PROVE  a[Len(writes)].bytes[b] = p
<1>1. CASE writes = InsertWrites(b, p, <<>>, h)
  <2>1. writes = <<<<"bpn", b>>, <<"data", b, p>>, <<"hdr", h>>>>
    BY <1>1, InsertList
  <2>2. Len(writes) = 3 /\ writes[2] = <<"data", b, p>> /\ writes[3] = <<"hdr", h>>
    BY <2>1
  <2>3. /\ a[1] \in FileType /\ a[2] \in FileType
        /\ a[2] = Write_cache_off(a[1], <<"data", b, p>>, Sections')
        /\ a[3] = Write_cache_off(a[2], <<"hdr", h>>, Sections')
    BY <2>2 DEF Between
  <2> QED
    BY <2>2, <2>3, InsertWritesData
<1>2. CASE writes = InsertWrites(b, p, <<<<"bpn", q>>>>, h)
  <2>1. writes = <<<<"bpn", b>>, <<"data", b, p>>, <<"bpn", q>>, <<"hdr", h>>>>
    BY <1>2, InsertList
  <2>2. /\ Len(writes) = 4 /\ writes[2] = <<"data", b, p>> /\ writes[3] = <<"bpn", q>>
        /\ writes[4] = <<"hdr", h>>
    BY <2>1
  <2>3. /\ a[1] \in FileType /\ a[2] \in FileType /\ a[3] \in FileType
        /\ a[2] = Write_cache_off(a[1], <<"data", b, p>>, Sections')
        /\ a[3] = Write_cache_off(a[2], <<"bpn", q>>, Sections')
        /\ a[4] = Write_cache_off(a[3], <<"hdr", h>>, Sections')
    BY <2>2 DEF Between
  <2> QED
    BY <2>2, <2>3, InsertWritesData
<1> QED
  BY <1>1, <1>2 DEF InsertOf

\* The block in hand is in no file.
LEMMA BlockInHand ==
  ASSUME CrashInv, NEW L, NEW M, NEW X, UpInv(L, M, X), req.blk # INVLOC
  PROVE  req.blk \in Blocks /\ \A p \in DOMAIN tab : req.blk \notin ChainLocs(p)
<1>1. TypeOK /\ CallInv /\ ChainInv(L) /\ FreeInv(L)
  BY DEF CrashInv, MemoryInv, UpInv, DiskInv
<1>2. req.blk \in Blocks
  BY <1>1, TypeParts DEF RequestType, BlockOrNone
<1>3. bpn[req.blk].fhloc = INVLOC
  BY <1>1 DEF FreeInv
<1>4. ASSUME NEW p \in DOMAIN tab
      PROVE  req.blk \notin ChainLocs(p)
  <2>1. \A b \in ChainLocs(p) : bpn[b].fhloc = tab[p].loc
    BY <1>1 DEF ChainInv, FileInv, NodesInv, ChainLocs
  <2>2. tab[p].loc # INVLOC
    BY <1>1, TypeParts, LocsAreNat DEF CachedFile
  <2> QED
    BY <1>3, <2>1, <2>2
<1> QED
  BY <1>2, <1>4

LEMMA NoDataHarmless ==
  ASSUME NEW writes, NoData(writes)
  PROVE  Harmless(writes)
  BY DEF NoData, Harmless

LEMMA OwnDataStep ==
  ASSUME CrashInv, NEW L, NEW M, NEW X, UpInv(L, M, X), DiskInv(L, M)', MemoryInv',
         CrashNext, run = "up", run' = "up"
  PROVE  OwnData'
<1> USE TypeParts
<1>0. TypeOK /\ CallInv /\ StaleMatches /\ HeaderLengths /\ file \in FileType
  BY DEF CrashInv, MemoryInv
<1>1. Next
  BY <1>0, WritesKnown DEF Writing, TailAsserts, Kill, Init_RSC_table_m
<1>2. Sections' \in SectionsType
  BY <1>0, <1>1, NextSections
<1>3. \A p \in DOMAIN tab' : \A i \in DOMAIN tab'[p].chain : OldNode(p, i) \/ TakenNode(p, i)
  BY <1>0, <1>1, NodesStep
<1>4. ASSUME NEW writes, Step(writes), Good(writes), Harmless(writes), ~Linking
      PROVE  OwnData'
  <2>1. ASSUME NEW p \in DOMAIN tab', NEW i \in DOMAIN tab'[p].chain
        PROVE  file'.bytes[tab'[p].chain[i].loc] = p
    <3>1. OldNode(p, i)
      BY <1>3, <1>4 DEF TakenNode
    <3> QED
      BY <1>1, <1>4, <3>1, OwnDataKept
  <2> QED
    BY <2>1 DEF OwnData, ChainLocs
<1>5. ASSUME NEW writes, Step(writes), Good(writes), NoData(writes), ~Linking
      PROVE  OwnData'
  BY <1>4, <1>5, NoDataHarmless
<1>6. ASSUME Step(<<>>), ~Linking
      PROVE  OwnData'
  <2>1. Len(<<>>) = 0 /\ Len(<<>>) \in Nat /\ 1 .. Len(<<>>) = {}
    OBVIOUS
  <2>2. Good(<<>>) /\ NoData(<<>>)
    BY <2>1 DEF Good, NoData
  <2> QED
    BY <1>5, <1>6, <2>2
<1>7. ASSUME NEW w, GoodWrite(w), w[1] # "data", Step(<<w>>), ~Linking
      PROVE  OwnData'
  <2>1. Len(<<w>>) = 1 /\ Len(<<w>>) \in Nat /\ \A k \in 1 .. Len(<<w>>) : <<w>>[k] = w
    OBVIOUS
  <2>2. Good(<<w>>) /\ NoData(<<w>>)
    BY <1>7, <2>1 DEF Good, NoData
  <2> QED
    BY <1>5, <1>7, <2>2
<1>8. GoodWrite(<<"mb">>) /\ \A x : GoodWrite(<<"hdr", x>>) /\ GoodWrite(<<"bpn", x>>) /\ \A p \in Paths : GoodWrite(<<"data", x, p>>)
  BY GoodWrites
<1>9. \A writes : Complete(writes) => Good(writes)
  BY DEF Complete, Good
<1>10. ASSUME NEW h \in Headers, NEW p, Return_file_header(h, p), bpn' = bpn, ~Linking,
              Step(Return_file_headerWrites(h))
       PROVE  OwnData'
  BY <1>0, <1>2, <1>5, <1>9, <1>10, HeaderReturnedWrites, NoDataLists
<1>11. \A p \in DOMAIN tab : tab[p] \in CachedFile /\ tab[p].loc \in Headers /\ p \in Paths
  BY <1>0 DEF CachedFile
<1>12. ASSUME NEW p \in DOMAIN tab, RemoveFile(p), Step(Return_file_headerWrites(tab[p].loc))
       PROVE  OwnData'
  <2>1. ~Linking /\ Return_file_header(tab[p].loc, p) /\ bpn' = bpn
    BY <1>12 DEF RemoveFile, Linking
  <2> QED
    BY <1>10, <1>11, <1>12, <2>1
<1>13. CASE Inserts
  <2> SUFFICES ASSUME NEW p \in Paths, NEW off \in BlockOffs,
                      \/ InsertNewFile(p, off, CBlkSize) /\ Step(Alloc_file_headerWrites)
                      \/ /\ \E flag \in InsertFlags : InsertBlock(p, off, CBlkSize, flag)
                         /\ Step(<<>>)
                      \/ /\ OverwriteBlock(p, off, off + CBlkSize)
                         /\ \E i \in DOMAIN tab[p].chain :
                              /\ tab[p].chain[i].off = off
                              /\ Step(<<<<"data", tab[p].chain[i].loc, p>>, <<"hdr", tab[p].loc>>>>)
               PROVE  OwnData'
    BY <1>13 DEF Inserts
  <2>0. ~Linking
    BY <1>13 DEF Inserts, InsertNewFile, InsertBlock, OverwriteBlock, Linking
  <2>1. CASE InsertNewFile(p, off, CBlkSize) /\ Step(Alloc_file_headerWrites)
    <3>1. Good(Alloc_file_headerWrites)
      BY <1>8, GoodLists DEF Alloc_file_headerWrites
    <3>2. NoData(Alloc_file_headerWrites)
      BY Elements DEF Alloc_file_headerWrites, NoData
    <3> QED
      BY <1>5, <2>0, <2>1, <3>1, <3>2
  <2>2. CASE Step(<<>>)
    BY <1>6, <2>0, <2>2
  <2>3. ASSUME OverwriteBlock(p, off, off + CBlkSize), NEW i \in DOMAIN tab[p].chain,
               Step(<<<<"data", tab[p].chain[i].loc, p>>, <<"hdr", tab[p].loc>>>>)
        PROVE  OwnData'
    <3> DEFINE b == tab[p].chain[i].loc
               h == tab[p].loc
    <3>1. p \in DOMAIN tab /\ OwnData
      BY <2>3 DEF OverwriteBlock, UpInv
    <3>2. \A q \in DOMAIN tab : b \in ChainLocs(q) => q = p
      BY <3>1 DEF OwnData, ChainLocs
    <3>3. Step(<<<<"data", b, p>>, <<"hdr", h>>>>)
      BY <2>3
    <3> HIDE DEF b, h
    <3>4. Good(<<<<"data", b, p>>, <<"hdr", h>>>>)
      BY <1>8, GoodLists
    <3>5. Harmless(<<<<"data", b, p>>, <<"hdr", h>>>>)
      BY <3>2, Elements DEF Harmless
    <3> QED
      BY <1>4, <2>0, <3>3, <3>4, <3>5
  <2> QED
    BY <2>1, <2>2, <2>3
<1>14. CASE AllocSteps
  <2>1. CASE AllocBlock /\ Step(<<<<"mb">>>>)
    <3>1. ~Linking
      BY <2>1 DEF AllocBlock, Linking
    <3> QED
      BY <1>7, <1>8, <2>1, <3>1
  <2>2. CASE GiveUp /\ Step(IF req.hdr = INVLOC THEN <<>> ELSE Return_file_headerWrites(req.hdr))
    <3>1. ~Linking
      BY <2>2 DEF GiveUp, Linking
    <3>2. CASE req.hdr = INVLOC
      BY <1>6, <2>2, <3>1, <3>2
    <3>3. CASE req.hdr # INVLOC
      <4>1. req.hdr \in Headers
        BY <1>0, <3>3 DEF RequestType, HeaderOrNone
      <4>2. Return_file_header(req.hdr, req.path) /\ bpn' = bpn /\ Step(Return_file_headerWrites(req.hdr))
        BY <2>2, <3>3 DEF GiveUp
      <4> QED
        BY <1>10, <3>1, <4>1, <4>2
    <3> QED
      BY <3>2, <3>3
  <2>3. CASE Evict /\ Step(Return_file_headerWrites(tab[Head(stale)].loc))
    <3>1. Head(stale) \in DOMAIN tab /\ RemoveFile(Head(stale))
      BY <1>0, <2>3, StaleHead DEF Evict
    <3> QED
      BY <1>12, <2>3, <3>1
  <2>4. CASE (NoBlockAfterEviction \/ HeadNotListed) /\ Step(<<>>)
    BY <1>6, <2>4 DEF NoBlockAfterEviction, HeadNotListed, Linking
  <2> QED
    BY <1>14, <2>1, <2>2, <2>3, <2>4 DEF AllocSteps
<1>15. ASSUME req.blk # INVLOC, req.path \in Paths, NEW q, q # req.blk, NEW h, NEW writes, Step(writes),
              \/ writes = InsertWrites(req.blk, req.path, <<>>, h)
              \/ writes = InsertWrites(req.blk, req.path, <<<<"bpn", q>>>>, h)
       PROVE  OwnData'
  <2> DEFINE b == req.blk
  <2>1. b \in Blocks /\ \A p \in DOMAIN tab : b \notin ChainLocs(p)
    BY <1>15, BlockInHand
  <2>2. Good(writes)
    BY <1>15, GoodInsert
  <2>3. Harmless(writes)
    <3>1. \A k \in 1 .. Len(writes) : writes[k][1] = "data" => writes[k][2] = b
      <4> HIDE DEF b
      <4>1. CASE writes = <<<<"bpn", b>>, <<"data", b, req.path>>, <<"hdr", h>>>>
        BY <4>1, Elements
      <4>2. CASE writes = <<<<"bpn", b>>, <<"data", b, req.path>>, <<"bpn", q>>, <<"hdr", h>>>>
        <5>1. Len(writes) = 4 /\ \A k \in 1 .. 4 : k = 1 \/ k = 2 \/ k = 3 \/ k = 4
          BY <4>2
        <5> QED
          BY <4>2, <5>1
      <4> QED
        BY <1>15, <4>1, <4>2, InsertList DEF b
    <3> QED
      BY <2>1, <3>1 DEF Harmless
  <2>4. PICK a : Between(writes, a) /\ file' = a[Len(writes)]
    BY <1>0, <1>2, <1>15, <2>2, StepFiles DEF Good
  <2> DEFINE p0 == req.path
  <2>50. q # b /\ InsertOf(writes, b, p0, q, h)
    BY <1>15 DEF InsertOf
  <2> HIDE DEF b, p0
  <2>51. a[Len(writes)].bytes[b] = p0
    BY ONLY <1>2, <2>1, <2>4, <2>50, InsertedData
  <2>5. file'.bytes[b] = req.path
    BY <2>4, <2>51 DEF p0
  <2>6. ASSUME NEW p \in DOMAIN tab', NEW i \in DOMAIN tab'[p].chain
        PROVE  file'.bytes[tab'[p].chain[i].loc] = p
    <3>1. CASE OldNode(p, i)
      BY <1>1, <1>15, <2>2, <2>3, <3>1, OwnDataKept
    <3>2. CASE TakenNode(p, i)
      BY <2>5, <3>2 DEF TakenNode, b
    <3> QED
      BY <1>3, <3>1, <3>2
  <2> QED
    BY <2>6 DEF OwnData, ChainLocs
<1>16. CASE LinkSteps
  <2>1. CASE LinkNewFile /\ Step(InsertWrites(req.blk, req.path, <<>>, req.hdr))
    <3>1. req.blk # INVLOC /\ req.path \in Paths
      BY <1>0, <2>1 DEF LinkNewFile, CallInv
    <3>2. req.blk + 1 # req.blk
      BY <1>0, <3>1, LocsAreNat DEF RequestType, BlockOrNone
    <3> QED
      BY <1>15, <2>1, <3>1, <3>2
  <2>2. CASE LinkBlock /\ Step(LET f == tab[req.path]
                                   prev == IF f.chain = <<>> THEN <<>> ELSE <<<<"bpn", Last(f.chain).loc>>>>
                               IN InsertWrites(req.blk, req.path, prev, f.loc))
    <3> DEFINE f == tab[req.path]
    <3>1. req.blk # INVLOC /\ req.path \in Paths /\ req.path \in DOMAIN tab /\ f \in CachedFile
      BY <1>0, <1>11, <2>2 DEF LinkBlock, CallInv
    <3>2. CASE f.chain = <<>>
      <4>1. Step(InsertWrites(req.blk, req.path, <<>>, f.loc))
        BY <2>2, <3>2
      <4>2. req.blk + 1 # req.blk
        BY <1>0, <3>1, LocsAreNat DEF RequestType, BlockOrNone
      <4> QED
        BY <1>15, <3>1, <4>1, <4>2
    <3>3. CASE f.chain # <<>>
      <4> DEFINE q == Last(f.chain).loc
      <4>1. Step(InsertWrites(req.blk, req.path, <<<<"bpn", q>>>>, f.loc))
        BY <2>2, <3>3
      <4>2. q \in ChainLocs(req.path)
        <5>1. Len(f.chain) \in DOMAIN f.chain
          BY <3>1, <3>3, ChainType
        <5> QED
          BY <5>1 DEF Last, ChainLocs
      <4>3. q # req.blk
        BY <3>1, <4>2, BlockInHand
      <4> QED
        BY <1>15, <3>1, <4>1, <4>3
    <3> QED
      BY <3>2, <3>3
  <2>3. CASE (LinkAborts \/ LinkToEvicted) /\ Step(<<>>)
    BY <1>6, <2>3 DEF LinkAborts, LinkToEvicted, Linking
  <2> QED
    BY <1>16, <2>1, <2>2, <2>3 DEF LinkSteps
<1>17. CASE Removes
  <2>1. ASSUME NEW p \in Paths, Rm(p), Step(Return_file_headerWrites(tab[p].loc))
        PROVE  OwnData'
    BY <1>12, <2>1 DEF Rm
  <2>2. CASE RmBlock /\ Step(Return_file_blockWrites(walk))
    <3>1. walk \in Blocks /\ Return_file_block(walk) /\ hdr' = hdr /\ ~Linking
      BY <1>0, <2>2 DEF RmBlock, BlockOrNone, Linking
    <3>2. Complete(Return_file_blockWrites(walk))
      BY <1>0, <1>2, <3>1, BlockReturnedWrites
    <3> QED
      BY <1>5, <1>9, <2>2, <3>1, <3>2, NoDataLists
  <2>3. CASE RmDone /\ Step(<<>>)
    BY <1>6, <2>3 DEF RmDone, Linking
  <2> QED
    BY <1>17, <2>1, <2>2, <2>3 DEF Removes
<1>18. CASE Truncates
  <2>1. ASSUME NEW p \in Paths, NEW off \in TruncateOffs, TruncateStart(p, off), Step(<<>>)
        PROVE  OwnData'
    BY <1>6, <2>1 DEF TruncateStart, Linking
  <2>2. ASSUME TruncateBlock, NEW i \in CutNodes, CutBlock(i), Step(TruncateWrites(tab[cut.path], i))
        PROVE  OwnData'
    <3> DEFINE f == tab[cut.path]
    <3>1. cut.path \in DOMAIN tab /\ hdr' = hdr /\ ~Linking
      BY <1>0, <2>2 DEF TruncateBlock, CallInv, Linking
    <3>2. f \in CachedFile /\ i \in DOMAIN f.chain
      BY <1>11, <3>1 DEF CutNodes
    <3>3. /\ mb' = MbWithBlock(mb, f.chain[i].loc)
          /\ bpn' = NodesWithFree(mb, NodesWithoutLast(f, i), f.chain[i].loc)
      BY <2>2 DEF CutBlock
    <3>4. Complete(TruncateWrites(f, i))
      BY <1>0, <1>2, <3>1, <3>2, <3>3, BlockCutWrites
    <3> HIDE DEF f
    <3>5. NoData(TruncateWrites(f, i))
      BY NoDataTruncate
    <3> QED
      BY <1>5, <1>9, <2>2, <3>1, <3>4, <3>5 DEF f
  <2>3. CASE TruncateDone /\ Step(<<<<"hdr", tab[cut.path].loc>>>>)
    <3>1. ~Linking
      BY <2>3 DEF TruncateDone, Linking
    <3> QED
      BY <1>7, <1>8, <2>3, <3>1
  <2> QED
    BY <1>18, <2>1, <2>2, <2>3 DEF Truncates
<1>19. CASE OpensAndCloses
  <2>1. ~Linking
    BY <1>19 DEF OpensAndCloses, AppendStep, AppendNode, Append_to_stale_list, Rm_file_from_stale_list,
                 NodeNotListed, Linking
  <2> QED
    BY <1>6, <1>19, <2>1 DEF OpensAndCloses
<1> QED
  BY <1>13, <1>14, <1>16, <1>17, <1>18, <1>19 DEF CrashNext, TailAsserts, Kill, Init_RSC_table_m

-----------------------------------------------------------------------------
(* What a start would read while a truncation is in progress.              *)

\* Following next from first leads only to blocks of S, of which those that name
\* a file are among locs.
Reached(nodes, locs, S, first) ==
  /\ S \subseteq Blocks /\ first \in S \cup {INVLOC}
  /\ \A b \in S : /\ nodes[b].next \in S \cup {INVLOC}
                  /\ nodes[b].fhloc = INVLOC \/ b \in locs

\* From the header of the truncated file, which is written last, they are the
\* blocks that are still the file's, and those that were returned.
CutReach ==
  cut # NoCut =>
    LET x == hdr[tab[cut.path].loc] IN
    /\ pc = "idle" /\ x.path = cut.path
    /\ \E S : Reached(bpn, ChainLocs(cut.path), S, x.nodeHeader)

\* From the header of any other file, the blocks of the file.
LEMMA FileReached ==
  ASSUME NEW L, NEW M, NEW X, MemoryInv, UpInv(L, M, X), NEW p \in DOMAIN tab, p # cut.path
  PROVE  LET x == hdr[tab[p].loc] IN
         x.path = p /\ Reached(bpn, ChainLocs(p), ChainLocs(p), x.nodeHeader)
<1> DEFINE c == tab[p].chain
           n == Len(c)
           x == hdr[tab[p].loc]
<1>1. tab[p] \in CachedFile
  BY TypeParts DEF MemoryInv
<1>2. LinksInv(p) /\ x = HeaderOf(p, tab[p]) /\ HeadTail(tab[p], X)
  BY DEF UpInv, DiskInv, ChainInv, FileInv, HeadsMatch
<1>3. n \in Nat /\ DOMAIN c = 1 .. n /\ (c # <<>> <=> n # 0) /\ \A i \in 1 .. n : c[i].loc \in Blocks
  BY <1>1, ChainType
<1>4. ChainLocs(p) = {c[i].loc : i \in 1 .. n}
  BY <1>3 DEF ChainLocs
<1>5. x.path = p /\ x.nodeHeader = tab[p].nodeHeader
  BY <1>2 DEF HeaderOf
<1>6. x.nodeHeader \in ChainLocs(p) \cup {INVLOC}
  <2>1. CASE c = <<>>
    BY <1>2, <1>5, <2>1 DEF HeadTail
  <2>2. CASE c # <<>>
    <3>1. 1 \in 1 .. n
      BY <1>3, <2>2
    <3> QED
      BY <1>2, <1>4, <1>5, <2>2, <3>1 DEF HeadTail
  <2> QED
    BY <2>1, <2>2
<1>7. \A i \in 1 .. n : bpn[c[i].loc].next = IF i = n THEN INVLOC ELSE c[i + 1].loc
  BY <1>2, <1>3 DEF LinksInv, Kept
<1> HIDE DEF c, n, x
<1>8. \A i \in 1 .. n : i # n => i + 1 \in 1 .. n
  BY <1>3
<1>9. \A b \in ChainLocs(p) : bpn[b].next \in ChainLocs(p) \cup {INVLOC}
  BY <1>4, <1>7, <1>8
<1>10. ChainLocs(p) \subseteq Blocks
  BY <1>3, <1>4
<1> QED
  BY <1>5, <1>6, <1>9, <1>10 DEF Reached, x

\* A node that the truncation has not unlinked stays in the list.
LEMMA NodesLeft ==
  ASSUME TypeOK, CallInv, cut # NoCut, cut' = cut, NEW i \in CutNodes, CutBlock(i)
  PROVE  LET p == cut.path b == tab[p].chain[i].loc IN
         /\ p \in DOMAIN tab /\ b \in Blocks /\ tab'[p].loc = tab[p].loc
         /\ b \in ChainLocs(p) /\ ChainLocs(p) \ {b} \subseteq ChainLocs(p)'
<1> DEFINE p == cut.path
           c == tab[p].chain
           n == Len(c)
           d == RemoveAt(c, i)
           b == c[i].loc
<1>1. p \in DOMAIN tab /\ tab[p] \in CachedFile /\ i \in DOMAIN c
  BY TypeParts DEF CallInv, CutNodes
<1>2. /\ c \in Seq(ChainNode) /\ n \in Nat /\ DOMAIN c = 1 .. n /\ i \in 1 .. n
      /\ \A j \in 1 .. n : c[j].loc \in Blocks
  BY <1>1, ChainType
<1>3. /\ DOMAIN d = 1 .. (n - 1)
      /\ \A j \in 1 .. (n - 1) : d[j] = IF j < i THEN c[j] ELSE c[j + 1]
  BY <1>2, RemoveAtProperties
<1>4. tab'[p].chain = d /\ tab'[p].loc = tab[p].loc
  BY <1>1, WithoutNodeType DEF CutBlock
<1>5. ChainLocs(p)' = {d[j].loc : j \in 1 .. (n - 1)} /\ ChainLocs(p) = {c[j].loc : j \in 1 .. n}
  <2>1. ChainLocs(p)' = {tab'[p].chain[j].loc : j \in DOMAIN tab'[p].chain}
    BY DEF ChainLocs
  <2>2. ChainLocs(p) = {c[j].loc : j \in DOMAIN c}
    BY DEF ChainLocs
  <2> HIDE DEF c, d
  <2> QED
    BY <1>2, <1>3, <1>4, <2>1, <2>2
<1>6. ASSUME NEW k \in 1 .. n, k # i
      PROVE  \E j \in 1 .. (n - 1) : d[j] = c[k]
  <2>1. CASE k < i
    <3>1. k \in 1 .. (n - 1)
      BY <1>2, <2>1
    <3> QED
      BY <1>3, <2>1, <3>1
  <2>2. CASE ~(k < i)
    <3>1. k - 1 \in 1 .. (n - 1) /\ ~(k - 1 < i) /\ (k - 1) + 1 = k
      BY <1>2, <1>6, <2>2
    <3> QED
      BY <1>3, <3>1
  <2> QED
    BY <2>1, <2>2
<1>7. \A k \in 1 .. n : c[k].loc # b => \E j \in 1 .. (n - 1) : d[j].loc = c[k].loc
  BY <1>6
<1> HIDE DEF c, d, n
<1> QED
  BY <1>1, <1>2, <1>4, <1>5, <1>7 DEF c

\* The node that joins the stale list takes nothing from the file's blocks.
LEMMA AppendNodeKeeps ==
  ASSUME TypeOK, NEW p \in Paths, AppendNode(p)
  PROVE  /\ UNCHANGED <<disk, pc, req, walk, cut>> /\ DOMAIN tab' = DOMAIN tab
         /\ \A q \in DOMAIN tab : tab'[q].loc = tab[q].loc /\ tab'[q].chain = tab[q].chain
<1>1. \A q \in DOMAIN tab : tab[q] \in CachedFile
  BY TypeParts
<1> QED
  BY <1>1 DEF AppendNode, CachedFile

LEMMA CutReachStep ==
  ASSUME NEW L, NEW M, NEW X, CrashInv, UpInv(L, M, X), CutReach, CrashNext
  PROVE  CutReach'
<1>1. MemoryInv /\ TypeOK /\ CallInv
  BY DEF CrashInv, MemoryInv
<1>2. ASSUME cut = NoCut, cut' = cut
      PROVE  CutReach'
  BY <1>2 DEF CutReach
<1>3. pc # "idle" => cut = NoCut
  BY DEF CutReach
<1>4. CASE Inserts
  BY <1>2, <1>4 DEF Inserts, InsertNewFile, InsertBlock, OverwriteBlock
<1>5. CASE AllocSteps \/ LinkSteps
  <2>1. pc # "idle" /\ cut' = cut
    BY <1>5 DEF AllocSteps, LinkSteps, AllocBlock, GiveUp, Evict, NoBlockAfterEviction,
                HeadNotListed, LinkNewFile, LinkBlock, LinkAborts, LinkToEvicted
  <2> QED
    BY <1>2, <1>3, <2>1
<1>6. CASE Removes
  <2>1. (cut = NoCut \/ pc # "idle") /\ cut' = cut
    BY <1>6 DEF Removes, Rm, RmBlock, RmDone
  <2> QED
    BY <1>2, <1>3, <2>1
<1>7. CASE OpensAndCloses
  <2>1. CASE AppendStep
    BY <1>1, <2>1, AppendNodeKeeps DEF AppendStep, CallInv, CutReach, ChainLocs, disk
  <2> QED
    BY <1>2, <1>7, <2>1 DEF OpensAndCloses, Append_to_stale_list, Rm_file_from_stale_list, NodeNotListed
<1>8. CASE TailAsserts
  BY <1>2, <1>8 DEF TailAsserts, vars
<1>9. CASE Kill
  BY <1>9 DEF Kill, CutReach
<1>10. CASE Init_RSC_table_m
  BY <1>2, <1>10 DEF Init_RSC_table_m, CrashInv, Bare
<1>11. CASE Truncates
  <2>1. ASSUME NEW p \in Paths, NEW off \in TruncateOffs, TruncateStart(p, off)
        PROVE  CutReach'
    <3>1. /\ p \in DOMAIN tab /\ pc = "idle" /\ cut = NoCut /\ cut'.path = p /\ pc' = pc /\ hdr' = hdr /\ bpn' = bpn
          /\ tab' = [tab EXCEPT ![p].fileoff = off]
      BY <2>1 DEF TruncateStart, disk
    <3>2. tab[p] \in CachedFile /\ p # cut.path
      BY <1>1, <3>1, TypeParts, RSCAssumption DEF NoCut
    <3>3. tab'[p].loc = tab[p].loc /\ tab'[p].chain = tab[p].chain
      BY <3>1, <3>2 DEF CachedFile
    <3>4. ChainLocs(p)' = ChainLocs(p)
      BY <3>3 DEF ChainLocs
    <3>5. hdr[tab[p].loc].path = p /\ Reached(bpn, ChainLocs(p), ChainLocs(p), hdr[tab[p].loc].nodeHeader)
      BY <1>1, <3>1, <3>2, FileReached
    <3> QED
      BY <3>1, <3>3, <3>4, <3>5 DEF CutReach
  <2>2. ASSUME TruncateBlock, NEW i \in CutNodes, CutBlock(i)
        PROVE  CutReach'
    <3> DEFINE p == cut.path
               b == tab[p].chain[i].loc
               nodes == NodesWithoutLast(tab[p], i)
               first == hdr[tab[p].loc].nodeHeader
    <3>1. cut # NoCut /\ cut' = cut /\ pc' = pc /\ hdr' = hdr /\ bpn' = NodesWithFree(mb, nodes, b)
      BY <2>2 DEF TruncateBlock, CutBlock
    <3>2. /\ p \in DOMAIN tab /\ b \in Blocks /\ tab'[p].loc = tab[p].loc
          /\ b \in ChainLocs(p) /\ ChainLocs(p) \ {b} \subseteq ChainLocs(p)'
      BY <1>1, <2>2, <3>1, NodesLeft
    <3>3. PICK S : Reached(bpn, ChainLocs(p), S, first)
      BY <3>1 DEF CutReach
    <3>4. pc = "idle" /\ hdr[tab[p].loc].path = p
      BY <3>1 DEF CutReach
    <3> DEFINE next(x) == {bpn[x].next, INVLOC, b}
    <3>5. nodes \in [Blocks -> NodeType] /\ \A x \in Blocks : nodes[x].fhloc = bpn[x].fhloc /\ nodes[x].next \in {bpn[x].next, INVLOC}
      <4>1. bpn \in [Blocks -> NodeType]
        BY <1>1, TypeParts
      <4> DEFINE q == tab[p].chain[i - 1].loc
      <4>2. nodes = bpn \/ nodes = [bpn EXCEPT ![q].next = INVLOC]
        BY DEF NodesWithoutLast
      <4> HIDE DEF nodes, q
      <4> QED
        BY <4>1, <4>2 DEF NodeType, BlockOrNone
    <3> HIDE DEF nodes, b, p
    <3>6. /\ bpn'[b] = FreeNode
          /\ \A x \in Blocks : x # b => bpn'[x].fhloc = bpn[x].fhloc /\ bpn'[x].next \in next(x)
      <4>1. CASE mb.bfl = INVLOC
        BY <3>1, <3>2, <3>5, <4>1 DEF NodesWithFree
      <4>2. CASE mb.bfl # INVLOC
        <5> DEFINE t == mb.bft
        <5>1. bpn' = [nodes EXCEPT ![t].next = b, ![b] = FreeNode]
          BY <3>1, <4>2 DEF NodesWithFree
        <5> HIDE DEF t
        <5> QED
          BY <3>2, <3>5, <5>1 DEF NodeType
      <4> QED
        BY <4>1, <4>2
    <3>7. Reached(bpn', ChainLocs(p)', S \cup {b}, first)
      <4>1. /\ S \subseteq Blocks /\ first \in S \cup {INVLOC}
            /\ \A x \in S : bpn[x].next \in S \cup {INVLOC} /\ (bpn[x].fhloc = INVLOC \/ x \in ChainLocs(p))
        BY <3>3 DEF Reached
      <4>2. bpn'[b].next = INVLOC /\ bpn'[b].fhloc = INVLOC
        BY <3>6 DEF FreeNode
      <4>3. ASSUME NEW x \in S, x # b
            PROVE  /\ bpn'[x].next \in (S \cup {b}) \cup {INVLOC}
                   /\ bpn'[x].fhloc = INVLOC \/ x \in ChainLocs(p)'
        BY <3>2, <3>6, <4>1, <4>3
      <4> HIDE DEF first
      <4> QED
        BY <3>2, <4>1, <4>2, <4>3 DEF Reached
    <3> QED
      BY <3>1, <3>2, <3>4, <3>7 DEF CutReach, p
  <2>3. ASSUME TruncateDone
        PROVE  CutReach'
    BY <2>3 DEF TruncateDone, CutReach
  <2> QED
    BY <1>11, <2>1, <2>2, <2>3 DEF Truncates
<1> QED
  BY <1>4, <1>5, <1>6, <1>7, <1>8, <1>9, <1>10, <1>11 DEF CrashNext

\* What a walk of a start visits
LEMMA WalkReaches ==
  ASSUME file \in FileType, NEW first \in BlockOrNone, NEW S, NEW locs,
         Reached(file.bpn, locs, S, first)
  PROVE  Range(WalkFrom(first)) \subseteq S
<1> DEFINE D == {s \in Seq(Blocks) : \A i \in DOMAIN s : s[i] \in S}
<1>1. PICK w : Walking(first, w) /\ WalkFrom(first) = w[NumBlocks]
  BY WalkDefined
<1>2. NumBlocks \in Nat
  BY RSCAssumption
<1>3. S \subseteq Blocks /\ first \in S \cup {INVLOC} /\ \A b \in S : file.bpn[b].next \in S \cup {INVLOC}
  BY DEF Reached
<1>4. w[0] \in D
  <2>1. CASE first = INVLOC
    <3>1. w[0] = <<>>
      BY <1>1, <2>1 DEF Walking, WalkStart
    <3> QED
      BY <3>1
  <2>2. CASE first # INVLOC
    <3>1. w[0] = <<first>> /\ first \in S
      BY <1>1, <1>3, <2>2 DEF Walking, WalkStart
    <3> QED
      BY <1>3, <3>1
  <2> QED
    BY <2>1, <2>2
<1>5. ASSUME NEW k \in 1 .. NumBlocks, w[k - 1] \in D
      PROVE  w[k] \in D
  <2> DEFINE s == w[k - 1]
             n == file.bpn[s[k]].next
  <2>1. s \in Seq(Blocks) /\ (\A i \in DOMAIN s : s[i] \in S) /\ w[k] = WalkStep(s, k)
    BY <1>1, <1>5 DEF Walking
  <2>2. CASE Len(s) < k \/ n = INVLOC
    BY <2>1, <2>2 DEF WalkStep
  <2>3. CASE ~(Len(s) < k) /\ n # INVLOC
    <3>1. Len(s) \in Nat /\ DOMAIN s = 1 .. Len(s) /\ k \in 1 .. Len(s)
      BY <2>1, <2>3, LenProperties
    <3>2. n \in S
      BY <1>3, <2>1, <2>3, <3>1
    <3>3. w[k] = Append(s, n)
      BY <2>1, <2>3 DEF WalkStep
    <3> HIDE DEF n, s
    <3>4. /\ w[k] \in Seq(Blocks) /\ DOMAIN w[k] = 1 .. (Len(s) + 1) /\ w[k][Len(s) + 1] = n
          /\ \A i \in 1 .. Len(s) : w[k][i] = s[i]
      BY <1>3, <2>1, <3>1, <3>2, <3>3, AppendProperties
    <3>5. \A i \in 1 .. (Len(s) + 1) : i \in 1 .. Len(s) \/ i = Len(s) + 1
      BY <3>1
    <3> QED
      BY <2>1, <3>1, <3>2, <3>4, <3>5
  <2> QED
    BY <2>2, <2>3
<1> HIDE DEF D
<1>6. NumBlocks \in 0 .. NumBlocks /\ w[NumBlocks] \in D
  <2>1. \A k \in 0 .. NumBlocks : w[k] \in D
    BY <1>2, <1>4, <1>5, StaysIn
  <2> QED
    BY <1>2, <2>1
<1> QED
  BY <1>1, <1>6 DEF D, Range

\* While the program runs, the blocks that a start would read of a file and that
\* name one have that file's data, also in the middle of a truncation.
LEMMA RunningBytes ==
  ASSUME NEW L, NEW M, NEW X, CrashInv, UpInv(L, M, X), CutReach, run = "up",
         NEW h \in HeadersInUse, NEW b \in Range(DiskChain(h)), file.bpn[b].fhloc # INVLOC
  PROVE  file.bytes[b] = file.hdr[h].path
<1>1. MemoryInv /\ TypeOK /\ CallInv /\ file \in FileType /\ file.hdr = hdr /\ file.bpn = bpn
  BY DEF CrashInv, MemoryInv, SameSections, Sections
<1>2. h \in Headers /\ hdr[h].nodeHeader # INVLOC
  BY <1>1 DEF HeadersInUse
<1>3. PICK p \in DOMAIN tab : tab[p].loc = h
  BY <1>2 DEF UpInv, UnusedHeaders
<1>4. hdr[h].path = p /\ \E S : Reached(bpn, ChainLocs(p), S, hdr[h].nodeHeader)
  <2>1. CASE p = cut.path
    <3>1. cut # NoCut
      BY <1>1, <2>1, TypeParts, RSCAssumption DEF NoCut
    <3> QED
      BY <1>3, <2>1, <3>1 DEF CutReach
  <2>2. CASE p # cut.path
    BY <1>1, <1>3, <2>2, FileReached
  <2> QED
    BY <2>1, <2>2
<1>5. PICK S : Reached(file.bpn, ChainLocs(p), S, file.hdr[h].nodeHeader)
  BY <1>1, <1>4
<1>6. file.hdr[h].nodeHeader \in BlockOrNone
  BY <1>5 DEF Reached, BlockOrNone
<1>7. b \in S
  BY <1>1, <1>5, <1>6, WalkReaches DEF DiskChain
<1>8. b \in ChainLocs(p)
  BY <1>5, <1>7 DEF Reached
<1> QED
  BY <1>1, <1>4, <1>8 DEF UpInv, OwnData

-----------------------------------------------------------------------------
(* The lists across stops and starts, but for the stops that leave a free  *)
(* list or a truncation half done.                                         *)

Clean == torn \cap {"list", "cut"} = {}

NoneShared == \A p, q \in DOMAIN tab : p # q => ChainLocs(p) \cap ChainLocs(q) = {}

UpWell(X) == \E L, M : UpInv(L, M, X)

FileWell(X) == \E F, G, C : FileLists(file, F, G, C, X)

\* A running program has the lists, and between a stop and the start that
\* follows it the cache file has them.
CrashDisk ==
  Clean => /\ NoneShared /\ CutReach
           /\ run = "up" => UpWell(torn \cap {"header"})
           /\ run # "up" => FileWell(torn \cap {"header"})

DiskApart == \A L, M : DiskInv(L, M) => NoneShared

LEMMA NoBlockShared == DiskApart
<1> SUFFICES ASSUME NEW L, NEW M, DiskInv(L, M), NEW p \in DOMAIN tab, NEW q \in DOMAIN tab,
                    NEW b \in ChainLocs(p), b \in ChainLocs(q)
             PROVE  p = q
  BY DEF DiskApart, NoneShared
<1>1. bpn[b].fhloc = tab[p].loc /\ bpn[b].fhloc = tab[q].loc
  BY DEF DiskInv, ChainInv, FileInv, NodesInv, ChainLocs
<1> QED
  BY <1>1 DEF DiskInv, HeaderInv

LEMMA CrashDiskInit == CrashInit => CrashDisk
<1> SUFFICES ASSUME CrashInit
             PROVE  NoneShared /\ CutReach /\ run = "up" /\ UpWell(torn \cap {"header"})
  BY DEF CrashDisk
<1>1. Init /\ run = "up" /\ torn = {}
  BY DEF CrashInit
<1>2. DOMAIN tab = {} /\ \A h \in Headers : hdr[h].nodeHeader = INVLOC
  BY <1>1 DEF Init, FreeHeader
<1>3. DiskInv({}, {}) /\ NoneShared
  BY <1>1, DiskInvInit, NoBlockShared DEF DiskApart
<1>4. HeadsMatch({}) /\ OffsInv /\ UnusedHeaders /\ OwnData
  BY <1>2 DEF HeadsMatch, OffsInv, UnusedHeaders, OwnData
<1>5. UpInv({}, {}, {})
  BY <1>3, <1>4 DEF UpInv
<1>6. torn \cap {"header"} = {}
  BY <1>1
<1>7. CutReach
  BY <1>1 DEF Init, CutReach
<1> QED
  BY <1>1, <1>3, <1>5, <1>6, <1>7 DEF UpWell

LEMMA DiskStep ==
  ASSUME OrderedTruncation, CrashInv, CrashInv', NEW L, NEW M, NEW X, UpInv(L, M, X), [Next]_vars
  PROVE  DiskInv(L, M)' /\ HeadsMatch(X)' /\ OffsInv' /\ UnusedHeaders' /\ NoneShared'
<1>1. TypeOK /\ TypeOK' /\ CallInv /\ StaleMatches
  BY DEF CrashInv, MemoryInv
<1>2. DiskInv(L, M) /\ HeadsMatch(X) /\ OffsInv /\ UnusedHeaders
  BY DEF UpInv
<1>3. DiskInv(L, M)'
  BY <1>1, <1>2, DiskInvStep
<1>4. HeadsMatch(X)' /\ OffsInv' /\ UnusedHeaders'
  BY <1>1, <1>2, HeadsMatchStep, OffsInvStep, UnusedHeadersStep
<1>5. DiskApart'
  BY NoBlockShared, PTL
<1>6. NoneShared'
  BY <1>3, <1>5 DEF DiskApart
<1> QED
  BY <1>3, <1>4, <1>6

LEMMA CrashDiskStep ==
  ASSUME OrderedTruncation, CrashInv, CrashInv', CrashDisk, [CrashNext]_crashVars
  PROVE  CrashDisk'
<1> SUFFICES ASSUME Clean'
             PROVE  /\ NoneShared' /\ CutReach'
                    /\ run' = "up" => UpWell(torn \cap {"header"})'
                    /\ run' # "up" => FileWell(torn \cap {"header"})'
  BY DEF CrashDisk
<1>1. MemoryInv /\ TypeOK /\ CallInv /\ StaleMatches /\ HeaderLengths /\ file \in FileType
  BY DEF CrashInv, MemoryInv
<1>2. (\E writes : Writing(writes)) \/ TailAsserts \/ Kill \/ Init_RSC_table_m \/ UNCHANGED crashVars
  BY <1>1, WritesKnown
<1>3. torn \subseteq torn'
  BY <1>2 DEF Writing, Step, TailAsserts, Kill, Init_RSC_table_m, crashVars
<1>4. Clean
  BY <1>3 DEF Clean
<1>5. PICK X, Y : X = torn \cap {"header"} /\ Y = torn' \cap {"header"}
  OBVIOUS
<1>6. NoneShared /\ CutReach /\ (run = "up" => UpWell(X)) /\ (run # "up" => FileWell(X))
  BY <1>4, <1>5 DEF CrashDisk
<1>7. /\ UpWell(Y)' => UpWell(torn \cap {"header"})'
      /\ FileWell(Y)' => FileWell(torn \cap {"header"})'
  BY <1>5
<1>8. ASSUME run = "up", cut = NoCut
      PROVE  FileWell(X)
  <2>1. PICK L, M : UpInv(L, M, X)
    BY <1>6, <1>8 DEF UpWell
  <2>2. SameSections(file, Sections)
    BY <1>8 DEF CrashInv
  <2> QED
    BY <1>1, <1>8, <2>1, <2>2, RunningLists DEF FileWell
<1>9. ASSUME file' = file, torn' = torn
      PROVE  FileWell(X) => FileWell(Y)'
  BY <1>5, <1>9 DEF FileWell
<1>10. ASSUME NEW writes, Writing(writes), CrashNext
       PROVE  NoneShared' /\ (run' = "up" => UpWell(Y)') /\ (run' # "up" => FileWell(Y)')
  <2>1. run = "up" /\ Next /\ run' \in {"up", "stopped"} /\ (run' = "up" => torn' = torn)
    BY <1>10 DEF Writing, Step
  <2>2. PICK L, M : UpInv(L, M, X)
    BY <1>6, <2>1 DEF UpWell
  <2>3. DiskInv(L, M)' /\ HeadsMatch(X)' /\ OffsInv' /\ UnusedHeaders' /\ NoneShared'
    BY <2>1, <2>2, DiskStep
  <2>4. ASSUME run' = "up"
        PROVE  UpWell(Y)'
    <3>1. OwnData'
      BY <1>10, <2>1, <2>2, <2>3, <2>4, OwnDataStep DEF CrashInv
    <3>2. UpInv(L, M, X)'
      BY <2>3, <3>1 DEF UpInv
    <3>3. X = Y
      BY <1>5, <2>1, <2>4
    <3> QED
      BY <3>2, <3>3 DEF UpWell
  <2>5. ASSUME run' # "up"
        PROVE  FileWell(Y)'
    <3>1. run' = "stopped" /\ torn' \cap {"list", "cut"} = {}
      BY <2>1, <2>5 DEF Clean
    <3>2. \E F, G, C : FileLists(file', F, G, C, Y)
      BY <1>5, <1>10, <2>2, <3>1, StopsLeaveLists
    <3> QED
      BY <3>2 DEF FileWell
  <2> QED
    BY <2>3, <2>4, <2>5
<1>11. ASSUME tab' = tab
       PROVE  NoneShared'
  <2>1. \A p : ChainLocs(p)' = ChainLocs(p)
    BY <1>11 DEF ChainLocs
  <2> QED
    BY <1>6, <1>11, <2>1 DEF NoneShared
<1>16. CutReach'
  <2>1. CASE run = "up" /\ CrashNext
    <3>1. PICK L, M : UpInv(L, M, X)
      BY <1>6, <2>1 DEF UpWell
    <3> QED
      BY <1>6, <2>1, <3>1, CutReachStep
  <2>2. CASE Kill
    BY <2>2 DEF Kill, CutReach
  <2>3. CASE Init_RSC_table_m
    BY <2>3 DEF Init_RSC_table_m, CrashInv, Bare, CutReach
  <2>4. CASE UNCHANGED crashVars
    <3>1. UNCHANGED <<hdr, bpn, tab, cut, pc>>
      BY <2>4 DEF crashVars, vars
    <3>2. \A p : ChainLocs(p)' = ChainLocs(p)
      BY <3>1 DEF ChainLocs
    <3> QED
      BY <1>6, <3>1, <3>2 DEF CutReach
  <2> QED
    BY <1>2, <2>1, <2>2, <2>3, <2>4 DEF Writing, Step, TailAsserts
<1>12. CASE TailAsserts
  <2>1. run = "up" /\ cut = NoCut /\ run' = "line703" /\ file' = file /\ torn' = torn /\ tab' = tab
    BY <1>12 DEF TailAsserts, vars
  <2> QED
    BY <1>7, <1>8, <1>9, <1>11, <1>16, <2>1
<1>13. CASE Kill
  <2>1. cut = NoCut
    BY <1>13 DEF Kill, Clean
  <2>2. run' = "down" /\ file' = file /\ torn' = torn /\ tab' = <<>>
    BY <1>13, <2>1 DEF Kill
  <2>3. FileWell(X)
    BY <1>6, <1>8, <2>1
  <2>4. NoneShared'
    BY <2>2 DEF NoneShared
  <2> QED
    BY <1>7, <1>9, <1>16, <2>2, <2>3, <2>4
<1>14. CASE Init_RSC_table_m
  <2>1. run = "down" /\ Bare /\ SameSections(file, Sections) /\ torn' = torn
    BY <1>14 DEF Init_RSC_table_m, CrashInv
  <2>2. PICK F, G, C : FileLists(file, F, G, C, X)
    BY <1>6, <2>1 DEF FileWell
  <2>3. run' = "up" /\ \E L, M : UpInv(L, M, X)'
    BY <1>1, <1>14, <2>1, <2>2, StartInv
  <2>4. DiskApart'
    BY NoBlockShared, PTL
  <2>5. NoneShared'
    BY <2>3, <2>4 DEF DiskApart, UpInv
  <2>6. X = Y
    BY <1>5, <2>1
  <2> QED
    BY <1>7, <1>16, <2>3, <2>5, <2>6 DEF UpWell
<1>15. CASE UNCHANGED crashVars
  <2>1. run' = run /\ file' = file /\ torn' = torn /\ tab' = tab /\ UNCHANGED vars
    BY <1>15 DEF crashVars, vars
  <2>2. ASSUME run = "up"
        PROVE  UpWell(Y)'
    <3>1. PICK L, M : UpInv(L, M, X)
      BY <1>6, <2>2 DEF UpWell
    <3>2. DiskInv(L, M)' /\ HeadsMatch(X)' /\ OffsInv' /\ UnusedHeaders'
      BY <2>1, <3>1, DiskStep
    <3>3. OwnData'
      BY <2>1, <3>1 DEF UpInv, OwnData, ChainLocs
    <3>4. UpInv(L, M, X)' /\ X = Y
      BY <1>5, <2>1, <3>2, <3>3 DEF UpInv
    <3> QED
      BY <3>4 DEF UpWell
  <2> QED
    BY <1>6, <1>7, <1>9, <1>11, <1>16, <2>1, <2>2
<1> QED
  BY <1>2, <1>7, <1>10, <1>12, <1>13, <1>14, <1>15, <1>16 DEF Writing, TailAsserts, Kill, Init_RSC_table_m

LEMMA CrashDiskAlways ==
  ASSUME OrderedTruncation
  PROVE  CrashSpec => [](CrashInv /\ CrashDisk)
<1>1. CrashInit => CrashInv /\ CrashDisk
  BY CrashInvInit, CrashDiskInit
<1>2. CrashInv /\ CrashDisk /\ [CrashNext]_crashVars => CrashInv' /\ CrashDisk'
  BY CrashInvStep, CrashDiskStep
<1> QED
  BY <1>1, <1>2, PTL DEF CrashSpec

-----------------------------------------------------------------------------
(* The theorems.                                                           *)

LEMMA SettledLists ==
  ASSUME CrashInv, CrashDisk, Settled
  PROVE  \E F, G, C, X : FileLists(file, F, G, C, X)
<1>1. PICK X : X = torn \cap {"header"}
  OBVIOUS
<1>2. (run = "up" => UpWell(X)) /\ (run # "up" => FileWell(X)) /\ cut = NoCut
  BY <1>1 DEF CrashDisk, Clean, Settled
<1>3. CASE run = "up"
  <2>1. PICK L, M : UpInv(L, M, X)
    BY <1>2, <1>3 DEF UpWell
  <2>2. FileLists(file, Unowned(L), Spare(M), MemLists, X)
    BY <1>2, <1>3, <2>1, RunningLists DEF CrashInv
  <2> QED
    BY <2>2
<1>4. CASE run # "up"
  BY <1>2, <1>4 DEF FileWell
<1> QED
  BY <1>3, <1>4

\* What a start reads, and the free lists that it goes on with
LEMMA ListsFound ==
  ASSUME file \in FileType, NEW F, NEW G, NEW C, NEW X, FileLists(file, F, G, C, X)
  PROVE  /\ HeadersInUse = UsedHeaders(file)
         /\ \A h \in HeadersInUse : Range(DiskChain(h)) = {C[h][i] : i \in DOMAIN C[h]}
         /\ FileFree = F /\ FileFreeHeaders = G
<1>1. HeadersInUse = UsedHeaders(file)
  BY DEF HeadersInUse, UsedHeaders
<1>2. \A h \in HeadersInUse : DiskChain(h) = C[h]
  BY <1>1, ChainRead DEF FileLists, UsedHeaders
<1>3. FileFree = F
  <2>1. IsFiniteSet(DOMAIN NextBlocks(file)) /\ F \subseteq DOMAIN NextBlocks(file)
    BY FiniteSections DEF NextBlocks, FileLists
  <2>2. \E n, c : Chained(INVLOC, F, file.mb.bfl, NextBlocks(file), n, c)
    BY DEF FileLists, Queue
  <2> QED
    BY <2>1, <2>2, ListFromChained DEF FileFree, NextBlocks
<1>4. FileFreeHeaders = G
  <2>1. IsFiniteSet(DOMAIN NextHeaders(file)) /\ G \subseteq DOMAIN NextHeaders(file)
    BY FiniteSections DEF NextHeaders, FileLists
  <2>2. \E n, c : Chained(INVLOC, G, file.mb.hfl, NextHeaders(file), n, c)
    BY DEF FileLists, Queue
  <2> QED
    BY <2>1, <2>2, ListFromChained DEF FileFreeHeaders, NextHeaders
<1> QED
  BY <1>1, <1>2, <1>3, <1>4 DEF Range

\* Restartable: the assertion of RSC_m.c:195 does not fail and no walk goes on
\* for ever, however often the program was stopped inside one of its calls, as
\* long as no stop was in a truncation or in half of a return to a free list.
THEOREM RestartableAlways ==
  ASSUME OrderedTruncation
  PROVE  CrashSpec => []Restartable
<1>1. CrashInv /\ CrashDisk => Restartable
  BY SettledLists, ListsReadable DEF Restartable, CrashInv
<1> QED
  BY <1>1, CrashDiskAlways, PTL

\* TailsNamed: after such stops, none of them before the write of a header either,
\* the assertions of RSC_m.c:703 and 804 hold of every file that was read.
THEOREM TailsNamedAlways ==
  ASSUME OrderedTruncation
  PROVE  CrashSpec => []("list" \notin torn => TailsNamed)
<1>1. ASSUME CrashInv, CrashDisk, "list" \notin torn
      PROVE  TailsNamed
  <2> SUFFICES ASSUME run = "up", torn \cap {"header", "cut"} = {}, NEW p \in DOMAIN tab
               PROVE  TailNamed(p)
    BY DEF TailsNamed
  <2>1. torn \cap {"header"} = {} /\ Clean
    BY <1>1 DEF Clean
  <2>2. PICK L, M : UpInv(L, M, torn \cap {"header"})
    BY <1>1, <2>1 DEF CrashDisk, UpWell
  <2>3. HeadsMatch({})
    BY <2>1, <2>2 DEF UpInv
  <2> QED
    BY <2>3 DEF HeadsMatch, HeadTail, TailNamed
<1>2. CrashInv /\ CrashDisk => ("list" \notin torn => TailsNamed)
  BY <1>1
<1> QED
  BY <1>2, CrashDiskAlways, PTL

\* OwnBytes: every block of a cached file holds that file's data, and so does
\* every block that a start would read, after any number of such stops and at
\* every step of a call.
THEOREM OwnBytesAlways ==
  ASSUME OrderedTruncation
  PROVE  CrashSpec => [](torn \cap {"list", "cut"} = {} => OwnBytes)
<1>1. ASSUME CrashInv, CrashDisk, Clean
      PROVE  OwnBytes
  <2>1. /\ CutReach /\ file \in FileType
        /\ run = "up" => UpWell(torn \cap {"header"})
        /\ run # "up" => FileWell(torn \cap {"header"})
    BY <1>1 DEF CrashDisk, CrashInv
  <2>2. ASSUME NEW h \in HeadersInUse, NEW b \in Range(DiskChain(h)), file.bpn[b].fhloc # INVLOC
        PROVE  file.bytes[b] = file.hdr[h].path
    <3>1. CASE run = "up"
      <4>1. PICK L, M : UpInv(L, M, torn \cap {"header"})
        BY <2>1, <3>1 DEF UpWell
      <4> QED
        BY <1>1, <2>1, <2>2, <3>1, <4>1, RunningBytes
    <3>2. CASE run # "up"
      <4>1. PICK F, G, C : FileLists(file, F, G, C, torn \cap {"header"})
        BY <2>1, <3>2 DEF FileWell
      <4>2. h \in UsedHeaders(file) /\ b \in {C[h][i] : i \in DOMAIN C[h]}
        BY <2>1, <4>1, ListsFound
      <4>3. FileChain(file, h, C[h], torn \cap {"header"})
        BY <4>1, <4>2 DEF FileLists
      <4> QED
        BY <4>2, <4>3 DEF FileChain
    <3> QED
      BY <3>1, <3>2
  <2>3. run = "up" => OwnData
    BY <2>1 DEF UpWell, UpInv
  <2> QED
    BY <2>2, <2>3 DEF OwnBytes, OwnData
<1>2. CrashInv /\ CrashDisk => (torn \cap {"list", "cut"} = {} => OwnBytes)
  BY <1>1 DEF Clean
<1> QED
  BY <1>2, CrashDiskAlways, PTL

\* NoSharing: after such stops no block is in two cached files, in memory or in
\* what a start would read, and nothing in the cache file is both free and used.
THEOREM NoSharingAlways ==
  ASSUME OrderedTruncation
  PROVE  CrashSpec => [](torn \cap {"list", "cut"} = {} => NoSharing)
<1>1. ASSUME CrashInv, CrashDisk, torn \cap {"list", "cut"} = {}
      PROVE  NoSharing
  <2>1. NoneShared
    BY <1>1 DEF CrashDisk, Clean
  <2>2. ASSUME Settled
        PROVE  FileBlocks \cap FileFree = {} /\ HeadersInUse \cap FileFreeHeaders = {}
    <3>1. PICK F, G, C, X : FileLists(file, F, G, C, X)
      BY <1>1, <2>2, SettledLists
    <3>2. file \in FileType
      BY <1>1 DEF CrashInv
    <3>3. FileFree = F /\ FileFreeHeaders = G /\ HeadersInUse = UsedHeaders(file)
      BY <3>1, <3>2, ListsFound
    <3>4. ASSUME NEW b \in FileBlocks
          PROVE  file.bpn[b].fhloc # INVLOC
      <4>1. PICK h \in HeadersInUse : b \in Range(DiskChain(h))
        BY DEF FileBlocks
      <4>2. h \in UsedHeaders(file) /\ b \in {C[h][i] : i \in DOMAIN C[h]}
        BY <3>1, <3>2, <4>1, ListsFound
      <4>3. FileChain(file, h, C[h], X) /\ h \in Headers
        BY <3>1, <4>2 DEF FileLists, UsedHeaders
      <4>4. file.bpn[b].fhloc = h
        BY <4>2, <4>3 DEF FileChain
      <4> QED
        BY <4>3, <4>4, LocsAreNat
    <3>5. \A b \in F : file.bpn[b].fhloc = INVLOC
      BY <3>1 DEF FileLists
    <3>6. \A h \in G : file.hdr[h].nodeHeader = INVLOC
      BY <3>1 DEF FileLists
    <3> QED
      BY <3>3, <3>4, <3>5, <3>6 DEF UsedHeaders
  <2> QED
    BY <2>1, <2>2 DEF NoSharing, NoneShared
<1>2. CrashInv /\ CrashDisk => (torn \cap {"list", "cut"} = {} => NoSharing)
  BY <1>1
<1> QED
  BY <1>2, CrashDiskAlways, PTL

-----------------------------------------------------------------------------
(* What is left of a list when nodes were written that end it or are in    *)
(* none: a walk from its first node finds it, and perhaps more.            *)

\* The nodes s of header h in cache file f; the last one may go on.
Follows(f, h, s) ==
  /\ h \in Headers /\ s \in Seq(Blocks) /\ s # <<>> /\ f.hdr[h].nodeHeader = s[1]
  /\ \A i, j \in DOMAIN s : s[i] = s[j] => i = j
  /\ \A i \in DOMAIN s : i # Len(s) => f.bpn[s[i]].next = s[i + 1]

FollowedFound ==
  file \in FileType =>
    \A h, s : Follows(file, h, s) =>
      h \in HeadersInUse /\ \A i \in DOMAIN s : s[i] \in FileBlocks

LEMMA WalkFollows == FollowedFound
<1> SUFFICES ASSUME file \in FileType, NEW h, NEW s, Follows(file, h, s)
             PROVE  h \in HeadersInUse /\ \A i \in DOMAIN s : s[i] \in FileBlocks
  BY DEF FollowedFound
<1> DEFINE n == Len(s)
           S == {s[i] : i \in 1 .. n}
<1>1. s \in Seq(Blocks) /\ n \in Nat \ {0} /\ DOMAIN s = 1 .. n /\ \A i \in 1 .. n : s[i] \in Blocks
  BY LenProperties, ElementOfSeq, EmptySeq DEF Follows
<1>2. NumBlocks \in Nat \ {0} /\ IsFiniteSet(Blocks) /\ Cardinality(Blocks) = NumBlocks
  BY RSCAssumption, FS_Interval DEF Blocks
<1>3. /\ \A i, j \in 1 .. n : s[i] = s[j] => i = j
      /\ h \in Headers /\ file.hdr[h].nodeHeader = s[1]
      /\ \A i \in 1 .. n : i # n => file.bpn[s[i]].next = s[i + 1]
  BY <1>1 DEF Follows
<1>4. n <= NumBlocks
  <2> DEFINE next == [b \in S |-> LET i == CHOOSE i \in 1 .. n : s[i] = b
                                  IN IF i = n THEN INVLOC ELSE s[i + 1]]
  <2>1. \A i \in 1 .. n : s[i] \in S /\ s[i] # INVLOC /\ next[s[i]] = IF i = n THEN INVLOC ELSE s[i + 1]
    <3> TAKE i \in 1 .. n
    <3>1. (CHOOSE j \in 1 .. n : s[j] = s[i]) = i
      BY <1>3
    <3>2. s[i] \in S /\ s[i] # INVLOC
      BY <1>1, LocsAreNat
    <3>3. next[s[i]] = LET j == CHOOSE j \in 1 .. n : s[j] = s[i]
                       IN IF j = n THEN INVLOC ELSE s[j + 1]
      BY <3>2
    <3> HIDE DEF n, S, next
    <3> QED
      BY <3>1, <3>2, <3>3
  <2> HIDE DEF next
  <2>2. Chained(INVLOC, S, s[1], next, n, s)
    <3> HIDE DEF n
    <3> QED
      BY <1>1, <1>3, <2>1 DEF Chained
  <2>3. S \subseteq Blocks
    BY <1>1
  <2> HIDE DEF n, S
  <2> QED
    BY <1>2, <2>2, <2>3, ChainedBound
<1>5. s[1] \in Blocks /\ s[1] # INVLOC
  BY <1>1, LocsAreNat
<1>6. PICK w : Walking(s[1], w) /\ WalkFrom(s[1]) = w[NumBlocks]
  BY <1>5, WalkDefined DEF BlockOrNone
<1> HIDE DEF n, S
<1> DEFINE reached(k) == IF k + 1 <= n THEN k + 1 ELSE n
           T == {k \in Nat : k <= NumBlocks =>
                  /\ Len(w[k]) >= reached(k) /\ Len(w[k]) <= k + 1
                  /\ \A i \in 1 .. reached(k) : w[k][i] = s[i]}
<1>7. 0 \in T
  <2>1. w[0] = <<s[1]>>
    BY <1>5, <1>6 DEF Walking, WalkStart
  <2>2. Len(w[0]) = 1 /\ w[0][1] = s[1] /\ reached(0) = 1
    BY <1>1, <2>1
  <2>3. /\ Len(w[0]) >= reached(0) /\ Len(w[0]) <= 0 + 1
        /\ \A i \in 1 .. reached(0) : w[0][i] = s[i]
    <3> HIDE DEF reached
    <3> QED
      BY <2>1, <2>2
  <2> HIDE DEF reached
  <2> QED
    BY <2>3
<1>8. ASSUME NEW k \in Nat, k \in T
      PROVE  k + 1 \in T
  <2> SUFFICES ASSUME k + 1 <= NumBlocks
               PROVE  /\ Len(w[k + 1]) >= reached(k + 1) /\ Len(w[k + 1]) <= (k + 1) + 1
                      /\ \A i \in 1 .. reached(k + 1) : w[k + 1][i] = s[i]
    OBVIOUS
  <2>1. /\ Len(w[k]) >= reached(k) /\ Len(w[k]) <= k + 1
        /\ \A i \in 1 .. reached(k) : w[k][i] = s[i]
    BY <1>2, <1>8
  <2>2. w[k] \in Seq(Blocks) /\ Len(w[k]) \in Nat /\ DOMAIN w[k] = 1 .. Len(w[k])
    BY <1>2, <1>6, LenProperties DEF Walking
  <2>3. w[k + 1] = WalkStep(w[k], k + 1)
    <3>1. k + 1 \in 1 .. NumBlocks /\ (k + 1) - 1 = k
      OBVIOUS
    <3> QED
      BY <1>6, <3>1 DEF Walking
  <2>4. \/ w[k + 1] = w[k] /\ (Len(w[k]) < k + 1 \/ file.bpn[w[k][k + 1]].next = INVLOC)
        \/ /\ ~(Len(w[k]) < k + 1) /\ w[k + 1] = Append(w[k], file.bpn[w[k][k + 1]].next)
           /\ Len(w[k + 1]) = Len(w[k]) + 1
           /\ \A i \in 1 .. Len(w[k]) : w[k + 1][i] = w[k][i]
           /\ w[k + 1][Len(w[k]) + 1] = file.bpn[w[k][k + 1]].next
    <3>1. CASE Len(w[k]) < k + 1 \/ file.bpn[w[k][k + 1]].next = INVLOC
      BY <2>3, <3>1 DEF WalkStep
    <3>2. CASE ~(Len(w[k]) < k + 1 \/ file.bpn[w[k][k + 1]].next = INVLOC)
      <4> DEFINE x == file.bpn[w[k][k + 1]].next
      <4>1. w[k + 1] = Append(w[k], x)
        BY <2>3, <3>2 DEF WalkStep
      <4>2. x \in Blocks
        <5>1. k + 1 \in 1 .. Len(w[k])
          BY <2>2, <3>2
        <5>2. w[k][k + 1] \in Blocks
          BY <2>2, <5>1
        <5>3. file.bpn[w[k][k + 1]] \in NodeType
          BY <5>2 DEF FileType
        <5> QED
          BY <3>2, <5>3 DEF NodeType, BlockOrNone
      <4> HIDE DEF x
      <4> QED
        BY <2>2, <3>2, <4>1, <4>2, AppendProperties DEF x
    <3> QED
      BY <3>1, <3>2
  <2>5. /\ Len(w[k + 1]) \in Nat /\ Len(w[k + 1]) >= Len(w[k]) /\ Len(w[k + 1]) <= (k + 1) + 1
        /\ \A i \in 1 .. Len(w[k]) : w[k + 1][i] = w[k][i]
    BY <2>1, <2>2, <2>4
  <2>6. CASE k + 1 < n
    <3>0. reached(k) = k + 1 /\ k + 1 \in 1 .. k + 1 /\ reached(k + 1) = k + 2 /\ (k + 1) + 1 = k + 2
      BY <1>1, <2>6
    <3>1. Len(w[k]) = k + 1 /\ w[k][k + 1] = s[k + 1] /\ \A i \in 1 .. (k + 1) : w[k][i] = s[i]
      <4> HIDE DEF reached
      <4> QED
        BY <2>1, <2>2, <3>0
    <3>2. k + 1 \in 1 .. n /\ k + 1 # n /\ k + 2 \in 1 .. n
      BY <1>1, <2>6
    <3>3. file.bpn[w[k][k + 1]].next = s[k + 2] /\ s[k + 2] # INVLOC
      BY <1>1, <1>3, <3>0, <3>1, <3>2, LocsAreNat
    <3>4. ~(Len(w[k]) < k + 1)
      BY <2>2, <3>1
    <3>5. /\ Len(w[k + 1]) = Len(w[k]) + 1
          /\ w[k + 1][Len(w[k]) + 1] = s[k + 2]
      BY ONLY <2>4, <3>3, <3>4
    <3>6. Len(w[k + 1]) = k + 2 /\ w[k + 1][k + 2] = s[k + 2]
      BY <3>0, <3>1, <3>5
    <3>7. \A i \in 1 .. (k + 1) : w[k + 1][i] = s[i]
      BY <2>5, <3>1
    <3>8. \A i \in 1 .. (k + 2) : i \in 1 .. (k + 1) \/ i = k + 2
      OBVIOUS
    <3> HIDE DEF reached
    <3> QED
      BY <2>5, <3>0, <3>6, <3>7, <3>8
  <2>7. CASE ~(k + 1 < n)
    <3>1. reached(k + 1) = n /\ reached(k) = n
      BY <1>1, <2>7
    <3> HIDE DEF reached
    <3>2. n <= Len(w[k]) /\ \A i \in 1 .. n : i \in 1 .. Len(w[k])
      BY <1>1, <2>1, <2>2, <3>1
    <3> QED
      BY <1>1, <2>1, <2>2, <2>5, <3>1, <3>2
  <2> QED
    BY <2>6, <2>7
<1> HIDE DEF T
<1>9. NumBlocks \in T
  BY <1>2, <1>7, <1>8, NatSetInduction
<1>10. Len(w[NumBlocks]) >= n /\ \A i \in 1 .. n : w[NumBlocks][i] = s[i]
  <2>1. reached(NumBlocks) = n
    BY <1>1, <1>2, <1>4
  <2> QED
    BY <1>2, <1>9, <2>1 DEF T
<1>11. h \in HeadersInUse /\ DiskChain(h) = w[NumBlocks]
  BY <1>3, <1>5, <1>6 DEF HeadersInUse, DiskChain
<1>12. \A i \in 1 .. n : i \in DOMAIN w[NumBlocks]
  <2>1. w[NumBlocks] \in Seq(Blocks) /\ NumBlocks \in 0 .. NumBlocks
    BY <1>2, <1>6 DEF Walking
  <2>2. DOMAIN w[NumBlocks] = 1 .. Len(w[NumBlocks]) /\ Len(w[NumBlocks]) \in Nat
    BY <2>1, LenProperties
  <2> QED
    BY <1>1, <1>10, <2>2
<1>13. \A i \in 1 .. n : s[i] \in Range(DiskChain(h))
  BY <1>10, <1>11, <1>12 DEF Range
<1> QED
  BY <1>1, <1>11, <1>13 DEF FileBlocks

\* The walk of ListFrom ends, whatever the pointers are.
LEMMA ReachingDefined ==
  ASSUME NEW D, NEW first \in D \cup {INVLOC}, NEW m \in Nat, NEW next, \A x \in D : next[x] \in D \cup {INVLOC}
  PROVE  \E f : Reaching(INVLOC, first, next, m, f)
<1> DEFINE Start == {first} \ {INVLOC}
           More(R) == R \cup ({next[x] : x \in R} \ {INVLOC})
           g == [k \in 1 .. m |-> [R \in SUBSET D |-> More(R)]]
<1>1. Start \in SUBSET D /\ \A R \in SUBSET D : More(R) \in SUBSET D
  OBVIOUS
<1> HIDE DEF Start, More
<1>2. \A k \in 1 .. m : \A R \in SUBSET D : g[k][R] = More(R)
  OBVIOUS
<1>3. StepsOf(SUBSET D, m, g)
  BY <1>1, <1>2 DEF StepsOf
<1> HIDE DEF g
<1>4. PICK f : Through(SUBSET D, m, g, Start, f)
  BY <1>1, <1>3, RecursionExists
<1>5. \A k \in 0 .. m : f[k] = IF k = 0 THEN Start ELSE More(f[k - 1])
  <2> TAKE k \in 0 .. m
  <2>1. CASE k = 0
    BY <1>4, <2>1 DEF Through
  <2>2. CASE k # 0
    <3>1. k \in 1 .. m /\ k - 1 \in 0 .. m
      BY <2>2
    <3>2. f[k - 1] \in SUBSET D
      BY <1>4, <3>1 DEF Through
    <3> QED
      BY <1>2, <1>4, <2>2, <3>1, <3>2 DEF Through
  <2> QED
    BY <2>1, <2>2
<1>6. f = [k \in 0 .. m |-> f[k]]
  BY <1>4 DEF Through
<1>7. f = [k \in 0 .. m |-> IF k = 0 THEN Start ELSE More(f[k - 1])]
  BY <1>5, <1>6
<1> QED
  BY <1>7 DEF Reaching, Start, More

\* What following next2 from first finds has the list S, when next2 differs from
\* its next at most in the last node.
LEMMA ListFromAtLeast ==
  ASSUME NEW D, IsFiniteSet(D), NEW S, S \subseteq D, NEW first, NEW last, NEW next, Queue(S, first, last, next),
         NEW next2, DOMAIN next2 = D, \A x \in D : next2[x] \in D \cup {INVLOC},
         \A x \in S : x # last => next2[x] = next[x]
  PROVE  S \subseteq ListFrom(first, next2)
<1> DEFINE m == Cardinality(D)
           g == CHOOSE f : Reaching(INVLOC, first, next2, m, f)
<1>1. m \in Nat
  BY FS_CardinalityType
<1>2. PICK n, c : Chained(INVLOC, S, first, next, n, c)
  BY DEF Queue
<1>3. n <= m
  BY <1>2, ChainedBound
<1>4. ListFrom(first, next2) = g[m]
  BY Zenon DEF ListFrom, Reaching
<1>5. first \in D \cup {INVLOC}
  BY QueueParts
<1> HIDE DEF m
<1>6. Reaching(INVLOC, first, next2, m, g)
  <2>1. \E f : Reaching(INVLOC, first, next2, m, f)
    BY <1>1, <1>5, ReachingDefined
  <2> QED
    BY <2>1
<1> HIDE DEF g
<1>7. /\ n \in Nat /\ \A i \in 1 .. n : c[i] \in S /\ c[i] # INVLOC
      /\ \A i, j \in 1 .. n : c[i] = c[j] => i = j
      /\ \A i \in 1 .. n : next[c[i]] = IF i = n THEN INVLOC ELSE c[i + 1]
      /\ first = IF n = 0 THEN INVLOC ELSE c[1]
      /\ \A x \in S : \E i \in 1 .. n : x = c[i]
  BY <1>2 DEF Chained
<1>8. \A i \in 1 .. n : i # n => next2[c[i]] = c[i + 1]
  <2> TAKE i \in 1 .. n
  <2> HAVE i # n
  <2>1. next[c[i]] = c[i + 1] /\ i + 1 \in 1 .. n /\ c[i + 1] # INVLOC
    BY <1>7
  <2>2. c[i] # last
    BY <1>7, <2>1 DEF Queue
  <2> QED
    BY <1>7, <2>1, <2>2
<1> DEFINE T == {k \in Nat : k <= m => FirstNodes(n, c, k) \subseteq g[k]}
<1>9. 0 \in T
  <2>1. g[0] = {first} \ {INVLOC}
    BY <1>1, <1>6 DEF Reaching
  <2>2. FirstNodes(n, c, 0) = {first} \ {INVLOC}
    <3>1. n <= n + 1
      BY <1>7
    <3> QED
      BY <1>2, <1>7, <3>1, FirstNodesEnd
  <2> QED
    BY <2>1, <2>2
<1>10. ASSUME NEW k \in Nat, k \in T
       PROVE  k + 1 \in T
  <2> SUFFICES ASSUME k + 1 <= m, NEW y \in FirstNodes(n, c, k + 1)
               PROVE  y \in g[k + 1]
    OBVIOUS
  <2>1. k + 1 \in 0 .. m /\ k + 1 # 0 /\ (k + 1) - 1 = k
    BY <1>1
  <2>2. g[k + 1] = g[k] \cup ({next2[x] : x \in g[k]} \ {INVLOC})
    BY <1>6, <2>1 DEF Reaching
  <2>3. FirstNodes(n, c, k) \subseteq g[k]
    BY <1>1, <1>10
  <2>4. PICK i \in 1 .. n : i <= k + 2 /\ y = c[i]
    BY DEF FirstNodes
  <2>5. CASE i <= k + 1
    BY <2>2, <2>3, <2>4, <2>5 DEF FirstNodes
  <2>6. CASE i = k + 2
    <3>1. i - 1 \in 1 .. n /\ i - 1 <= k + 1 /\ i - 1 # n /\ (i - 1) + 1 = i
      BY <1>7, <2>4, <2>6
    <3>2. c[i - 1] \in g[k]
      BY <2>3, <3>1 DEF FirstNodes
    <3>3. next2[c[i - 1]] = y /\ y # INVLOC
      BY <1>7, <1>8, <2>4, <3>1
    <3> QED
      BY <2>2, <3>2, <3>3
  <2> QED
    BY <1>7, <2>4, <2>5, <2>6
<1> HIDE DEF T
<1>11. m \in T
  BY <1>1, <1>9, <1>10, NatSetInduction
<1>12. FirstNodes(n, c, m) = S
  <2>1. n <= m + 1
    BY <1>1, <1>3, <1>7
  <2> QED
    BY <1>1, <1>2, <2>1, FirstNodesEnd
<1> QED
  BY <1>1, <1>4, <1>11, <1>12 DEF T

\* So a start finds a free list of which a step has at most linked the tail.
FreeFound ==
  file \in FileType =>
    \A S, last, next :
      /\ S \subseteq Blocks /\ Queue(S, file.mb.bfl, last, next)
      /\ \A b \in S : b # last => file.bpn[b].next = next[b]
      => S \subseteq FileFree

SparesFound ==
  file \in FileType =>
    \A S, last, next :
      /\ S \subseteq Headers /\ Queue(S, file.mb.hfl, last, next)
      /\ \A h \in S : h # last => file.hdr[h].next = next[h]
      => S \subseteq FileFreeHeaders

LEMMA FreeListsFound == FreeFound /\ SparesFound
<1>1. ASSUME file \in FileType, NEW S, NEW last, NEW next,
             S \subseteq Blocks, Queue(S, file.mb.bfl, last, next),
             \A b \in S : b # last => file.bpn[b].next = next[b]
      PROVE  S \subseteq FileFree
  <2>1. DOMAIN NextBlocks(file) = Blocks /\ \A b \in Blocks : NextBlocks(file)[b] = file.bpn[b].next
    BY DEF NextBlocks
  <2>2. \A b \in Blocks : file.bpn[b].next \in Blocks \cup {INVLOC}
    BY <1>1 DEF FileType, NodeType, BlockOrNone
  <2>3. S \subseteq ListFrom(file.mb.bfl, NextBlocks(file))
    BY <1>1, <2>1, <2>2, FiniteSections, ListFromAtLeast
  <2> QED
    BY <2>3 DEF FileFree, NextBlocks
<1>2. ASSUME file \in FileType, NEW S, NEW last, NEW next,
             S \subseteq Headers, Queue(S, file.mb.hfl, last, next),
             \A h \in S : h # last => file.hdr[h].next = next[h]
      PROVE  S \subseteq FileFreeHeaders
  <2>1. DOMAIN NextHeaders(file) = Headers /\ \A h \in Headers : NextHeaders(file)[h] = file.hdr[h].next
    BY DEF NextHeaders
  <2>2. \A h \in Headers : file.hdr[h].next \in Headers \cup {INVLOC}
    BY <1>2 DEF FileType, DiskHeader, HeaderType, HeaderOrNone
  <2>3. S \subseteq ListFrom(file.mb.hfl, NextHeaders(file))
    BY <1>2, <2>1, <2>2, FiniteSections, ListFromAtLeast
  <2> QED
    BY <2>3 DEF FileFreeHeaders, NextHeaders
<1> QED
  BY <1>1, <1>2 DEF FreeFound, SparesFound

-----------------------------------------------------------------------------
(* The writes of a step and a stop between them.                           *)

\* Between the writes of a step each pointer of the cache file is as before the
\* step or as after it, and the master block, which is written last, as before.
Mixed(f) ==
  /\ f.mb = mb
  /\ \A b \in Blocks : f.bpn[b].next \in {bpn[b].next, bpn'[b].next}
  /\ \A h \in Headers : /\ f.hdr[h].next \in {hdr[h].next, hdr'[h].next}
                        /\ f.hdr[h].nodeHeader \in {hdr[h].nodeHeader, hdr'[h].nodeHeader}

\* A write before the last one: not of the master block; a link is the one that
\* the step makes.
Early(w) ==
  /\ w[1] # "mb"
  /\ w[1] = "link" => w[3] = bpn'[w[2]].next
  /\ w[1] = "linkHdr" => w[3] = hdr'[w[2]].next

MbLast(writes) == \A k \in 1 .. Len(writes) - 1 : Early(writes[k])

LEMMA WriteMixes ==
  ASSUME NEW f \in FileType, NEW w, GoodWrite(w), Early(w), Sections' \in SectionsType, Mixed(f)
  PROVE  Mixed(Write_cache_off(f, w, Sections'))
<1> DEFINE g == Write_cache_off(f, w, Sections')
<1>1. /\ f.bpn \in [Blocks -> NodeType] /\ f.hdr \in [Headers -> DiskHeader]
      /\ Sections'.bpn = bpn' /\ Sections'.hdr = hdr'
  BY SectionsParts DEF FileType
<1>2. CASE w[1] = "hdr"
  <2>1. g.mb = f.mb /\ g.bpn = f.bpn /\ g.hdr = [f.hdr EXCEPT ![w[2]] = hdr'[w[2]]]
    BY <1>1, <1>2 DEF Write_cache_off, FileType
  <2> HIDE DEF g
  <2>2. \A h \in Headers : g.hdr[h] = IF h = w[2] THEN hdr'[h] ELSE f.hdr[h]
    BY <1>1, <2>1
  <2>3. Mixed(g)
    BY <2>1, <2>2 DEF Mixed
  <2> QED
    BY <2>3 DEF g
<1>3. CASE w[1] = "linkHdr"
  <2>1. g.mb = f.mb /\ g.bpn = f.bpn /\ g.hdr = [f.hdr EXCEPT ![w[2]].next = w[3]]
    BY <1>3 DEF Write_cache_off, FileType
  <2>2. w[3] = hdr'[w[2]].next
    BY <1>3 DEF Early
  <2> HIDE DEF g
  <2>3. \A h \in Headers : /\ g.hdr[h].nodeHeader = f.hdr[h].nodeHeader
                           /\ g.hdr[h].next = IF h = w[2] THEN hdr'[h].next ELSE f.hdr[h].next
    BY <1>1, <2>1, <2>2 DEF DiskHeader, HeaderType
  <2>4. Mixed(g)
    BY <2>1, <2>3 DEF Mixed
  <2> QED
    BY <2>4 DEF g
<1>4. CASE w[1] = "link"
  <2>1. g.mb = f.mb /\ g.hdr = f.hdr /\ g.bpn = [f.bpn EXCEPT ![w[2]].next = w[3]]
    BY <1>4 DEF Write_cache_off, FileType
  <2>2. w[3] = bpn'[w[2]].next
    BY <1>4 DEF Early
  <2> HIDE DEF g
  <2>3. \A b \in Blocks : g.bpn[b].next = IF b = w[2] THEN bpn'[b].next ELSE f.bpn[b].next
    BY <1>1, <2>1, <2>2 DEF NodeType
  <2>4. Mixed(g)
    BY <2>1, <2>3 DEF Mixed
  <2> QED
    BY <2>4 DEF g
<1>5. CASE w[1] = "data"
  <2>1. g.mb = f.mb /\ g.hdr = f.hdr /\ g.bpn = f.bpn
    BY <1>5 DEF Write_cache_off, FileType
  <2> HIDE DEF g
  <2>2. Mixed(g)
    BY <2>1 DEF Mixed
  <2> QED
    BY <2>2 DEF g
<1>6. CASE w[1] = "bpn"
  <2>1. g.mb = f.mb /\ g.hdr = f.hdr /\ g.bpn = [f.bpn EXCEPT ![w[2]] = bpn'[w[2]]]
    BY <1>1, <1>6 DEF Write_cache_off, FileType
  <2> HIDE DEF g
  <2>2. \A b \in Blocks : g.bpn[b] = IF b = w[2] THEN bpn'[b] ELSE f.bpn[b]
    BY <1>1, <2>1
  <2>3. Mixed(g)
    BY <2>1, <2>2 DEF Mixed
  <2> QED
    BY <2>3 DEF g
<1> QED
  BY <1>2, <1>3, <1>4, <1>5, <1>6 DEF GoodWrite, Early

LEMMA StopMixes ==
  ASSUME file \in FileType, SameSections(file, Sections), Sections' \in SectionsType,
         NEW writes, Good(writes), MbLast(writes), Step(writes), run' = "stopped"
  PROVE  Mixed(file')
<1>1. Len(writes) \in Nat /\ \A k \in 1 .. Len(writes) : GoodWrite(writes[k])
  BY DEF Good
<1>2. PICK a : Between(writes, a) /\ \E k \in 1 .. Len(writes) - 1 : file' = a[k]
  BY <1>1, StepFiles
<1> DEFINE n == Len(writes) - 1
<1>3. PICK k \in 1 .. n : file' = a[k]
  BY <1>2
<1>4. n \in Nat /\ k \in 0 .. n
  BY <1>1, <1>3
<1>5. Mixed(file)
  BY SectionsParts DEF Mixed, SameSections
<1> DEFINE D == {f \in FileType : Mixed(f)}
<1>6. a[0] \in D
  BY <1>2, <1>5 DEF Between
<1>7. \A i \in 1 .. n : a[i - 1] \in D => a[i] \in D
  <2> TAKE i \in 1 .. n
  <2> HAVE a[i - 1] \in D
  <2>1. i \in 1 .. Len(writes) /\ i \in 0 .. Len(writes)
    BY <1>1
  <2>2. a[i] = Write_cache_off(a[i - 1], writes[i], Sections') /\ a[i] \in FileType
    BY <1>2, <2>1 DEF Between
  <2>3. GoodWrite(writes[i]) /\ Early(writes[i])
    BY <1>1, <2>1 DEF MbLast
  <2> QED
    BY <2>2, <2>3, WriteMixes
<1> HIDE DEF n, D
<1>8. a[k] \in D
  BY <1>4, <1>6, <1>7, StaysIn
<1> QED
  BY <1>3, <1>8 DEF D

\* No step of one write stops.
LEMMA ShortNotStopped ==
  ASSUME file \in FileType, Sections' \in SectionsType, NEW writes, Good(writes), Step(writes),
         Len(writes) \in {0, 1}
  PROVE  run' # "stopped"
<1>1. Len(writes) \in Nat /\ \A k \in 1 .. Len(writes) : GoodWrite(writes[k])
  BY DEF Good
<1>2. \A n : n \in {0, 1} => ~\E k : k \in 1 .. n - 1
  OBVIOUS
<1> QED
  BY <1>1, <1>2, StepFiles

LEMMA MbLastLists ==
  ASSUME NEW u, NEW v, NEW w, NEW x, Early(u), Early(v), Early(w)
  PROVE  MbLast(<<u, x>>) /\ MbLast(<<u, v, x>>) /\ MbLast(<<u, v, w, x>>)
<1>1. MbLast(<<u, x>>)
  BY Elements DEF MbLast
<1>2. MbLast(<<u, v, x>>)
  BY Elements DEF MbLast
<1>3. MbLast(<<u, v, w, x>>)
  <2>1. Len(<<u, v, w, x>>) = 4 /\ \A i \in 1 .. 4 - 1 : i = 1 \/ i = 2 \/ i = 3
    OBVIOUS
  <2> QED
    BY <2>1 DEF MbLast
<1> QED
  BY <1>1, <1>2, <1>3

LEMMA EarlyWrites ==
  ASSUME NEW x
  PROVE  /\ Early(<<"hdr", x>>) /\ Early(<<"bpn", x>>)
         /\ \A p : Early(<<"data", x, p>>)
         /\ \A n : n = bpn'[x].next => Early(<<"link", x, n>>)
         /\ \A n : n = hdr'[x].next => Early(<<"linkHdr", x, n>>)
  BY DEF Early

LEMMA HeaderReturnMbLast ==
  ASSUME NEW h, mb.hfl # INVLOC => hdr'[mb.hft].next = h
  PROVE  MbLast(Return_file_headerWrites(h))
<1>1. Early(<<"hdr", h>>)
  BY EarlyWrites
<1>2. CASE mb.hfl = INVLOC
  BY <1>1, <1>2, Return_file_headerList, MbLastLists
<1>3. CASE mb.hfl # INVLOC
  <2>1. Early(<<"linkHdr", mb.hft, h>>)
    BY <1>3, EarlyWrites
  <2>2. MbLast(<<<<"linkHdr", mb.hft, h>>, <<"hdr", h>>, <<"mb">>>>)
    BY <1>1, <2>1, MbLastLists
  <2> QED
    BY <1>3, <2>2, Return_file_headerList
<1> QED
  BY <1>2, <1>3

LEMMA BlockReturnMbLast ==
  ASSUME NEW b, NEW c, mb.bfl # INVLOC => bpn'[mb.bft].next = b
  PROVE  MbLast(Return_file_blockWrites(b)) /\ MbLast(<<<<"bpn", c>>>> \o Return_file_blockWrites(b))
<1>1. Early(<<"bpn", b>>) /\ Early(<<"bpn", c>>)
  BY EarlyWrites
<1>2. CASE mb.bfl = INVLOC
  <2>1. Return_file_blockWrites(b) = <<<<"bpn", b>>, <<"mb">>>>
    BY <1>2, Return_file_blockList
  <2>2. <<<<"bpn", c>>>> \o Return_file_blockWrites(b) = <<<<"bpn", c>>, <<"bpn", b>>, <<"mb">>>>
    BY <2>1, OneAndTwo
  <2>3. MbLast(<<<<"bpn", b>>, <<"mb">>>>) /\ MbLast(<<<<"bpn", c>>, <<"bpn", b>>, <<"mb">>>>)
    BY <1>1, MbLastLists
  <2> QED
    BY <2>1, <2>2, <2>3
<1>3. CASE mb.bfl # INVLOC
  <2>1. Early(<<"link", mb.bft, b>>)
    BY <1>3, EarlyWrites
  <2>2. Return_file_blockWrites(b) = <<<<"link", mb.bft, b>>, <<"bpn", b>>, <<"mb">>>>
    BY <1>3, Return_file_blockList
  <2>3. <<<<"bpn", c>>>> \o Return_file_blockWrites(b)
          = <<<<"bpn", c>>, <<"link", mb.bft, b>>, <<"bpn", b>>, <<"mb">>>>
    BY <2>2, OneAndThree
  <2>4. /\ MbLast(<<<<"link", mb.bft, b>>, <<"bpn", b>>, <<"mb">>>>)
        /\ MbLast(<<<<"bpn", c>>, <<"link", mb.bft, b>>, <<"bpn", b>>, <<"mb">>>>)
    BY <1>1, <2>1, MbLastLists
  <2> QED
    BY <2>2, <2>3, <2>4
<1> QED
  BY <1>2, <1>3

LEMMA InsertMbLast ==
  ASSUME NEW b, NEW p, NEW q, NEW h
  PROVE  MbLast(InsertWrites(b, p, <<>>, h)) /\ MbLast(InsertWrites(b, p, <<<<"bpn", q>>>>, h))
<1>1. Early(<<"bpn", b>>) /\ Early(<<"data", b, p>>) /\ Early(<<"bpn", q>>)
  BY EarlyWrites
<1>2. /\ MbLast(<<<<"bpn", b>>, <<"data", b, p>>, <<"hdr", h>>>>)
      /\ MbLast(<<<<"bpn", b>>, <<"data", b, p>>, <<"bpn", q>>, <<"hdr", h>>>>)
  BY <1>1, MbLastLists
<1> QED
  BY <1>2, InsertList

-----------------------------------------------------------------------------
(* What is lost.                                                           *)

HandBlocks == {req.blk} \cup RemovedBlocks \cup (IF cut = NoCut THEN {} ELSE ChainLocs(cut.path))

HandHeaders == {req.hdr} \cup {tab[p].loc : p \in {q \in DOMAIN tab : tab[q].chain = <<>>}}

LostBlocks == Blocks \ (FileBlocks \cup FileFree \cup HandBlocks)

LostHeaders == Headers \ (HeadersInUse \cup FileFreeHeaders \cup HandHeaders)

FewLost == LET moving == IF run = "stopped" THEN 1 ELSE 0
           IN Cardinality(LostBlocks) <= moving /\ Cardinality(LostHeaders) <= moving

LEMMA LossNamed ==
  /\ StopLosesInHand <=> (stops = 0 => FewLost)
  /\ StopLosesInHand' <=> (stops' = 0 => FewLost')
  BY DEF StopLosesInHand, FewLost, LostBlocks, LostHeaders, HandBlocks, HandHeaders

\* The header of a file whose truncation has left it blocks is in use.
CutHeader ==
  cut # NoCut /\ tab[cut.path].chain # <<>> => hdr[tab[cut.path].loc].nodeHeader # INVLOC

\* Every block has a place.
BlockPlaces ==
  DeadInv({}) =>
    \A b \in Blocks : \/ b \in Unowned({}) \/ b = req.blk \/ b \in RemovedBlocks
                      \/ \E p \in DOMAIN tab : b \in ChainLocs(p)

LEMMA EveryBlockPlaced == BlockPlaces
<1> SUFFICES ASSUME DeadInv({})
             PROVE  \A b \in Blocks : \/ b \in Unowned({}) \/ b = req.blk \/ b \in RemovedBlocks
                                      \/ \E p \in DOMAIN tab : b \in ChainLocs(p)
  BY DEF BlockPlaces
<1>1. \E n, c : Chained(INVLOC, Dead({}), walk, BlockNext, n, c)
  BY DEF DeadInv
<1>2. Dead({}) \subseteq Blocks /\ DOMAIN BlockNext = Blocks
  BY DEF Dead, BlockNext
<1>3. ListFrom(walk, BlockNext) = Dead({})
  BY <1>1, <1>2, FiniteSections, ListFromChained
<1>4. RemovedBlocks = Dead({})
  BY <1>3 DEF RemovedBlocks, BlockNext
<1> QED
  BY <1>4 DEF Dead, Unowned

\* A file that has its header's first block and the pointers of the nodes but the
\* last one has the list.
LEMMA ChainFollows ==
  ASSUME TypeOK, NEW L, ChainInv(L), HeadsMatch({}), NEW p \in DOMAIN tab, p # cut.path, tab[p].chain # <<>>,
         NEW f, f.hdr[tab[p].loc].nodeHeader = hdr[tab[p].loc].nodeHeader,
         \A i \in 1 .. Len(tab[p].chain) - 1 :
           f.bpn[tab[p].chain[i].loc].next = bpn[tab[p].chain[i].loc].next
  PROVE  Follows(f, tab[p].loc, Locs(p))
<1> DEFINE c == tab[p].chain
           n == Len(tab[p].chain)
           s == Locs(p)
<1>1. tab[p] \in CachedFile /\ tab[p].loc \in Headers
  BY TypeParts DEF CachedFile
<1>2. /\ s \in Seq(Blocks) /\ Len(s) = n /\ n \in Nat /\ s # <<>>
      /\ DOMAIN s = 1 .. n /\ DOMAIN c = 1 .. n /\ \A i \in 1 .. n : s[i] = c[i].loc
  BY <1>1, LocsParts
<1>3. n # 0
  BY <1>2, EmptySeq
<1> HIDE DEF n, s
<1>4. f.hdr[tab[p].loc].nodeHeader = s[1]
  <2>1. hdr[tab[p].loc] = HeaderOf(p, tab[p])
    BY DEF ChainInv, FileInv
  <2>2. tab[p].nodeHeader = c[1].loc
    BY DEF HeadsMatch, HeadTail
  <2>3. 1 \in 1 .. n
    BY <1>2, <1>3
  <2> QED
    BY <1>2, <2>1, <2>2, <2>3 DEF HeaderOf
<1>5. \A i, j \in 1 .. n : s[i] = s[j] => i = j
  BY <1>2 DEF ChainInv, FileInv, NodesInv
<1>6. \A i \in 1 .. n : i # n => f.bpn[s[i]].next = s[i + 1]
  <2> TAKE i \in 1 .. n
  <2> HAVE i # n
  <2>1. i \in 1 .. n - 1 /\ i + 1 \in 1 .. n
    BY <1>2
  <2>2. LinksInv(p)
    BY DEF ChainInv, FileInv
  <2>3. bpn[c[i].loc].next = c[i + 1].loc
    BY <1>2, <2>1, <2>2 DEF LinksInv, Kept, n
  <2> QED
    BY <1>2, <2>1, <2>3 DEF n
<1> QED
  BY <1>1, <1>2, <1>4, <1>5, <1>6 DEF Follows, s

LEMMA NothingLost ==
  ASSUME CrashInv, UpInv({}, {}, {}), CutHeader, run = "up"
  PROVE  LostBlocks = {} /\ LostHeaders = {}
<1>1. /\ file \in FileType /\ file.mb = mb /\ file.hdr = hdr /\ file.bpn = bpn
      /\ TypeOK /\ CallInv
  BY SectionsParts DEF CrashInv, MemoryInv, SameSections
<1>2. HeadsMatch({}) /\ DiskInv({}, {})
  BY DEF UpInv
<1>3. HeaderInv({}) /\ FreeInv({}) /\ DeadInv({}) /\ ChainInv({})
  BY <1>2 DEF DiskInv
<1>4. Unowned({}) \subseteq FileFree
  <2>1. Unowned({}) \subseteq Blocks /\ Queue(Unowned({}), mb.bfl, mb.bft, BlockNext)
    BY <1>3 DEF FreeInv, Unowned
  <2>2. \A b \in Unowned({}) : file.bpn[b].next = BlockNext[b]
    BY <1>1, <2>1 DEF BlockNext
  <2> QED
    BY <1>1, <2>1, <2>2, FreeListsFound DEF FreeFound
<1>5. Spare({}) \subseteq FileFreeHeaders
  <2>1. Spare({}) \subseteq Headers /\ Queue(Spare({}), mb.hfl, mb.hft, HeaderNext)
    BY <1>3 DEF HeaderInv, Spare
  <2>2. \A h \in Spare({}) : file.hdr[h].next = HeaderNext[h]
    BY <1>1, <2>1 DEF HeaderNext
  <2> QED
    BY <1>1, <2>1, <2>2, FreeListsFound DEF SparesFound
<1>6. ASSUME NEW p \in DOMAIN tab, p # cut.path, tab[p].chain # <<>>
      PROVE  tab[p].loc \in HeadersInUse /\ \A b \in ChainLocs(p) : b \in FileBlocks
  <2>1. Follows(file, tab[p].loc, Locs(p))
    BY <1>1, <1>2, <1>3, <1>6, ChainFollows
  <2>2. tab[p].loc \in HeadersInUse /\ \A i \in DOMAIN Locs(p) : Locs(p)[i] \in FileBlocks
    BY <1>1, <2>1, WalkFollows DEF FollowedFound
  <2>3. tab[p] \in CachedFile
    BY <1>1, TypeParts
  <2> QED
    BY <2>2, <2>3, LocsParts
<1>7. ASSUME NEW b \in Blocks
      PROVE  b \in FileBlocks \cup FileFree \cup HandBlocks
  <2>1. CASE b \in Unowned({}) \/ b = req.blk \/ b \in RemovedBlocks
    BY <1>4, <2>1 DEF HandBlocks
  <2>2. ASSUME NEW p \in DOMAIN tab, b \in ChainLocs(p)
        PROVE  b \in FileBlocks \cup HandBlocks
    <3>1. CASE p = cut.path
      <4>1. cut # NoCut
        BY <1>1, <3>1, TypeParts, RSCAssumption DEF NoCut
      <4> QED
        BY <2>2, <3>1, <4>1 DEF HandBlocks
    <3>2. CASE p # cut.path
      <4>1. tab[p].chain # <<>>
        BY <2>2 DEF ChainLocs
      <4> QED
        BY <1>6, <2>2, <3>2, <4>1
    <3> QED
      BY <3>1, <3>2
  <2> QED
    BY <1>3, <2>1, <2>2, EveryBlockPlaced DEF BlockPlaces
<1>8. ASSUME NEW h \in Headers
      PROVE  h \in HeadersInUse \cup FileFreeHeaders \cup HandHeaders
  <2>1. CASE h \in Spare({}) \/ h = req.hdr
    BY <1>5, <2>1 DEF HandHeaders
  <2>2. ASSUME NEW p \in DOMAIN tab, h = tab[p].loc
        PROVE  h \in HeadersInUse \cup HandHeaders
    <3>1. CASE tab[p].chain = <<>>
      BY <2>2, <3>1 DEF HandHeaders
    <3>2. CASE tab[p].chain # <<>> /\ p = cut.path
      <4>1. cut # NoCut
        BY <1>1, <3>2, TypeParts, RSCAssumption DEF NoCut
      <4> QED
        BY <1>1, <1>8, <2>2, <3>2, <4>1 DEF CutHeader, HeadersInUse
    <3>3. CASE tab[p].chain # <<>> /\ p # cut.path
      BY <1>6, <2>2, <3>3
    <3> QED
      BY <3>1, <3>2, <3>3
  <2> QED
    BY <1>8, <2>1, <2>2 DEF Spare
<1> QED
  BY <1>7, <1>8 DEF LostBlocks, LostHeaders

-----------------------------------------------------------------------------
(* What a step moves: at most one block x and one header y.  The other     *)
(* ones stay where they are, and so do the pointers that lead to them, but *)
(* for those of the tails of the free lists.                               *)

BlockMoves(x) ==
  /\ cut' = cut
  /\ Unowned({})' \subseteq Unowned({}) \cup {x}
  /\ \A b \in Unowned({}) : b # mb.bft => bpn'[b].next = bpn[b].next
  /\ \A p \in DOMAIN tab' : p # cut.path =>
       \A b \in ChainLocs(p)' : b # x => p \in DOMAIN tab /\ b \in ChainLocs(p)
  /\ \A p \in DOMAIN tab : p # cut.path =>
       \A i \in 1 .. Len(tab[p].chain) - 1 :
         bpn'[tab[p].chain[i].loc].next = bpn[tab[p].chain[i].loc].next

HeaderMoves(y) ==
  /\ Spare({})' \subseteq Spare({}) \cup {y}
  /\ \A h \in Spare({}) : h # mb.hft => hdr'[h].next = hdr[h].next
  /\ \A p \in DOMAIN tab' : tab'[p].chain # <<>> /\ tab'[p].loc # y =>
       p \in DOMAIN tab /\ tab[p].loc = tab'[p].loc /\ tab[p].chain # <<>>
  /\ \A p \in DOMAIN tab : p \in DOMAIN tab' /\ tab[p].chain # <<>> =>
       hdr'[tab[p].loc].nodeHeader = hdr[tab[p].loc].nodeHeader

\* A stop between the writes of such a step loses no other.
LEMMA StopLosesOne ==
  ASSUME CrashInv, UpInv({}, {}, {}), CutHeader, TypeOK', DeadInv({})',
         file' \in FileType, Mixed(file'), NEW x, NEW y, BlockMoves(x), HeaderMoves(y)
  PROVE  LostBlocks' \subseteq {x} /\ LostHeaders' \subseteq {y}
<1>1. TypeOK /\ CallInv /\ file'.mb = mb
  BY DEF CrashInv, MemoryInv, Mixed
<1>2. HeadsMatch({}) /\ HeaderInv({}) /\ FreeInv({}) /\ DeadInv({}) /\ ChainInv({})
  BY DEF UpInv, DiskInv
<1>3. FreeFound' /\ SparesFound' /\ FollowedFound' /\ BlockPlaces'
  <2>1. FreeFound' /\ SparesFound'
    BY FreeListsFound, PTL
  <2>2. FollowedFound'
    BY WalkFollows, PTL
  <2>3. BlockPlaces'
    BY EveryBlockPlaced, PTL
  <2> QED
    BY <2>1, <2>2, <2>3
<1>4. Unowned({}) \subseteq FileFree'
  <2>1. Unowned({}) \subseteq Blocks /\ Queue(Unowned({}), mb.bfl, mb.bft, BlockNext)
    BY <1>2 DEF FreeInv, Unowned
  <2>2. \A b \in Unowned({}) : b # mb.bft => file'.bpn[b].next = BlockNext[b]
    BY <2>1 DEF BlockNext, Mixed, BlockMoves
  <2> QED
    BY <1>1, <1>3, <2>1, <2>2 DEF FreeFound
<1>5. Spare({}) \subseteq FileFreeHeaders'
  <2>1. Spare({}) \subseteq Headers /\ Queue(Spare({}), mb.hfl, mb.hft, HeaderNext)
    BY <1>2 DEF HeaderInv, Spare
  <2>2. \A h \in Spare({}) : h # mb.hft => file'.hdr[h].next = HeaderNext[h]
    BY <2>1 DEF HeaderNext, Mixed, HeaderMoves
  <2> QED
    BY <1>1, <1>3, <2>1, <2>2 DEF SparesFound
<1>6. ASSUME NEW p \in DOMAIN tab, p \in DOMAIN tab', p # cut.path, tab[p].chain # <<>>
      PROVE  tab[p].loc \in HeadersInUse' /\ \A b \in ChainLocs(p) : b \in FileBlocks'
  <2>1. tab[p] \in CachedFile /\ tab[p].loc \in Headers
    BY <1>1, TypeParts DEF CachedFile
  <2>2. file'.hdr[tab[p].loc].nodeHeader = hdr[tab[p].loc].nodeHeader
    BY <1>6, <2>1 DEF Mixed, HeaderMoves
  <2>3. \A i \in 1 .. Len(tab[p].chain) - 1 :
          file'.bpn[tab[p].chain[i].loc].next = bpn[tab[p].chain[i].loc].next
    <3> TAKE i \in 1 .. Len(tab[p].chain) - 1
    <3>1. tab[p].chain[i].loc \in Blocks
      <4>1. DOMAIN tab[p].chain = 1 .. Len(tab[p].chain) /\ Len(tab[p].chain) \in Nat
            /\ \A j \in 1 .. Len(tab[p].chain) : tab[p].chain[j].loc \in Blocks
        BY <2>1, ChainType
      <4>2. i \in 1 .. Len(tab[p].chain)
        BY <4>1
      <4> QED
        BY <4>1, <4>2
    <3>2. bpn'[tab[p].chain[i].loc].next = bpn[tab[p].chain[i].loc].next
      BY <1>6 DEF BlockMoves
    <3> QED
      BY <3>1, <3>2 DEF Mixed
  <2>4. Follows(file', tab[p].loc, Locs(p))
    BY <1>1, <1>2, <1>6, <2>2, <2>3, ChainFollows
  <2>5. tab[p].loc \in HeadersInUse' /\ \A i \in DOMAIN Locs(p) : Locs(p)[i] \in FileBlocks'
    BY <1>3, <2>4 DEF FollowedFound
  <2> QED
    BY <2>1, <2>5, LocsParts
<1>7. \A p : p \in DOMAIN tab /\ p = cut.path => cut # NoCut /\ cut' # NoCut
  BY <1>1, TypeParts, RSCAssumption DEF NoCut, BlockMoves
<1>8. ASSUME NEW b \in Blocks, b # x
      PROVE  b \in FileBlocks' \cup FileFree' \cup HandBlocks'
  <2>1. CASE b \in Unowned({})'
    BY <1>4, <1>8, <2>1 DEF BlockMoves
  <2>2. CASE b = req'.blk \/ b \in RemovedBlocks'
    BY <2>2 DEF HandBlocks
  <2>3. ASSUME NEW p \in DOMAIN tab', b \in ChainLocs(p)'
        PROVE  b \in FileBlocks' \cup HandBlocks'
    <3>1. CASE p = cut.path
      <4>1. p \in Paths /\ cut' = cut
        BY <2>3 DEF TypeOK, BlockMoves
      <4>2. cut' # NoCut /\ cut'.path = p
        BY <3>1, <4>1, RSCAssumption DEF NoCut
      <4> QED
        BY <2>3, <4>2 DEF HandBlocks
    <3>2. CASE p # cut.path
      <4>1. p \in DOMAIN tab /\ b \in ChainLocs(p)
        BY <1>8, <2>3, <3>2 DEF BlockMoves
      <4>2. tab[p].chain # <<>>
        BY <4>1 DEF ChainLocs
      <4> QED
        BY <1>6, <2>3, <3>2, <4>1, <4>2
    <3> QED
      BY <3>1, <3>2
  <2> QED
    BY <1>3, <2>1, <2>2, <2>3 DEF BlockPlaces
<1>9. ASSUME NEW h \in Headers, h # y
      PROVE  h \in HeadersInUse' \cup FileFreeHeaders' \cup HandHeaders'
  <2>1. CASE h \in Spare({})'
    BY <1>5, <1>9, <2>1 DEF HeaderMoves
  <2>2. CASE h = req'.hdr
    BY <2>2 DEF HandHeaders
  <2>3. ASSUME NEW p \in DOMAIN tab', h = tab'[p].loc
        PROVE  h \in HeadersInUse' \cup HandHeaders'
    <3>1. CASE tab'[p].chain = <<>>
      BY <2>3, <3>1 DEF HandHeaders
    <3>2. CASE tab'[p].chain # <<>>
      <4>1. p \in DOMAIN tab /\ tab[p].loc = h /\ tab[p].chain # <<>>
        BY <1>9, <2>3, <3>2 DEF HeaderMoves
      <4>2. CASE p # cut.path
        BY <1>6, <2>3, <4>1, <4>2
      <4>3. CASE p = cut.path
        <5>1. hdr[h].nodeHeader # INVLOC
          BY <1>7, <4>1, <4>3 DEF CutHeader
        <5>2. file'.hdr[h].nodeHeader # INVLOC
          BY <2>3, <4>1, <5>1 DEF Mixed, HeaderMoves
        <5> QED
          BY <1>9, <5>2 DEF HeadersInUse
      <4> QED
        BY <4>2, <4>3
    <3> QED
      BY <3>1, <3>2
  <2> QED
    BY <1>9, <2>1, <2>2, <2>3 DEF Spare
<1> QED
  BY <1>8, <1>9 DEF LostBlocks, LostHeaders

-----------------------------------------------------------------------------
(* The steps.                                                              *)

LEMMA NoBlockMoves ==
  ASSUME bpn' = bpn, req'.blk = req.blk, cut' = cut,
         \A p \in DOMAIN tab' : p \in DOMAIN tab /\ tab'[p].chain = tab[p].chain
  PROVE  BlockMoves(INVLOC)
  BY DEF BlockMoves, Unowned, ChainLocs

LEMMA NoHeaderMoves ==
  ASSUME req'.hdr = req.hdr, DOMAIN tab' = DOMAIN tab,
         \A p \in DOMAIN tab : /\ tab'[p].loc = tab[p].loc
                               /\ tab[p].chain = <<>> => tab'[p].chain = <<>>
                               /\ hdr'[tab[p].loc].nodeHeader = hdr[tab[p].loc].nodeHeader,
         \A h \in Spare({}) : hdr'[h].next = hdr[h].next
  PROVE  HeaderMoves(INVLOC)
  BY DEF HeaderMoves, Spare

LEMMA HeaderReturnMoves ==
  ASSUME TypeOK, HeaderInv({}), NEW h \in Headers, h \notin Spare({}), NEW p, Return_file_header(h, p),
         req'.hdr \in {req.hdr, INVLOC}, req.hdr \in {req'.hdr, h},
         \A q \in DOMAIN tab' : q \in DOMAIN tab /\ tab'[q] = tab[q] /\ tab[q].loc # h,
         \A q \in DOMAIN tab : q \notin DOMAIN tab' => tab[q].loc = h
  PROVE  HeaderMoves(h) /\ MbLast(Return_file_headerWrites(h))
<1>1. hdr \in [Headers -> HeaderType]
  BY TypeParts
<1>2. mb.hfl # INVLOC => mb.hft \in Spare({}) /\ mb.hft \in Headers /\ mb.hft # h
  BY QueueParts DEF HeaderInv, Spare
<1>3. /\ \A g \in Headers : g # h => hdr'[g].nodeHeader = hdr[g].nodeHeader
      /\ \A g \in Headers : g # h /\ g # mb.hft => hdr'[g].next = hdr[g].next
      /\ mb.hfl # INVLOC => hdr'[mb.hft].next = h
  <2>1. CASE mb.hfl = INVLOC
    BY <1>1, <2>1 DEF Return_file_header
  <2>2. CASE mb.hfl # INVLOC
    <3>1. hdr' = [hdr EXCEPT ![mb.hft].next = h, ![h] = FreeHeader(NoPath)]
      BY <2>2 DEF Return_file_header
    <3> QED
      BY <1>1, <1>2, <2>2, <3>1 DEF HeaderType
  <2> QED
    BY <2>1, <2>2
<1>4. \A q \in DOMAIN tab : tab[q].loc \in Headers
  BY TypeParts DEF CachedFile
<1>5. Spare({})' \subseteq Spare({}) \cup {h}
  BY DEF Spare
<1>6. \A g \in Spare({}) : g \in Headers /\ g # h
  BY DEF Spare
<1>7. HeaderMoves(h)
  BY <1>3, <1>4, <1>5, <1>6 DEF HeaderMoves
<1> QED
  BY <1>3, <1>7, HeaderReturnMbLast

LEMMA NewFileMoves ==
  ASSUME TypeOK, CallInv, HeaderInv({}), NEW p, NEW off, NEW len, InsertNewFile(p, off, len)
  PROVE  BlockMoves(INVLOC) /\ HeaderMoves(INVLOC) /\ MbLast(Alloc_file_headerWrites)
<1>1. req.blk = INVLOC /\ req.hdr = INVLOC /\ req'.blk = INVLOC
  BY DEF InsertNewFile, CallInv, NoReq
<1>2. bpn' = bpn /\ tab' = tab /\ cut' = cut
  BY DEF InsertNewFile
<1>3. BlockMoves(INVLOC)
  BY <1>1, <1>2, NoBlockMoves
<1>4. \A h \in Headers : hdr'[h].next = hdr[h].next /\ hdr'[h].nodeHeader = hdr[h].nodeHeader
  <2>1. hdr \in [Headers -> HeaderType] /\ hdr' = [hdr EXCEPT ![mb.hfl].path = p]
    BY TypeParts DEF InsertNewFile, Alloc_file_header
  <2> QED
    BY <2>1 DEF HeaderType
<1>5. \A q \in DOMAIN tab : tab[q].loc \in Headers
  BY TypeParts DEF CachedFile
<1>6. Spare({})' \subseteq Spare({}) /\ Spare({}) \subseteq Headers
  BY <1>1, <1>2, LocsAreNat DEF Spare
<1>7. HeaderMoves(INVLOC)
  BY <1>2, <1>4, <1>5, <1>6 DEF HeaderMoves
<1>8. MbLast(Alloc_file_headerWrites)
  BY EarlyWrites, MbLastLists DEF Alloc_file_headerWrites
<1> QED
  BY <1>3, <1>7, <1>8

LEMMA OverwriteMoves ==
  ASSUME TypeOK, HeaderInv({}), ChainInv({}), NEW p, NEW off, NEW end, OverwriteBlock(p, off, end), NEW b, NEW q
  PROVE  /\ BlockMoves(INVLOC) /\ HeaderMoves(INVLOC)
         /\ MbLast(<<<<"data", b, q>>, <<"hdr", tab[p].loc>>>>)
<1>1. /\ p \in DOMAIN tab /\ p # cut.path /\ tab' = [tab EXCEPT ![p].fileoff = Grow(@, end)]
      /\ hdr' = [hdr EXCEPT ![tab[p].loc] = HeaderOf(p, tab'[p])]
      /\ UNCHANGED <<bpn, req, cut>>
  BY DEF OverwriteBlock, Untouched
<1>2. /\ hdr \in [Headers -> HeaderType] /\ \A r \in DOMAIN tab : tab[r] \in CachedFile /\ tab[r].loc \in Headers
  BY TypeParts DEF CachedFile
<1>3. DOMAIN tab' = DOMAIN tab
      /\ \A r \in DOMAIN tab : /\ tab'[r].loc = tab[r].loc /\ tab'[r].chain = tab[r].chain
                               /\ tab'[r].nodeHeader = tab[r].nodeHeader
  BY <1>1, <1>2 DEF CachedFile
<1>4. BlockMoves(INVLOC)
  BY <1>1, <1>3, NoBlockMoves
<1>5. hdr[tab[p].loc].nodeHeader = tab[p].nodeHeader
  <2>1. hdr[tab[p].loc] = HeaderOf(p, tab[p])
    BY <1>1 DEF ChainInv, FileInv
  <2> QED
    BY <2>1 DEF HeaderOf
<1>6. \A h \in Headers : hdr'[h].nodeHeader = hdr[h].nodeHeader
  BY <1>1, <1>2, <1>3, <1>5 DEF HeaderOf
<1>7. \A h \in Spare({}) : hdr'[h].next = hdr[h].next
  BY <1>1, <1>2 DEF Spare
<1>8. HeaderMoves(INVLOC)
  BY <1>1, <1>2, <1>3, <1>6, <1>7, NoHeaderMoves
<1>9. MbLast(<<<<"data", b, q>>, <<"hdr", tab[p].loc>>>>)
  BY EarlyWrites, MbLastLists
<1> QED
  BY <1>4, <1>8, <1>9

LEMMA GiveUpMoves ==
  ASSUME TypeOK, CallInv, HeaderInv({}), GiveUp, req.hdr # INVLOC
  PROVE  BlockMoves(INVLOC) /\ HeaderMoves(req.hdr) /\ MbLast(Return_file_headerWrites(req.hdr))
<1>1. /\ Return_file_header(req.hdr, req.path) /\ req' = NoReq /\ pc = "alloc"
      /\ UNCHANGED <<bpn, tab, cut>>
  BY DEF GiveUp
<1>2. req.blk = INVLOC /\ req'.blk = INVLOC /\ req'.hdr = INVLOC
  BY <1>1 DEF CallInv, NoReq
<1>3. req.hdr \in Headers
  BY TypeParts DEF RequestType, HeaderOrNone
<1>4. req.hdr \notin Spare({}) /\ \A q \in DOMAIN tab : tab[q].loc # req.hdr
  BY DEF Spare, HeaderInv
<1>5. HeaderMoves(req.hdr) /\ MbLast(Return_file_headerWrites(req.hdr))
  BY <1>1, <1>2, <1>3, <1>4, HeaderReturnMoves
<1> QED
  BY <1>1, <1>2, <1>5, NoBlockMoves

LEMMA RemoveMoves ==
  ASSUME TypeOK, HeaderInv({}), NEW p \in DOMAIN tab, RemoveFile(p), req' = req, cut' = cut
  PROVE  BlockMoves(INVLOC) /\ HeaderMoves(tab[p].loc) /\ MbLast(Return_file_headerWrites(tab[p].loc))
<1>1. /\ Return_file_header(tab[p].loc, p) /\ bpn' = bpn
      /\ DOMAIN tab' = DOMAIN tab \ {p} /\ \A q \in DOMAIN tab' : tab'[q] = tab[q]
  BY DEF RemoveFile
<1>2. tab[p].loc \in Headers
  BY TypeParts DEF CachedFile
<1>3. tab[p].loc \notin Spare({}) /\ \A q \in DOMAIN tab' : tab[q].loc # tab[p].loc
  BY <1>1 DEF Spare, HeaderInv
<1>4. HeaderMoves(tab[p].loc) /\ MbLast(Return_file_headerWrites(tab[p].loc))
  BY <1>1, <1>2, <1>3, HeaderReturnMoves
<1> QED
  BY <1>1, <1>4, NoBlockMoves

LEMMA TailLinked ==
  ASSUME FreeInv({}), NEW nodes \in [Blocks -> NodeType], NEW b \in Blocks, b \notin Unowned({}),
         \A c \in Unowned({}) : nodes[c] = bpn[c], bpn' = NodesWithFree(mb, nodes, b)
  PROVE  /\ mb.bfl # INVLOC => bpn'[mb.bft].next = b
         /\ \A c \in Unowned({}) : c # mb.bft => bpn'[c].next = bpn[c].next
<1>1. \A c \in Unowned({}) : c \in Blocks /\ c # b
  BY DEF Unowned
<1>2. CASE mb.bfl = INVLOC
  BY <1>1, <1>2 DEF NodesWithFree
<1>3. CASE mb.bfl # INVLOC
  <2>1. bpn' = [nodes EXCEPT ![mb.bft].next = b, ![b] = FreeNode]
    BY <1>3 DEF NodesWithFree
  <2>2. mb.bft \in Unowned({})
    BY <1>3, QueueParts DEF FreeInv
  <2>3. mb.bft \in Blocks /\ mb.bft # b
    BY <1>1, <2>2
  <2>4. nodes[mb.bft] \in NodeType
    BY <2>3
  <2>5. /\ bpn'[mb.bft] = [nodes[mb.bft] EXCEPT !.next = b]
        /\ \A c \in Blocks : c # b /\ c # mb.bft => bpn'[c] = nodes[c]
    BY <2>1, <2>3
  <2>6. bpn'[mb.bft].next = b
    BY <2>4, <2>5 DEF NodeType
  <2> QED
    BY <1>1, <2>5, <2>6
<1> QED
  BY <1>2, <1>3

LEMMA LinkNewFileMoves ==
  ASSUME TypeOK, CallInv, HeaderInv({}), FreeInv({}), DeadInv({}), ChainInv({}), LinkNewFile
  PROVE  /\ BlockMoves(req.blk) /\ HeaderMoves(req.hdr)
         /\ MbLast(InsertWrites(req.blk, req.path, <<>>, req.hdr))
<1> DEFINE b == req.blk
           h == req.hdr
<1>0. PICK p \in Paths : p = req.path
  BY DEF LinkNewFile, CallInv
<1>1. b \in Blocks /\ h \in Headers /\ p \notin DOMAIN tab /\ cut' = cut /\ req'.hdr = INVLOC
  BY <1>0, TypeParts DEF LinkNewFile, CallInv, RequestType, BlockOrNone, HeaderOrNone, NoReq
<1>2. Unowned({})' = Unowned({})
  BY NewFileLinked
<1>3. PICK f : /\ f = [loc |-> h, nodeHeader |-> b, nodeTail |-> b,
                       fileoff |-> Grow(hdr[h].fileoff, req.end),
                       chain |-> <<[loc |-> b, off |-> req.off]>>, sn |-> "null"]
               /\ tab' = [q \in DOMAIN tab \cup {p} |-> IF q = p THEN f ELSE tab[q]]
               /\ hdr' = [hdr EXCEPT ![f.loc] = HeaderOf(p, f)]
               /\ bpn' = [bpn EXCEPT ![b] = [next |-> INVLOC, fhloc |-> f.loc, off |-> req.off]]
  BY <1>0 DEF LinkNewFile
<1>4. /\ f.loc = h /\ f.chain = <<[loc |-> b, off |-> req.off]>>
      /\ DOMAIN f.chain = {1} /\ f.chain[1].loc = b
  BY <1>3
<1>5. DOMAIN tab' = DOMAIN tab \cup {p} /\ tab'[p] = f /\ \A q \in DOMAIN tab : tab'[q] = tab[q]
  BY <1>1, <1>3
<1>6. /\ \A c \in Blocks \ {b} : bpn'[c] = bpn[c]
      /\ \A g \in Headers \ {h} : hdr'[g] = hdr[g]
  BY <1>1, <1>3, <1>4, TypeParts
<1>7. \A c \in Unowned({}) : c \in Blocks \ {b}
  BY DEF Unowned
<1>8. \A q \in DOMAIN tab : \A i \in 1 .. Len(tab[q].chain) - 1 : tab[q].chain[i].loc \in Blocks \ {b}
  <2> SUFFICES ASSUME NEW q \in DOMAIN tab, NEW i \in 1 .. Len(tab[q].chain) - 1
               PROVE  tab[q].chain[i].loc \in Blocks \ {b}
    OBVIOUS
  <2>1. Len(tab[q].chain) \in Nat /\ DOMAIN tab[q].chain = 1 .. Len(tab[q].chain)
    BY TypeParts, ChainType
  <2>2. i \in DOMAIN tab[q].chain
    BY <2>1
  <2> QED
    BY <2>2, ChainBlock
<1>9. BlockMoves(b)
  <2>1. ChainLocs(p)' = {f.chain[i].loc : i \in {1}}
    BY <1>4, <1>5 DEF ChainLocs
  <2>2. \A q \in DOMAIN tab : ChainLocs(q)' = ChainLocs(q)
    BY <1>5 DEF ChainLocs
  <2>3. \A q \in DOMAIN tab' : \A c \in ChainLocs(q)' : c # b => q \in DOMAIN tab /\ c \in ChainLocs(q)
    BY <1>4, <1>5, <2>1, <2>2
  <2>4. \A c \in Unowned({}) : bpn'[c] = bpn[c]
    BY <1>6, <1>7
  <2>5. \A q \in DOMAIN tab : \A i \in 1 .. Len(tab[q].chain) - 1 :
          bpn'[tab[q].chain[i].loc] = bpn[tab[q].chain[i].loc]
    BY <1>6, <1>8
  <2> HIDE DEF b, h
  <2> QED
    BY ONLY <1>1, <1>2, <2>3, <2>4, <2>5 DEF BlockMoves
<1>10. HeaderMoves(h)
  <2>1. \A q \in DOMAIN tab : tab[q].loc \in Headers \ {h}
    BY <1>1, TypeParts DEF CachedFile, HeaderInv
  <2>2. Spare({})' \subseteq Spare({}) \cup {h} /\ \A g \in Spare({}) : g \in Headers \ {h}
    BY <1>5 DEF Spare
  <2> HIDE DEF b, h
  <2> QED
    BY <1>4, <1>5, <1>6, <2>1, <2>2 DEF HeaderMoves
<1> QED
  BY <1>9, <1>10, InsertMbLast

LEMMA LinkBlockMoves ==
  ASSUME TypeOK, CallInv, HeaderInv({}), FreeInv({}), DeadInv({}), ChainInv({}), LinkBlock
  PROVE  /\ BlockMoves(req.blk)
         /\ HeaderMoves(IF tab[req.path].chain = <<>> THEN tab[req.path].loc ELSE INVLOC)
<1>0. PICK p \in DOMAIN tab : p = req.path
  BY DEF LinkBlock
<1> DEFINE b == req.blk
           off == req.off
           f == tab[p]
           c == tab[p].chain
           n == Len(c)
           y == IF c = <<>> THEN f.loc ELSE INVLOC
<1>1. /\ p \in DOMAIN tab /\ b \in Blocks /\ off \in BlockOffs /\ req.end \in Nat /\ f \in CachedFile
      /\ f.loc \in Headers /\ cut' = cut /\ req.hdr = INVLOC /\ req'.hdr = INVLOC
  BY <1>0, TypeParts DEF LinkBlock, CallInv, RequestType, BlockOrNone, CachedFile, NoReq
<1>2. PICK g : /\ g = WithBlock(f, b, off, req.end)
               /\ tab' = [tab EXCEPT ![p] = g]
               /\ hdr' = [hdr EXCEPT ![f.loc] = HeaderOf(p, g)]
               /\ bpn' = NodesWithLink(f, b, off)
  BY <1>0 DEF LinkBlock
<1>3. n \in Nat /\ DOMAIN c = 1 .. n /\ (c = <<>> <=> n = 0) /\ \A i \in 1 .. n : c[i].loc \in Blocks
  BY <1>1, ChainType
<1>4. g \in CachedFile /\ g.loc = f.loc /\ g.chain = Append(c, [loc |-> b, off |-> off])
  BY <1>1, <1>2, WithBlockType
<1>5. DOMAIN tab' = DOMAIN tab /\ tab'[p] = g /\ \A q \in DOMAIN tab \ {p} : tab'[q] = tab[q]
  BY <1>1, <1>2
<1>6. ChainLocs(p)' \subseteq ChainLocs(p) \cup {b}
  <2>1. /\ DOMAIN g.chain = 1 .. (n + 1) /\ \A i \in 1 .. n : g.chain[i] = c[i]
        /\ g.chain[n + 1].loc = b
    <3>1. c \in Seq(ChainNode) /\ [loc |-> b, off |-> off] \in ChainNode
      BY <1>1 DEF CachedFile, ChainNode
    <3> QED
      BY <1>3, <1>4, <3>1, AppendProperties
  <2>2. \A i \in 1 .. (n + 1) : i \in 1 .. n \/ i = n + 1
    BY <1>3
  <2>3. ChainLocs(p)' = {g.chain[i].loc : i \in 1 .. (n + 1)}
    BY <1>5, <2>1 DEF ChainLocs
  <2>4. ChainLocs(p) = {c[i].loc : i \in 1 .. n}
    BY <1>3 DEF ChainLocs
  <2> HIDE DEF b, off, f, c, n
  <2> QED
    BY ONLY <2>1, <2>2, <2>3, <2>4
<1>7. \A d \in Blocks \ {b} : (n # 0 => d # c[n].loc) => bpn'[d] = bpn[d]
  <2> DEFINE old == IF f.chain = <<>> THEN {} ELSE {Last(f.chain).loc}
  <2>1. \A i \in DOMAIN c : c[i].loc # b
    BY <1>1, ChainBlock
  <2>2. /\ bpn'[b] = [next |-> INVLOC, fhloc |-> f.loc, off |-> off]
        /\ \A d \in old : /\ d \in Blocks /\ bpn'[d].next = b
                          /\ bpn'[d].fhloc = bpn[d].fhloc /\ bpn'[d].off = bpn[d].off
        /\ \A d \in Blocks : d # b /\ d \notin old => bpn'[d] = bpn[d]
    BY <1>1, <1>2, <2>1, LinkedNodes
  <2>3. old = IF n = 0 THEN {} ELSE {c[n].loc}
    BY <1>3 DEF Last
  <2> HIDE DEF old, b, off, f, c, n
  <2> QED
    BY ONLY <2>2, <2>3
<1>8. n # 0 => c[n].loc \notin Unowned({}) /\ \A q \in DOMAIN tab \ {p} : c[n].loc \notin ChainLocs(q)
  <2>1. n # 0 => n \in DOMAIN c
    BY <1>3
  <2> QED
    BY <1>1, <2>1, ChainBlock
<1>9. ASSUME NEW q \in DOMAIN tab, NEW i \in 1 .. Len(tab[q].chain) - 1
      PROVE  bpn'[tab[q].chain[i].loc] = bpn[tab[q].chain[i].loc]
  <2> DEFINE d == tab[q].chain[i].loc
             m == Len(tab[q].chain)
  <2>1. m \in Nat /\ DOMAIN tab[q].chain = 1 .. m
    BY TypeParts, ChainType
  <2>2. i \in 1 .. m /\ m \in 1 .. m /\ i # m
    BY <1>9, <2>1
  <2>3. d \in Blocks \ {b} /\ d \in ChainLocs(q)
    BY <2>1, <2>2, ChainBlock DEF ChainLocs
  <2>4. CASE q # p
    BY <1>1, <1>7, <1>8, <2>3, <2>4
  <2>5. CASE q = p
    <3>1. c[i].loc # c[n].loc
      BY <2>1, <2>2, <2>5 DEF ChainInv, FileInv, NodesInv
    <3> QED
      BY <1>7, <2>3, <2>5, <3>1
  <2> QED
    BY <2>4, <2>5
<1>10. Unowned({})' = Unowned({}) /\ \A d \in Unowned({}) : d \in Blocks \ {b}
  BY BlockAppended DEF Unowned
<1>11. BlockMoves(b)
  <2>1. \A d \in Unowned({}) : bpn'[d] = bpn[d]
    BY <1>7, <1>8, <1>10
  <2>2. \A q \in DOMAIN tab' : q # p => ChainLocs(q)' = ChainLocs(q)
    BY <1>5 DEF ChainLocs
  <2>3. \A q \in DOMAIN tab' : \A d \in ChainLocs(q)' : d # b => q \in DOMAIN tab /\ d \in ChainLocs(q)
    BY <1>5, <1>6, <2>2
  <2>4. cut' = cut
    BY <1>1
  <2> HIDE DEF b, off, f, c, n, y
  <2> QED
    BY ONLY <2>4, <1>9, <1>10, <2>1, <2>3 DEF BlockMoves
<1>12. HeaderMoves(y)
  <2>1. /\ \A q \in DOMAIN tab : tab[q].loc \in Headers
        /\ \A q \in DOMAIN tab \ {p} : tab[q].loc # f.loc
    BY <1>1, TypeParts DEF CachedFile, HeaderInv
  <2>2. \A h \in Headers \ {f.loc} : hdr'[h] = hdr[h]
    BY <1>1, <1>2, TypeParts
  <2>3. Spare({})' = Spare({}) /\ \A h \in Spare({}) : h \in Headers \ {f.loc}
    <3>1. \A q \in DOMAIN tab : tab'[q].loc = tab[q].loc
      BY <1>4, <1>5
    <3> QED
      BY <1>1, <1>5, <3>1 DEF Spare
  <2>4. \A q \in DOMAIN tab' : tab'[q].chain # <<>> /\ tab'[q].loc # y =>
          q \in DOMAIN tab /\ tab[q].loc = tab'[q].loc /\ tab[q].chain # <<>>
    BY <1>4, <1>5
  <2>5. tab[p].chain # <<>> => hdr'[f.loc].nodeHeader = hdr[f.loc].nodeHeader
    <3> SUFFICES ASSUME c # <<>> PROVE hdr'[f.loc].nodeHeader = hdr[f.loc].nodeHeader
      OBVIOUS
    <3>1. p # cut.path
      BY <1>0 DEF LinkBlock, CallInv
    <3>2. hdr[f.loc] = HeaderOf(p, f)
      BY <1>1, <3>1 DEF ChainInv, FileInv
    <3>3. hdr'[f.loc] = HeaderOf(p, g)
      BY <1>1, <1>2, TypeParts
    <3>4. g.nodeHeader = f.nodeHeader
      BY <1>1, <1>2 DEF WithBlock, CachedFile
    <3> QED
      BY <3>2, <3>3, <3>4 DEF HeaderOf
  <2> HIDE DEF b, off, f, c, n, y
  <2> QED
    BY <2>1, <2>2, <2>3, <2>4, <2>5 DEF HeaderMoves, f
<1> QED
  BY <1>0, <1>11, <1>12

LEMMA RmBlockMoves ==
  ASSUME TypeOK, HeaderInv({}), FreeInv({}), DeadInv({}), ChainInv({}), RmBlock
  PROVE  BlockMoves(walk) /\ HeaderMoves(INVLOC) /\ MbLast(Return_file_blockWrites(walk))
<1> DEFINE b == walk
<1>1. /\ mb' = MbWithBlock(mb, b) /\ bpn' = NodesWithFree(mb, bpn, b)
      /\ hdr' = hdr /\ tab' = tab /\ req' = req /\ cut' = cut
  BY DEF RmBlock, Return_file_block
<1>2. b \in Dead({}) /\ Unowned({})' = Unowned({}) \cup {b}
  BY DeadReturned
<1>3. b \in Blocks /\ b \notin Unowned({}) /\ b # req.blk /\ bpn \in [Blocks -> NodeType]
  BY <1>2, TypeParts, LocsAreNat DEF Dead, Unowned, FreeInv
<1>4. /\ mb.bfl # INVLOC => bpn'[mb.bft].next = b
      /\ \A c \in Unowned({}) : c # mb.bft => bpn'[c].next = bpn[c].next
  BY <1>1, <1>3, TailLinked
<1>5. \A c \in Blocks : c \notin Unowned({}) /\ c # b => bpn'[c] = bpn[c]
  <2>1. \A L : L = {} => b \notin L
    OBVIOUS
  <2> HIDE DEF b
  <2> QED
    BY <1>1, <1>3, <2>1, BlockReturned
<1>6. ASSUME NEW q \in DOMAIN tab, NEW i \in 1 .. Len(tab[q].chain) - 1
      PROVE  bpn'[tab[q].chain[i].loc] = bpn[tab[q].chain[i].loc]
  <2>1. Len(tab[q].chain) \in Nat /\ DOMAIN tab[q].chain = 1 .. Len(tab[q].chain)
    BY TypeParts, ChainType
  <2>2. i \in DOMAIN tab[q].chain
    BY <2>1
  <2>3. tab[q].chain[i].loc \in Blocks /\ tab[q].chain[i].loc \notin Unowned({})
        /\ tab[q].chain[i].loc \notin Dead({})
    BY <2>2, ChainBlock
  <2> QED
    BY <1>2, <1>5, <2>3
<1>7. BlockMoves(b)
  <2>1. \A q \in DOMAIN tab : ChainLocs(q)' = ChainLocs(q)
    BY <1>1 DEF ChainLocs
  <2>2. \A q \in DOMAIN tab' : \A d \in ChainLocs(q)' : d # b => q \in DOMAIN tab /\ d \in ChainLocs(q)
    BY <1>1, <2>1
  <2>3. cut' = cut
    BY <1>1
  <2> HIDE DEF b
  <2> QED
    BY ONLY <1>2, <1>4, <1>6, <2>2, <2>3 DEF BlockMoves
<1>8. HeaderMoves(INVLOC)
  BY <1>1, NoHeaderMoves
<1> QED
  BY <1>4, <1>7, <1>8, BlockReturnMbLast

LEMMA TruncateBlockMoves ==
  ASSUME TypeOK, CallInv, HeaderInv({}), FreeInv({}), DeadInv({}), ChainInv({}),
         TruncateBlock, NEW i \in CutNodes, CutBlock(i)
  PROVE  /\ BlockMoves(tab[cut.path].chain[i].loc) /\ HeaderMoves(INVLOC)
         /\ MbLast(TruncateWrites(tab[cut.path], i))
<1>1. PICK p \in DOMAIN tab : p = cut.path
  BY DEF TruncateBlock, CallInv
<1> DEFINE c == tab[p].chain
           n == Len(c)
           b == c[i].loc
           nodes == NodesWithoutLast(tab[p], i)
<1>2. /\ i \in DOMAIN c
      /\ tab' = [tab EXCEPT ![p] = WithoutNode(tab[p], i)]
      /\ mb' = MbWithBlock(mb, b) /\ bpn' = NodesWithFree(mb, nodes, b)
  BY <1>1 DEF CutBlock, CutNodes
<1>3. tab[p] \in CachedFile /\ hdr' = hdr /\ req' = req /\ cut' = cut
  BY <1>1, TypeParts DEF TruncateBlock
<1>4. n \in Nat /\ DOMAIN c = 1 .. n /\ i \in 1 .. n /\ c # <<>>
  BY <1>2, <1>3, ChainType
<1>5. /\ DOMAIN tab' = DOMAIN tab /\ tab'[p].loc = tab[p].loc
      /\ \A q \in DOMAIN tab \ {p} : tab'[q] = tab[q]
  BY <1>2, <1>3, WithoutNodeType
<1>6. /\ b \in Blocks /\ b \notin Unowned({}) /\ b # req.blk
      /\ \A q \in DOMAIN tab \ {p} : b \notin ChainLocs(q)
  BY <1>2, ChainBlock
<1>7. /\ nodes \in [Blocks -> NodeType]
      /\ \A e \in Blocks : nodes[e].fhloc = bpn[e].fhloc
      /\ \A e \in Blocks : (i = n /\ i # 1 => e # c[i - 1].loc) => nodes[e] = bpn[e]
      /\ \A e \in Unowned({}) : nodes[e] = bpn[e]
  <2> DEFINE old == IF i = n /\ i # 1 THEN {c[i - 1].loc} ELSE {}
  <2>1. /\ nodes \in [Blocks -> NodeType]
        /\ \A e \in old : e \in Blocks /\ nodes[e].next = INVLOC
        /\ \A e \in Blocks : nodes[e].fhloc = bpn[e].fhloc /\ nodes[e].off = bpn[e].off
        /\ \A e \in Blocks : e \notin old => nodes[e] = bpn[e]
        /\ \A e \in Unowned({}) \cup Dead({}) : nodes[e] = bpn[e]
    BY <1>2, LastNodeUnlinked
  <2> HIDE DEF nodes, c, n
  <2> QED
    BY ONLY <2>1
<1>8. /\ mb.bfl # INVLOC => bpn'[mb.bft].next = b
      /\ \A e \in Unowned({}) : e # mb.bft => bpn'[e].next = bpn[e].next
  <2> HIDE DEF nodes, b
  <2> QED
    BY <1>2, <1>6, <1>7, TailLinked
<1>9. /\ Unowned({})' = Unowned({}) \cup {b}
      /\ \A e \in Blocks : e \notin Unowned({}) /\ e # b => bpn'[e] = nodes[e]
  <2>1. \A L : L = {} => b \notin L
    OBVIOUS
  <2> HIDE DEF nodes, b
  <2> QED
    BY <1>2, <1>3, <1>6, <1>7, <2>1, BlockReturned
<1>10. \A q \in DOMAIN tab \ {p} : ChainLocs(q)' = ChainLocs(q)
  BY <1>5 DEF ChainLocs
<1>11. ASSUME NEW q \in DOMAIN tab, q # p, NEW j \in 1 .. Len(tab[q].chain) - 1
       PROVE  bpn'[tab[q].chain[j].loc] = bpn[tab[q].chain[j].loc]
  <2> DEFINE d == tab[q].chain[j].loc
  <2>1. Len(tab[q].chain) \in Nat /\ DOMAIN tab[q].chain = 1 .. Len(tab[q].chain)
    BY TypeParts, ChainType
  <2>2. j \in DOMAIN tab[q].chain
    BY <2>1
  <2>3. d \in Blocks /\ d \notin Unowned({}) /\ d \in ChainLocs(q) /\ d \notin ChainLocs(p)
    BY <1>11, <2>2, ChainBlock DEF ChainLocs
  <2>4. d # b
    BY <1>6, <1>11, <2>3
  <2>5. i = n /\ i # 1 => d # c[i - 1].loc
    <3>1. i # 1 => i - 1 \in DOMAIN c
      BY <1>4
    <3>2. i # 1 => c[i - 1].loc \in ChainLocs(p)
      BY <3>1 DEF ChainLocs
    <3> QED
      BY <2>3, <3>2
  <2> HIDE DEF d, c, n, b, nodes
  <2> QED
    BY <1>7, <1>9, <2>3, <2>4, <2>5 DEF d
<1>12. BlockMoves(b)
  <2>1. \A q \in DOMAIN tab' : q # p => \A d \in ChainLocs(q)' : q \in DOMAIN tab /\ d \in ChainLocs(q)
    BY <1>5, <1>10
  <2>2. cut' = cut /\ p = cut.path
    BY <1>1, <1>3
  <2> HIDE DEF c, n, b, nodes
  <2> QED
    BY ONLY <1>8, <1>9, <1>11, <2>1, <2>2 DEF BlockMoves
<1>13. HeaderMoves(INVLOC)
  <2>1. \A q \in DOMAIN tab : tab'[q].loc = tab[q].loc /\ (tab[q].chain = <<>> => tab'[q].chain = <<>>)
    BY <1>4, <1>5
  <2> QED
    BY <1>3, <1>5, <2>1, NoHeaderMoves
<1>14. MbLast(TruncateWrites(tab[p], i))
  <2> DEFINE prev == c[i - 1].loc
  <2>1. /\ MbLast(Return_file_blockWrites(b))
        /\ MbLast(<<<<"bpn", prev>>>> \o Return_file_blockWrites(b))
    BY <1>8, BlockReturnMbLast
  <2>2. CASE i = n /\ i # 1
    BY <2>1, <2>2 DEF TruncateWrites
  <2>3. CASE ~(i = n /\ i # 1)
    <3>1. TruncateWrites(tab[p], i) = <<>> \o Return_file_blockWrites(b)
      BY <2>3 DEF TruncateWrites
    <3>2. <<>> \o Return_file_blockWrites(b) = Return_file_blockWrites(b)
      BY DEF Return_file_blockWrites
    <3> QED
      BY <2>1, <3>1, <3>2
  <2> QED
    BY <2>2, <2>3
<1> QED
  BY <1>1, <1>12, <1>13, <1>14

\* A step that a stop interrupts has moved one block and one header at most,
\* and the pointers of the file are those before it or those after it.
LEMMA StopMoves ==
  ASSUME CrashInv, UpInv({}, {}, {}), CrashNext, run' = "stopped"
  PROVE  Mixed(file') /\ \E x, y : BlockMoves(x) /\ HeaderMoves(y)
<1> DEFINE Goal == Mixed(file') /\ \E x, y : BlockMoves(x) /\ HeaderMoves(y)
<1>1. TypeOK /\ CallInv /\ StaleMatches /\ HeaderLengths /\ file \in FileType
  BY DEF CrashInv, MemoryInv
<1>2. \E writes : Writing(writes)
  BY <1>1, WritesKnown DEF TailAsserts, Kill, Init_RSC_table_m
<1>3. Sections' \in SectionsType /\ run = "up" /\ SameSections(file, Sections)
  BY <1>1, <1>2, NextSections DEF Writing, Step, CrashInv
<1>4. HeaderInv({}) /\ FreeInv({}) /\ DeadInv({}) /\ ChainInv({})
  BY DEF UpInv, DiskInv
<1>5. ASSUME NEW writes, NEW x, NEW y,
             Step(writes), Good(writes), MbLast(writes), BlockMoves(x), HeaderMoves(y)
      PROVE  Goal
  BY <1>1, <1>3, <1>5, StopMixes
<1>6. ASSUME Step(<<>>)
      PROVE  FALSE
  <2>1. Len(<<>>) = 0 /\ Good(<<>>)
    BY DEF Good
  <2> QED
    BY <1>1, <1>3, <1>6, <2>1, ShortNotStopped
<1>7. ASSUME NEW w, GoodWrite(w), Step(<<w>>)
      PROVE  FALSE
  <2>1. Len(<<w>>) = 1 /\ \A k \in 1 .. 1 : <<w>>[k] = w
    OBVIOUS
  <2>2. Good(<<w>>)
    BY <1>7, <2>1 DEF Good
  <2> QED
    BY <1>1, <1>3, <1>7, <2>1, <2>2, ShortNotStopped
<1>8. GoodWrite(<<"mb">>) /\ \A x : GoodWrite(<<"hdr", x>>) /\ GoodWrite(<<"bpn", x>>) /\ \A p \in Paths : GoodWrite(<<"data", x, p>>)
  BY GoodWrites
<1>9. \A writes : Complete(writes) => Good(writes)
  BY DEF Complete, Good
<1>10. ASSUME NEW h \in Headers, NEW p, Return_file_header(h, p), bpn' = bpn
       PROVE  Good(Return_file_headerWrites(h))
  BY <1>1, <1>3, <1>9, <1>10, HeaderReturnedWrites
<1>11. ASSUME NEW p \in DOMAIN tab, RemoveFile(p), req' = req, cut' = cut, Step(Return_file_headerWrites(tab[p].loc))
       PROVE  Goal
  <2>1. tab[p].loc \in Headers
    BY <1>1, TypeParts DEF CachedFile
  <2>2. Good(Return_file_headerWrites(tab[p].loc))
    BY <1>10, <1>11, <2>1 DEF RemoveFile
  <2>3. BlockMoves(INVLOC) /\ HeaderMoves(tab[p].loc) /\ MbLast(Return_file_headerWrites(tab[p].loc))
    BY <1>1, <1>4, <1>11, RemoveMoves
  <2> QED
    BY <1>5, <1>11, <2>2, <2>3
<1>12. CASE Inserts
  <2> SUFFICES ASSUME NEW p \in Paths, NEW off \in BlockOffs,
                      \/ InsertNewFile(p, off, CBlkSize) /\ Step(Alloc_file_headerWrites)
                      \/ Step(<<>>)
                      \/ /\ OverwriteBlock(p, off, off + CBlkSize)
                         /\ \E i \in DOMAIN tab[p].chain :
                              /\ tab[p].chain[i].off = off
                              /\ Step(<<<<"data", tab[p].chain[i].loc, p>>, <<"hdr", tab[p].loc>>>>)
               PROVE  Goal
    BY <1>12 DEF Inserts
  <2>1. CASE InsertNewFile(p, off, CBlkSize) /\ Step(Alloc_file_headerWrites)
    <3>1. Good(Alloc_file_headerWrites)
      BY <1>8, GoodLists DEF Alloc_file_headerWrites
    <3>2. BlockMoves(INVLOC) /\ HeaderMoves(INVLOC) /\ MbLast(Alloc_file_headerWrites)
      BY <1>1, <1>4, <2>1, NewFileMoves
    <3> QED
      BY <1>5, <2>1, <3>1, <3>2
  <2>2. CASE Step(<<>>)
    BY <1>6, <2>2
  <2>3. ASSUME OverwriteBlock(p, off, off + CBlkSize), NEW i \in DOMAIN tab[p].chain,
               Step(<<<<"data", tab[p].chain[i].loc, p>>, <<"hdr", tab[p].loc>>>>)
        PROVE  Goal
    <3> DEFINE b == tab[p].chain[i].loc
               writes == <<<<"data", b, p>>, <<"hdr", tab[p].loc>>>>
    <3>1. Good(writes)
      BY <1>8, GoodLists
    <3>2. BlockMoves(INVLOC) /\ HeaderMoves(INVLOC) /\ MbLast(writes)
      BY <1>1, <1>4, <2>3, OverwriteMoves
    <3>3. Step(writes)
      BY <2>3
    <3> HIDE DEF writes
    <3> QED
      BY <1>5, <3>1, <3>2, <3>3
  <2> QED
    BY <2>1, <2>2, <2>3
<1>13. CASE AllocSteps
  <2>1. CASE Step(<<<<"mb">>>>)
    BY <1>7, <1>8, <2>1
  <2>2. CASE GiveUp /\ Step(IF req.hdr = INVLOC THEN <<>> ELSE Return_file_headerWrites(req.hdr))
    <3>1. CASE req.hdr = INVLOC
      BY <1>6, <2>2, <3>1
    <3>2. CASE req.hdr # INVLOC
      <4>1. req.hdr \in Headers
        BY <1>1, <3>2, TypeParts DEF RequestType, HeaderOrNone
      <4>2. Good(Return_file_headerWrites(req.hdr)) /\ Step(Return_file_headerWrites(req.hdr))
        BY <1>10, <2>2, <3>2, <4>1 DEF GiveUp
      <4>3. BlockMoves(INVLOC) /\ HeaderMoves(req.hdr) /\ MbLast(Return_file_headerWrites(req.hdr))
        BY <1>1, <1>4, <2>2, <3>2, GiveUpMoves
      <4> QED
        BY <1>5, <4>2, <4>3
    <3> QED
      BY <3>1, <3>2
  <2>3. CASE Evict /\ Step(Return_file_headerWrites(tab[Head(stale)].loc))
    <3>1. Head(stale) \in DOMAIN tab /\ RemoveFile(Head(stale)) /\ req' = req /\ cut' = cut
      BY <1>1, <2>3, StaleHead DEF Evict
    <3> QED
      BY <1>11, <2>3, <3>1
  <2>4. CASE Step(<<>>)
    BY <1>6, <2>4
  <2> QED
    BY <1>13, <2>1, <2>2, <2>3, <2>4 DEF AllocSteps
<1>14. CASE LinkSteps
  <2>1. CASE LinkNewFile /\ Step(InsertWrites(req.blk, req.path, <<>>, req.hdr))
    <3>1. req.path \in Paths
      BY <1>1, <2>1 DEF LinkNewFile, CallInv
    <3>2. Good(InsertWrites(req.blk, req.path, <<>>, req.hdr))
      BY <3>1, GoodInsert
    <3>3. /\ BlockMoves(req.blk) /\ HeaderMoves(req.hdr)
          /\ MbLast(InsertWrites(req.blk, req.path, <<>>, req.hdr))
      BY <1>1, <1>4, <2>1, LinkNewFileMoves
    <3> QED
      BY <1>5, <2>1, <3>2, <3>3
  <2>2. ASSUME LinkBlock, NEW prev, NEW last, prev = <<>> \/ prev = <<<<"bpn", last>>>>,
               Step(InsertWrites(req.blk, req.path, prev, tab[req.path].loc))
        PROVE  Goal
    <3> DEFINE writes == InsertWrites(req.blk, req.path, prev, tab[req.path].loc)
    <3>1. req.path \in Paths
      BY <1>1, <2>2, TypeParts DEF LinkBlock
    <3>2. Good(writes) /\ MbLast(writes)
      BY <2>2, <3>1, GoodInsert, InsertMbLast
    <3>3. Step(writes)
      BY <2>2
    <3> HIDE DEF writes
    <3>4. PICK y : BlockMoves(req.blk) /\ HeaderMoves(y)
      BY <1>1, <1>4, <2>2, LinkBlockMoves
    <3> QED
      BY <1>5, <3>2, <3>3, <3>4
  <2>3. CASE Step(<<>>)
    BY <1>6, <2>3
  <2> QED
    BY <1>14, <2>1, <2>2, <2>3 DEF LinkSteps
<1>15. CASE Removes
  <2>1. ASSUME NEW p \in Paths, Rm(p), Step(Return_file_headerWrites(tab[p].loc))
        PROVE  Goal
    BY <1>11, <2>1 DEF Rm
  <2>2. CASE RmBlock /\ Step(Return_file_blockWrites(walk))
    <3>1. walk \in Blocks /\ Return_file_block(walk) /\ hdr' = hdr
      BY <1>1, <2>2, TypeParts DEF RmBlock, BlockOrNone
    <3>2. Good(Return_file_blockWrites(walk))
      BY <1>1, <1>3, <1>9, <3>1, BlockReturnedWrites
    <3>3. BlockMoves(walk) /\ HeaderMoves(INVLOC) /\ MbLast(Return_file_blockWrites(walk))
      BY <1>1, <1>4, <2>2, RmBlockMoves
    <3> QED
      BY <1>5, <2>2, <3>2, <3>3
  <2>3. CASE Step(<<>>)
    BY <1>6, <2>3
  <2> QED
    BY <1>15, <2>1, <2>2, <2>3 DEF Removes
<1>16. CASE Truncates
  <2>1. CASE Step(<<>>)
    BY <1>6, <2>1
  <2>2. ASSUME TruncateBlock, NEW i \in CutNodes, CutBlock(i), Step(TruncateWrites(tab[cut.path], i))
        PROVE  Goal
    <3> DEFINE f == tab[cut.path]
               b == f.chain[i].loc
    <3>1. f \in CachedFile /\ i \in DOMAIN f.chain /\ hdr' = hdr
      BY <1>1, <2>2, TypeParts DEF TruncateBlock, CallInv, CutNodes
    <3>2. mb' = MbWithBlock(mb, b) /\ bpn' = NodesWithFree(mb, NodesWithoutLast(f, i), b)
      BY <2>2 DEF CutBlock
    <3>3. Good(TruncateWrites(f, i))
      <4>1. Sections' \in SectionsType /\ TypeOK
        BY <1>1, <1>3
      <4>2. Complete(TruncateWrites(f, i))
        BY ONLY <3>1, <3>2, <4>1, BlockCutWrites
      <4> QED
        BY <1>9, <4>2
    <3>4. BlockMoves(b) /\ HeaderMoves(INVLOC) /\ MbLast(TruncateWrites(f, i))
      BY <1>1, <1>4, <2>2, TruncateBlockMoves
    <3> QED
      BY <1>5, <2>2, <3>3, <3>4
  <2>3. CASE Step(<<<<"hdr", tab[cut.path].loc>>>>)
    BY <1>7, <1>8, <2>3
  <2> QED
    BY <1>16, <2>1, <2>2, <2>3 DEF Truncates
<1>17. CASE OpensAndCloses
  BY <1>6, <1>17 DEF OpensAndCloses
<1> QED
  BY <1>3, <1>12, <1>13, <1>14, <1>15, <1>16, <1>17 DEF CrashNext, TailAsserts, Kill, Init_RSC_table_m

LEMMA CutHeaderStep ==
  ASSUME CrashInv, UpInv({}, {}, {}), CutReach, CutHeader, CrashNext
  PROVE  CutHeader'
<1>1. TypeOK /\ CallInv
  BY DEF CrashInv, MemoryInv
<1>2. ASSUME cut = NoCut, cut' = cut
      PROVE  CutHeader'
  BY <1>2 DEF CutHeader
<1>3. pc # "idle" => cut = NoCut
  BY DEF CutReach
<1>4. CASE Inserts
  BY <1>2, <1>4 DEF Inserts, InsertNewFile, InsertBlock, OverwriteBlock
<1>5. CASE AllocSteps \/ LinkSteps
  <2>1. pc # "idle" /\ cut' = cut
    BY <1>5 DEF AllocSteps, LinkSteps, AllocBlock, GiveUp, Evict, NoBlockAfterEviction,
                HeadNotListed, LinkNewFile, LinkBlock, LinkAborts, LinkToEvicted
  <2> QED
    BY <1>2, <1>3, <2>1
<1>6. CASE Removes
  <2>1. (cut = NoCut \/ pc # "idle") /\ cut' = cut
    BY <1>6 DEF Removes, Rm, RmBlock, RmDone
  <2> QED
    BY <1>2, <1>3, <2>1
<1>7. CASE OpensAndCloses
  <2>1. CASE AppendStep
    BY <1>1, <2>1, AppendNodeKeeps DEF AppendStep, CallInv, CutHeader, disk
  <2> QED
    BY <1>2, <1>7, <2>1 DEF OpensAndCloses, Append_to_stale_list, Rm_file_from_stale_list, NodeNotListed
<1>8. CASE TailAsserts
  BY <1>2, <1>8 DEF TailAsserts, vars
<1>9. CASE Kill
  BY <1>9 DEF Kill, CutHeader
<1>10. CASE Init_RSC_table_m
  BY <1>2, <1>10 DEF Init_RSC_table_m, CrashInv, Bare
<1>11. CASE Truncates
  <2>1. ASSUME NEW p \in Paths, NEW off \in TruncateOffs, TruncateStart(p, off)
        PROVE  CutHeader'
    <3>1. /\ p \in DOMAIN tab /\ cut = NoCut /\ cut'.path = p /\ hdr' = hdr
          /\ tab' = [tab EXCEPT ![p].fileoff = off]
      BY <2>1 DEF TruncateStart, disk
    <3>2. tab[p] \in CachedFile /\ p # cut.path
      BY <1>1, <3>1, TypeParts, RSCAssumption DEF NoCut
    <3>3. tab'[p].loc = tab[p].loc /\ tab'[p].chain = tab[p].chain
      BY <3>1, <3>2 DEF CachedFile
    <3>4. hdr[tab[p].loc] = HeaderOf(p, tab[p]) /\ HeadTail(tab[p], {})
      BY <3>1, <3>2 DEF UpInv, DiskInv, ChainInv, FileInv, HeadsMatch
    <3>5. tab[p].chain # <<>> => hdr[tab[p].loc].nodeHeader # INVLOC
      <4>1. ASSUME tab[p].chain # <<>>
            PROVE  tab[p].chain[1].loc \in Blocks
        <5>1. Len(tab[p].chain) \in Nat \ {0} /\ \A i \in 1 .. Len(tab[p].chain) : tab[p].chain[i].loc \in Blocks
          BY <3>2, <4>1, ChainType
        <5>2. 1 \in 1 .. Len(tab[p].chain)
          BY <5>1
        <5> QED
          BY <5>1, <5>2
      <4> QED
        BY <3>4, <4>1, LocsAreNat DEF HeadTail, HeaderOf
    <3> QED
      BY <3>1, <3>3, <3>5 DEF CutHeader
  <2>2. ASSUME TruncateBlock, NEW i \in CutNodes, CutBlock(i)
        PROVE  CutHeader'
    <3>1. cut # NoCut /\ cut' = cut /\ hdr' = hdr
      BY <2>2 DEF TruncateBlock
    <3>2. tab'[cut.path].loc = tab[cut.path].loc /\ tab[cut.path].chain # <<>>
      BY <1>1, <2>2, <3>1, NodesLeft DEF ChainLocs
    <3> QED
      BY <3>1, <3>2 DEF CutHeader
  <2>3. ASSUME TruncateDone
        PROVE  CutHeader'
    BY <2>3 DEF TruncateDone, CutHeader
  <2> QED
    BY <1>11, <2>1, <2>2, <2>3 DEF Truncates
<1> QED
  BY <1>4, <1>5, <1>6, <1>7, <1>8, <1>9, <1>10, <1>11 DEF CrashNext

-----------------------------------------------------------------------------
(* The first run, up to its stop.                                          *)

LossInv ==
  stops = 0 =>
    /\ run \in {"up", "stopped", "line703"}
    /\ run = "up" => torn = {} /\ UpInv({}, {}, {}) /\ CutHeader
    /\ run # "up" => FewLost

LEMMA LossInvInit == CrashInit => LossInv
<1> SUFFICES ASSUME CrashInit
             PROVE  run = "up" /\ torn = {} /\ UpInv({}, {}, {}) /\ CutHeader
  BY DEF LossInv
<1>1. Init /\ run = "up" /\ torn = {}
  BY DEF CrashInit
<1>2. DOMAIN tab = {} /\ cut = NoCut /\ \A h \in Headers : hdr[h].nodeHeader = INVLOC
  BY <1>1 DEF Init, FreeHeader
<1>3. DiskInv({}, {})
  BY <1>1, DiskInvInit
<1>4. HeadsMatch({}) /\ OffsInv /\ UnusedHeaders /\ OwnData
  BY <1>2 DEF HeadsMatch, OffsInv, UnusedHeaders, OwnData
<1> QED
  BY <1>1, <1>2, <1>3, <1>4 DEF UpInv, CutHeader

LEMMA LossInvStep ==
  ASSUME OrderedTruncation, CrashInv, CrashInv', CrashDisk, LossInv, [CrashNext]_crashVars
  PROVE  LossInv'
<1> SUFFICES ASSUME stops' = 0
             PROVE  /\ run' \in {"up", "stopped", "line703"}
                    /\ run' = "up" => torn' = {} /\ UpInv({}, {}, {})' /\ CutHeader'
                    /\ run' # "up" => FewLost'
  BY DEF LossInv
<1>1. TypeOK /\ CallInv /\ StaleMatches /\ HeaderLengths /\ file \in FileType /\ stops \in Nat
  BY DEF CrashInv, MemoryInv
<1>2. (\E writes : Writing(writes)) \/ TailAsserts \/ Kill \/ Init_RSC_table_m \/ UNCHANGED crashVars
  BY <1>1, WritesKnown
<1>3. stops = 0 /\ ~Kill
  BY <1>1, <1>2 DEF Writing, Step, TailAsserts, Kill, Init_RSC_table_m, crashVars
<1>4. /\ run \in {"up", "stopped", "line703"}
      /\ run = "up" => torn = {} /\ UpInv({}, {}, {}) /\ CutHeader /\ CutReach
      /\ run # "up" => FewLost
  BY <1>3 DEF LossInv, CrashDisk, Clean
<1>5. ASSUME run = "up", Next, CrashNext
      PROVE  DiskInv({}, {})' /\ HeadsMatch({})' /\ OffsInv' /\ UnusedHeaders'
  BY <1>4, <1>5, DiskStep
<1>6. ASSUME NEW writes, Writing(writes), CrashNext
      PROVE  /\ run' \in {"up", "stopped"}
             /\ run' = "up" => torn' = {} /\ UpInv({}, {}, {})' /\ CutHeader'
             /\ run' = "stopped" => FewLost'
  <2>1. run = "up" /\ Next /\ run' \in {"up", "stopped"} /\ (run' = "up" => torn' = torn)
    BY <1>6 DEF Writing, Step
  <2>2. DiskInv({}, {})' /\ HeadsMatch({})' /\ OffsInv' /\ UnusedHeaders'
    BY <1>5, <1>6, <2>1
  <2>3. ASSUME run' = "up"
        PROVE  torn' = {} /\ UpInv({}, {}, {})' /\ CutHeader'
    <3>1. OwnData'
      BY <1>4, <1>6, <2>1, <2>2, <2>3, OwnDataStep DEF CrashInv
    <3>2. CutHeader'
      BY <1>4, <1>6, <2>1, CutHeaderStep
    <3> QED
      BY <1>4, <2>1, <2>2, <2>3, <3>1, <3>2 DEF UpInv
  <2>4. ASSUME run' = "stopped"
        PROVE  FewLost'
    <3>1. PICK x, y : BlockMoves(x) /\ HeaderMoves(y)
      BY <1>4, <1>6, <2>1, <2>4, StopMoves
    <3>2. Mixed(file')
      BY <1>4, <1>6, <2>1, <2>4, StopMoves
    <3>3. TypeOK' /\ file' \in FileType /\ DeadInv({})'
      BY <2>2 DEF CrashInv, MemoryInv, DiskInv
    <3>4. LostBlocks' \subseteq {x} /\ LostHeaders' \subseteq {y}
      BY <1>4, <2>1, <3>1, <3>2, <3>3, StopLosesOne
    <3>5. \A S, z : S \subseteq {z} => Cardinality(S) <= 1
      <4>1. ASSUME NEW S, NEW z, S \subseteq {z}
            PROVE  Cardinality(S) <= 1
        <5>1. IsFiniteSet({z}) /\ Cardinality({z}) = 1
          BY FS_Singleton
        <5>2. Cardinality(S) <= Cardinality({z})
          BY <4>1, <5>1, FS_Subset
        <5> QED
          BY <5>1, <5>2
      <4> QED
        BY <4>1
    <3>6. Cardinality(LostBlocks') <= 1 /\ Cardinality(LostHeaders') <= 1
      BY <3>4, <3>5
    <3> QED
      BY <2>4, <3>6 DEF FewLost
  <2> QED
    BY <2>1, <2>3, <2>4
<1>7. ASSUME vars' = vars, file' = file
      PROVE  LostBlocks' = LostBlocks /\ LostHeaders' = LostHeaders
  BY <1>7 DEF vars, disk, LostBlocks, LostHeaders, FileBlocks, FileFree, FileFreeHeaders, HeadersInUse, DiskChain,
              WalkFrom, HandBlocks, HandHeaders, RemovedBlocks, ChainLocs
<1>8. CASE TailAsserts
  <2>1. run = "up" /\ run' = "line703" /\ vars' = vars /\ file' = file
    BY <1>8 DEF TailAsserts
  <2>2. LostBlocks = {} /\ LostHeaders = {}
    BY <1>4, <2>1, NothingLost
  <2>3. LostBlocks' = {} /\ LostHeaders' = {}
    BY <1>7, <2>1, <2>2
  <2> QED
    BY <2>1, <2>3, FS_EmptySet DEF FewLost
<1>9. CASE Init_RSC_table_m
  BY <1>4, <1>9 DEF Init_RSC_table_m
<1>10. CASE UNCHANGED crashVars
  <2>1. vars' = vars /\ file' = file /\ run' = run /\ torn' = torn
    BY <1>10 DEF crashVars
  <2>2. LostBlocks' = LostBlocks /\ LostHeaders' = LostHeaders
    BY <1>7, <2>1
  <2>3. FewLost' <=> FewLost
    BY <2>1, <2>2 DEF FewLost
  <2>4. ASSUME run = "up"
        PROVE  UpInv({}, {}, {})' /\ CutHeader'
    <3>1. DiskInv({}, {})' /\ HeadsMatch({})' /\ OffsInv' /\ UnusedHeaders'
      BY <1>4, <2>1, <2>4, DiskStep
    <3>2. OwnData' /\ CutHeader'
      BY <1>4, <2>1, <2>4 DEF UpInv, OwnData, ChainLocs, CutHeader, vars, disk
    <3> QED
      BY <3>1, <3>2 DEF UpInv
  <2> QED
    BY <1>4, <2>1, <2>3, <2>4
<1> QED
  BY <1>2, <1>3, <1>6, <1>8, <1>9, <1>10 DEF TailAsserts, Init_RSC_table_m, Writing

\* StopLosesInHand: up to the first stop, between any two writes of any call, no
\* block and no header is lost but those in the hand of the call that was stopped,
\* and one block and one header that the step was moving.
THEOREM StopLosesInHandAlways ==
  ASSUME OrderedTruncation
  PROVE  CrashSpec => []StopLosesInHand
<1>1. ASSUME CrashInv, LossInv
      PROVE  StopLosesInHand
  <2>1. ASSUME stops = 0, run = "up"
        PROVE  FewLost
    <3>1. LostBlocks = {} /\ LostHeaders = {}
      BY <1>1, <2>1, NothingLost DEF LossInv
    <3> QED
      BY <2>1, <3>1, FS_EmptySet DEF FewLost
  <2> QED
    BY <1>1, <2>1, LossNamed DEF LossInv
<1>2. CrashInit => LossInv
  BY LossInvInit
<1>3. CrashInv /\ CrashDisk /\ LossInv /\ CrashInv' /\ [CrashNext]_crashVars => LossInv'
  BY LossInvStep
<1>4. CrashInv /\ LossInv => StopLosesInHand
  BY <1>1
<1> QED
  BY <1>2, <1>3, <1>4, CrashDiskAlways, PTL DEF CrashSpec

=============================================================================
