--------------------------- MODULE RSCTableProof ----------------------------
(***************************************************************************)
(* Theorems about the table in memory of RSCTable, for every number of     *)
(* blocks, headers and files: types, the header of a cached file against   *)
(* its list of blocks, the stale list against the files' stale nodes.      *)
(* RSCTableDiskProof goes on to the lists in the cache file.               *)
(***************************************************************************)
EXTENDS RSCTable, SequenceTheorems, TLAPS

-----------------------------------------------------------------------------
(* The inductive invariant.                                                *)

\* What the program counter says of the call's own variables
CallInv ==
  /\ pc = "idle" => req = NoReq
  /\ pc # "rm" => walk = INVLOC
  /\ req.path = NoPath => req = NoReq
  /\ req.blk # INVLOC => pc \in {"link", "line359", "usedAfterFree"}
  /\ pc = "link" => req.blk # INVLOC
  /\ pc \in {"alloc", "realloc", "link"} => req.path \in Paths
  /\ req.path \in Paths => req.off \in BlockOffs
  /\ req.hdr # INVLOC => req.path \notin DOMAIN tab
  /\ req.path \in DOMAIN tab =>
       req.path # cut.path /\ Arrives(req.path, req.off)
  /\ cut # NoCut => cut.path \in DOMAIN tab
  /\ cut.path = NoPath => cut = NoCut

TableInv == TypeOK /\ StaleMatches /\ CallInv /\ HeaderMatchesChain

-----------------------------------------------------------------------------
(* Sequences and offsets.                                                  *)

LEMMA RemoveAtProperties ==
  ASSUME NEW S, NEW s \in Seq(S), NEW i \in DOMAIN s
  PROVE  /\ RemoveAt(s, i) \in Seq(S)
         /\ Len(RemoveAt(s, i)) = Len(s) - 1
         /\ DOMAIN RemoveAt(s, i) = 1 .. (Len(s) - 1)
         /\ \A j \in 1 .. (Len(s) - 1) :
              RemoveAt(s, i)[j] = IF j < i THEN s[j] ELSE s[j + 1]
<1>1. i \in 1 .. Len(s) /\ Len(s) \in Nat
  BY LenProperties
<1> DEFINE a == SubSeq(s, 1, i - 1)
           b == SubSeq(s, i + 1, Len(s))
<1>2. a \in Seq(S) /\ Len(a) = i - 1 /\ \A j \in 1 .. (i - 1) : a[j] = s[j]
  BY <1>1, SubSeqProperties
<1>3. b \in Seq(S) /\ Len(b) = Len(s) - i /\ \A j \in 1 .. (Len(s) - i) : b[j] = s[i + j]
  BY <1>1, SubSeqProperties
<1>4. RemoveAt(s, i) = a \o b
  BY DEF RemoveAt
<1> HIDE DEF a, b
<1>5. a \o b \in Seq(S) /\ Len(a \o b) = Len(a) + Len(b)
  BY <1>2, <1>3, ConcatProperties
<1>6. \A j \in 1 .. (Len(a) + Len(b)) : (a \o b)[j] = IF j <= Len(a) THEN a[j] ELSE b[j - Len(a)]
  BY <1>2, <1>3, ConcatProperties
<1>7. DOMAIN (a \o b) = 1 .. Len(a \o b)
  BY <1>5, LenProperties
<1>8. ASSUME NEW j \in 1 .. (Len(s) - 1)
      PROVE  (a \o b)[j] = IF j < i THEN s[j] ELSE s[j + 1]
  <2>1. CASE j < i
    BY <2>1, <1>1, <1>2, <1>3, <1>6
  <2>2. CASE ~(j < i)
    <3>1. j - Len(a) \in 1 .. (Len(s) - i) /\ i + (j - Len(a)) = j + 1
      BY <2>2, <1>1, <1>2
    <3>2. j \in 1 .. (Len(a) + Len(b)) /\ ~(j <= Len(a))
      BY <2>2, <1>1, <1>2, <1>3
    <3>3. (a \o b)[j] = b[j - Len(a)]
      BY <3>2, <1>6
    <3>4. b[j - Len(a)] = s[j + 1]
      BY <3>1, <1>3
    <3> QED
      BY <3>3, <3>4, <2>2
  <2> QED
    BY <2>1, <2>2
<1>9. Len(a) + Len(b) = Len(s) - 1
  BY <1>1, <1>2, <1>3
<1> QED
  BY <1>4, <1>5, <1>7, <1>8, <1>9

LEMMA OffsAreNat == BlockOffs \subseteq Nat /\ Lens \subseteq Nat /\ INVLOC \notin BlockOffs
<1>1. \A k \in 0 .. (MaxFileBlocks - 1) : k * CBlkSize \in Nat
  BY RSCAssumption
<1> QED
  BY <1>1, RSCAssumption DEF BlockOffs, Lens, INVLOC

LEMMA LocsAreNat == INVLOC \notin Blocks /\ INVLOC \notin Headers /\ Blocks \subseteq Nat /\ Headers \subseteq Nat
  BY RSCAssumption DEF INVLOC, Blocks, Headers

-----------------------------------------------------------------------------
(* Type correctness.                                                       *)

MasterBlockType == [hfl : HeaderOrNone, hft : HeaderOrNone, bfl : BlockOrNone, bft : BlockOrNone]
NodeType == [next : BlockOrNone, fhloc : HeaderOrNone, off : BlockOffs \cup {INVLOC}]
HeaderType == [path : Paths \cup {NoPath}, next : HeaderOrNone, nodeHeader : BlockOrNone,
               nodeTail : BlockOrNone, fileoff : Nat \cup {INVLOC}]

LEMMA FreedBlockType ==
  ASSUME NEW m \in MasterBlockType, NEW nodes \in [Blocks -> NodeType], NEW b \in Blocks
  PROVE  MbWithBlock(m, b) \in MasterBlockType /\ NodesWithFree(m, nodes, b) \in [Blocks -> NodeType]
<1>1. MbWithBlock(m, b) \in MasterBlockType
  BY DEF MbWithBlock, MasterBlockType, BlockOrNone
<1>2. FreeNode \in NodeType
  BY DEF FreeNode, NodeType, BlockOrNone, HeaderOrNone
<1>3. ASSUME NEW c \in Blocks PROVE [nodes[c] EXCEPT !.next = b] \in NodeType
  BY DEF NodeType, BlockOrNone
<1>4. NodesWithFree(m, nodes, b) \in [Blocks -> NodeType]
  BY <1>2, <1>3 DEF NodesWithFree
<1> QED
  BY <1>1, <1>4

LEMMA FreedHeaderType ==
  ASSUME mb \in MasterBlockType, hdr \in [Headers -> HeaderType],
         NEW h \in Headers, NEW p \in Paths \cup {NoPath}, Return_file_header(h, p)
  PROVE  mb' \in MasterBlockType /\ hdr' \in [Headers -> HeaderType]
<1>1. mb' \in MasterBlockType
  BY DEF Return_file_header, MasterBlockType, HeaderOrNone
<1>2. FreeHeader(p) \in HeaderType /\ FreeHeader(NoPath) \in HeaderType
  BY DEF FreeHeader, HeaderType, HeaderOrNone, BlockOrNone
<1>3. ASSUME NEW c \in Headers PROVE [hdr[c] EXCEPT !.next = h] \in HeaderType
  BY DEF HeaderType, HeaderOrNone
<1>4. hdr' \in [Headers -> HeaderType]
  BY <1>2, <1>3 DEF Return_file_header
<1> QED
  BY <1>1, <1>4

LEMMA HeaderOfType ==
  ASSUME NEW p \in Paths, NEW f \in CachedFile
  PROVE  HeaderOf(p, f) \in HeaderType
  BY DEF HeaderOf, HeaderType, CachedFile, HeaderOrNone, BlockOrNone

LEMMA WithBlockType ==
  ASSUME NEW f \in CachedFile, NEW b \in Blocks, NEW off \in BlockOffs, NEW end \in Nat
  PROVE  /\ WithBlock(f, b, off, end) \in CachedFile
         /\ WithBlock(f, b, off, end).chain = Append(f.chain, [loc |-> b, off |-> off])
         /\ WithBlock(f, b, off, end).loc = f.loc
         /\ WithBlock(f, b, off, end).sn = f.sn
         /\ WithBlock(f, b, off, end).nodeTail = b
         /\ WithBlock(f, b, off, end).nodeHeader = IF f.chain = <<>> THEN b ELSE f.nodeHeader
<1>1. [loc |-> b, off |-> off] \in [loc : Blocks, off : BlockOffs]
  OBVIOUS
<1>2. Append(f.chain, [loc |-> b, off |-> off]) \in Seq([loc : Blocks, off : BlockOffs])
  BY <1>1, AppendProperties DEF CachedFile
<1>3. Grow(f.fileoff, end) \in Nat
  BY DEF Grow, CachedFile
<1> QED
  BY <1>2, <1>3 DEF WithBlock, CachedFile, BlockOrNone

LEMMA WithoutNodeType ==
  ASSUME NEW f \in CachedFile, NEW i \in DOMAIN f.chain
  PROVE  /\ WithoutNode(f, i) \in CachedFile
         /\ WithoutNode(f, i).chain = RemoveAt(f.chain, i)
         /\ WithoutNode(f, i).loc = f.loc
         /\ WithoutNode(f, i).sn = f.sn
         /\ WithoutNode(f, i).fileoff = f.fileoff
<1> DEFINE rest == RemoveAt(f.chain, i)
           N == [loc : Blocks, off : BlockOffs]
<1>1. f.chain \in Seq(N)
  BY DEF CachedFile
<1>2. rest \in Seq(N) /\ DOMAIN rest = 1 .. (Len(f.chain) - 1) /\ Len(rest) = Len(f.chain) - 1
  BY <1>1, RemoveAtProperties
<1> HIDE DEF rest
<1>3. ASSUME rest # <<>> PROVE rest[1] \in N /\ rest[Len(rest)] \in N
  <2>1. Len(rest) # 0 /\ Len(rest) \in Nat
    BY <1>2, <1>3, EmptySeq, LenProperties
  <2>2. 1 \in 1 .. Len(rest) /\ Len(rest) \in 1 .. Len(rest)
    BY <2>1
  <2> HIDE DEF N
  <2> QED
    BY <2>2, <1>2, ElementOfSeq
<1>4. rest # <<>> => rest[1].loc \in Blocks /\ Last(rest).loc \in Blocks
  BY <1>3 DEF Last
<1> USE DEF rest
<1> QED
  BY <1>2, <1>4 DEF WithoutNode, CachedFile, BlockOrNone, rest

LEMMA TypeInit == Init => TypeOK
<1> SUFFICES ASSUME Init PROVE TypeOK
  OBVIOUS
<1>1. NumHeaders - 1 \in Headers /\ NumBlocks - 1 \in Blocks /\ 0 \in Headers /\ 0 \in Blocks
  BY RSCAssumption DEF Headers, Blocks
<1>2. mb \in MasterBlockType
  BY <1>1 DEF Init, MasterBlockType, HeaderOrNone, BlockOrNone
<1>3. ASSUME NEW h \in Headers
      PROVE  [FreeHeader(NoPath) EXCEPT !.next = NextLoc(h, NumHeaders)] \in HeaderType
  <2>1. NextLoc(h, NumHeaders) \in HeaderOrNone
    BY RSCAssumption DEF NextLoc, HeaderOrNone, Headers, INVLOC
  <2> QED
    BY <2>1 DEF FreeHeader, HeaderType, BlockOrNone
<1>4. ASSUME NEW b \in Blocks
      PROVE  [FreeNode EXCEPT !.next = NextLoc(b, NumBlocks)] \in NodeType
  <2>1. NextLoc(b, NumBlocks) \in BlockOrNone
    BY RSCAssumption DEF NextLoc, BlockOrNone, Blocks, INVLOC
  <2> QED
    BY <2>1 DEF FreeNode, NodeType, HeaderOrNone
<1>5. hdr \in [Headers -> HeaderType] /\ bpn \in [Blocks -> NodeType]
  BY <1>3, <1>4 DEF Init
<1>6. DOMAIN tab = {} /\ tab \in [DOMAIN tab -> CachedFile]
  BY DEF Init
<1>7. stale \in Seq(Paths)
  BY DEF Init
<1>8. req \in [path : Paths \cup {NoPath}, off : BlockOffs \cup {INVLOC}, end : Nat,
               flag : InsertFlags, hdr : HeaderOrNone, blk : BlockOrNone]
  BY DEF Init, NoReq, InsertFlags, HeaderOrNone, BlockOrNone
<1> QED
  BY <1>2, <1>5, <1>6, <1>7, <1>8
  DEF Init, TypeOK, MasterBlockType, HeaderType, NodeType, NoCut, BlockOrNone

\* TypeOK, with the names of the types the lemmas use
RequestType == [path : Paths \cup {NoPath}, off : BlockOffs \cup {INVLOC}, end : Nat,
                flag : InsertFlags, hdr : HeaderOrNone, blk : BlockOrNone]
CutType == [path : Paths \cup {NoPath}, off : Nat]
PCs == {"idle", "alloc", "rm", "realloc", "link"} \cup Failures

LEMMA TypeParts ==
  /\ TypeOK <=>
       /\ mb \in MasterBlockType /\ hdr \in [Headers -> HeaderType] /\ bpn \in [Blocks -> NodeType]
       /\ DOMAIN tab \subseteq Paths /\ tab \in [DOMAIN tab -> CachedFile]
       /\ stale \in Seq(Paths) /\ pc \in PCs /\ req \in RequestType
       /\ walk \in BlockOrNone /\ cut \in CutType
  /\ TypeOK' <=>
       /\ mb' \in MasterBlockType /\ hdr' \in [Headers -> HeaderType] /\ bpn' \in [Blocks -> NodeType]
       /\ DOMAIN tab' \subseteq Paths /\ tab' \in [DOMAIN tab' -> CachedFile]
       /\ stale' \in Seq(Paths) /\ pc' \in PCs /\ req' \in RequestType
       /\ walk' \in BlockOrNone /\ cut' \in CutType
  BY DEF TypeOK, MasterBlockType, HeaderType, NodeType, RequestType, CutType, PCs

LEMMA LeaveStaleListType ==
  ASSUME stale \in Seq(Paths), NEW p, LeaveStaleList(p)
  PROVE  stale' \in Seq(Paths)
  BY RemoveAtProperties DEF LeaveStaleList

LEMMA RemoveFileType ==
  ASSUME TypeOK, NEW p \in DOMAIN tab, RemoveFile(p)
  PROVE  /\ mb' \in MasterBlockType /\ hdr' \in [Headers -> HeaderType] /\ bpn' \in [Blocks -> NodeType]
         /\ DOMAIN tab' \subseteq Paths /\ tab' \in [DOMAIN tab' -> CachedFile]
         /\ stale' \in Seq(Paths) /\ pc' \in PCs /\ walk' \in BlockOrNone
<1> USE TypeParts
<1>1. p \in Paths /\ tab[p] \in CachedFile
  OBVIOUS
<1>2. tab[p].loc \in Headers /\ tab[p].nodeHeader \in BlockOrNone
  BY <1>1 DEF CachedFile
<1>3. mb' \in MasterBlockType /\ hdr' \in [Headers -> HeaderType]
  BY <1>1, <1>2, FreedHeaderType DEF RemoveFile
<1>4. stale' \in Seq(Paths)
  BY LeaveStaleListType DEF RemoveFile
<1>5. DOMAIN tab' \subseteq Paths /\ tab' \in [DOMAIN tab' -> CachedFile]
  BY DEF RemoveFile
<1> QED
  BY <1>2, <1>3, <1>4, <1>5 DEF RemoveFile, PCs

\* A node of a file's list in memory
ChainNode == [loc : Blocks, off : BlockOffs]

LEMMA ChainType ==
  ASSUME NEW f \in CachedFile
  PROVE  /\ f.chain \in Seq(ChainNode)
         /\ Len(f.chain) \in Nat
         /\ DOMAIN f.chain = 1 .. Len(f.chain)
         /\ \A i \in 1 .. Len(f.chain) : f.chain[i] \in ChainNode /\ f.chain[i].loc \in Blocks
                                        /\ f.chain[i].off \in Nat
         /\ f.chain # <<>> <=> Len(f.chain) # 0
<1>1. f.chain \in Seq(ChainNode)
  BY DEF CachedFile, ChainNode
<1>2. Len(f.chain) \in Nat /\ DOMAIN f.chain = 1 .. Len(f.chain)
      /\ \A i \in 1 .. Len(f.chain) : f.chain[i] \in ChainNode
  BY <1>1, LenProperties, ElementOfSeq
<1>3. \A n \in ChainNode : n.loc \in Blocks /\ n.off \in Nat
  BY OffsAreNat DEF ChainNode
<1> QED
  BY <1>1, <1>2, <1>3, EmptySeq

LEMMA StaleHead ==
  ASSUME TypeOK, StaleMatches, stale # <<>>
  PROVE  1 \in DOMAIN stale /\ Head(stale) = stale[1] /\ Head(stale) \in DOMAIN tab /\ tab[Head(stale)].sn = "listed"
<1>1. Len(stale) \in Nat \ {0} /\ DOMAIN stale = 1 .. Len(stale)
  BY EmptySeq, LenProperties, TypeParts
<1>2. 1 \in DOMAIN stale /\ Head(stale) = stale[1]
  BY <1>1
<1> QED
  BY <1>2 DEF StaleMatches

LEMMA TypeStep ==
  ASSUME TypeOK, CallInv, StaleMatches, [Next]_vars
  PROVE  TypeOK'
<1> USE TypeParts
<1>1. CASE UNCHANGED vars
  BY <1>1 DEF vars
<1>2. ASSUME NEW p \in Paths, NEW off \in BlockOffs, NEW len \in Lens, InsertNewFile(p, off, len)
      PROVE  TypeOK'
  <2>1. mb.hfl \in Headers
    BY <1>2 DEF InsertNewFile, Alloc_file_header, MasterBlockType, HeaderOrNone
  <2>2. hdr[mb.hfl] \in HeaderType
    BY <2>1
  <2>3. hdr[mb.hfl].next \in HeaderOrNone /\ [hdr[mb.hfl] EXCEPT !.path = p] \in HeaderType
    BY <2>2 DEF HeaderType
  <2>4. mb' \in MasterBlockType
    BY <1>2, <2>3 DEF InsertNewFile, Alloc_file_header, MasterBlockType, HeaderOrNone
  <2>5. hdr' \in [Headers -> HeaderType]
    BY <1>2, <2>1, <2>3 DEF InsertNewFile, Alloc_file_header
  <2>6. off + len \in Nat
    BY OffsAreNat
  <2>7. req' \in RequestType
    BY <1>2, <2>1, <2>6 DEF InsertNewFile, NoReq, RequestType, InsertFlags, HeaderOrNone, BlockOrNone
  <2> QED
    BY <1>2, <2>4, <2>5, <2>7 DEF InsertNewFile, PCs
<1>3. ASSUME NEW p \in Paths, NEW off \in BlockOffs, NEW len \in Lens, NEW flag \in InsertFlags,
             InsertBlock(p, off, len, flag)
      PROVE  TypeOK'
  <2>1. off + len \in Nat
    BY OffsAreNat
  <2>2. req' \in RequestType
    BY <1>3, <2>1 DEF InsertBlock, NoReq, RequestType, InsertFlags, HeaderOrNone, BlockOrNone
  <2> QED
    BY <1>3, <2>2 DEF InsertBlock, PCs, disk
<1>4. ASSUME NEW p \in Paths, NEW off \in BlockOffs, NEW len \in Lens, OverwriteBlock(p, off, off + len)
      PROVE  TypeOK'
  <2>1. tab[p] \in CachedFile /\ tab[p].loc \in Headers
    BY <1>4 DEF OverwriteBlock, CachedFile
  <2>2. Grow(tab[p].fileoff, off + len) \in Nat
    BY <2>1, OffsAreNat DEF Grow, CachedFile
  <2>3. [tab[p] EXCEPT !.fileoff = Grow(tab[p].fileoff, off + len)] \in CachedFile
    BY <2>1, <2>2 DEF CachedFile
  <2>4. DOMAIN tab' = DOMAIN tab /\ tab' \in [DOMAIN tab -> CachedFile] /\ tab'[p] \in CachedFile
    BY <1>4, <2>3 DEF OverwriteBlock
  <2>5. hdr' \in [Headers -> HeaderType]
    BY <1>4, <2>1, <2>4, HeaderOfType DEF OverwriteBlock
  <2> QED
    BY <1>4, <2>4, <2>5 DEF OverwriteBlock
<1>5. CASE AllocBlock
  <2>1. mb.bfl \in Blocks
    BY <1>5 DEF AllocBlock, Alloc_file_block, MasterBlockType, BlockOrNone
  <2>2. bpn[mb.bfl].next \in BlockOrNone
    BY <2>1 DEF NodeType
  <2>3. mb' \in MasterBlockType
    BY <1>5, <2>2 DEF AllocBlock, Alloc_file_block, MasterBlockType, BlockOrNone
  <2>4. req' \in RequestType
    BY <1>5, <2>1 DEF AllocBlock, Alloc_file_block, RequestType, BlockOrNone
  <2> QED
    BY <1>5, <2>3, <2>4 DEF AllocBlock, PCs
<1>6. CASE GiveUp
  <2>1. mb' \in MasterBlockType /\ hdr' \in [Headers -> HeaderType]
    BY <1>6, FreedHeaderType DEF GiveUp, RequestType, HeaderOrNone
  <2>2. req' \in RequestType
    BY <1>6 DEF GiveUp, NoReq, RequestType, InsertFlags, HeaderOrNone, BlockOrNone
  <2> QED
    BY <1>6, <2>1, <2>2 DEF GiveUp, PCs
<1>7. ASSUME NEW p \in DOMAIN tab, RemoveFile(p), UNCHANGED <<req, cut>>
      PROVE  TypeOK'
  BY <1>7, RemoveFileType
<1>8. CASE NoBlockAfterEviction
  BY <1>8 DEF NoBlockAfterEviction, disk, PCs, Failures
<1>9. CASE LinkNewFile
  <2>1. req.path \in Paths /\ req.off \in BlockOffs /\ req.hdr \in Headers /\ req.blk \in Blocks
    BY <1>9 DEF LinkNewFile, CallInv, RequestType, HeaderOrNone, BlockOrNone
  <2>2. hdr[req.hdr].fileoff \in Nat \cup {INVLOC} /\ req.end \in Nat
    BY <2>1 DEF HeaderType, RequestType
  <2>3. Grow(hdr[req.hdr].fileoff, req.end) \in Nat
    BY <2>2 DEF Grow, INVLOC
  <2> DEFINE n == [loc |-> req.blk, off |-> req.off]
             f == [loc |-> req.hdr, nodeHeader |-> req.blk, nodeTail |-> req.blk,
                   fileoff |-> Grow(hdr[req.hdr].fileoff, req.end), chain |-> <<n>>, sn |-> "null"]
  <2>4. n \in [loc : Blocks, off : BlockOffs]
    BY <2>1
  <2>5. <<n>> \in Seq([loc : Blocks, off : BlockOffs])
    BY <2>4
  <2>6. f \in CachedFile
    BY <2>1, <2>3, <2>5 DEF CachedFile, BlockOrNone, StaleNode
  <2>7. HeaderOf(req.path, f) \in HeaderType
    BY <2>1, <2>6, HeaderOfType
  <2>8. [next |-> INVLOC, fhloc |-> f.loc, off |-> req.off] \in NodeType
    BY <2>1 DEF NodeType, BlockOrNone, HeaderOrNone
  <2>9. req' \in RequestType
    BY <1>9 DEF LinkNewFile, NoReq, RequestType, InsertFlags, HeaderOrNone, BlockOrNone
  <2>10. tab' = [q \in DOMAIN tab \cup {req.path} |-> IF q = req.path THEN f ELSE tab[q]]
         /\ hdr' = [hdr EXCEPT ![f.loc] = HeaderOf(req.path, f)]
         /\ bpn' = [bpn EXCEPT ![req.blk] = [next |-> INVLOC, fhloc |-> f.loc, off |-> req.off]]
    BY <1>9 DEF LinkNewFile
  <2> HIDE DEF f
  <2>11. DOMAIN tab' \subseteq Paths /\ tab' \in [DOMAIN tab' -> CachedFile]
    BY <2>1, <2>6, <2>10
  <2>12. hdr' \in [Headers -> HeaderType] /\ bpn' \in [Blocks -> NodeType]
    BY <2>7, <2>8, <2>10
  <2> QED
    BY <1>9, <2>9, <2>11, <2>12 DEF LinkNewFile, PCs
<1>10. CASE LinkBlock
  <2> DEFINE f == tab[req.path]
             g == WithBlock(f, req.blk, req.off, req.end)
  <2>1. f \in CachedFile /\ req.path \in Paths /\ req.off \in BlockOffs /\ req.blk \in Blocks /\ req.end \in Nat
    BY <1>10 DEF LinkBlock, CallInv, RequestType, BlockOrNone
  <2>2. g \in CachedFile
    BY <2>1, WithBlockType
  <2>3. HeaderOf(req.path, g) \in HeaderType
    BY <2>1, <2>2, HeaderOfType
  <2>4. [next |-> INVLOC, fhloc |-> f.loc, off |-> req.off] \in NodeType
    BY <2>1 DEF NodeType, BlockOrNone, CachedFile, HeaderOrNone
  <2>5. \A c \in Blocks : [bpn[c] EXCEPT !.next = req.blk] \in NodeType
    BY <2>1 DEF NodeType, BlockOrNone
  <2>6. NodesWithLink(f, req.blk, req.off) \in [Blocks -> NodeType]
    BY <2>1, <2>4, <2>5 DEF NodesWithLink, NodeType, BlockOrNone
  <2>7. tab' = [tab EXCEPT ![req.path] = g] /\ hdr' = [hdr EXCEPT ![f.loc] = HeaderOf(req.path, g)]
        /\ bpn' = NodesWithLink(f, req.blk, req.off)
    BY <1>10 DEF LinkBlock
  <2>8. req' \in RequestType
    BY <1>10 DEF LinkBlock, NoReq, RequestType, InsertFlags, HeaderOrNone, BlockOrNone
  <2> HIDE DEF g
  <2>9. DOMAIN tab' \subseteq Paths /\ tab' \in [DOMAIN tab' -> CachedFile] /\ hdr' \in [Headers -> HeaderType]
    BY <2>2, <2>3, <2>7
  <2> QED
    BY <1>10, <2>6, <2>7, <2>8, <2>9 DEF LinkBlock, PCs
<1>11. CASE LinkAborts
  BY <1>11 DEF LinkAborts, disk, PCs, Failures
<1>12. CASE LinkToEvicted
  BY <1>12 DEF LinkToEvicted, disk, PCs, Failures
<1>13. CASE RmBlock
  <2>1. walk \in Blocks
    BY <1>13 DEF RmBlock, BlockOrNone
  <2>2. bpn[walk].next \in BlockOrNone
    BY <2>1 DEF NodeType
  <2>3. mb' \in MasterBlockType /\ bpn' \in [Blocks -> NodeType]
    BY <1>13, <2>1, FreedBlockType DEF RmBlock, Return_file_block
  <2> QED
    BY <1>13, <2>2, <2>3 DEF RmBlock
<1>14. CASE RmDone
  BY <1>14 DEF RmDone, disk, PCs
<1>15. ASSUME NEW p \in Paths, NEW off \in TruncateOffs, TruncateStart(p, off)
       PROVE  TypeOK'
  <2>1. off \in Nat
    BY RSCAssumption
  <2>2. [tab[p] EXCEPT !.fileoff = off] \in CachedFile
    BY <1>15, <2>1 DEF TruncateStart, CachedFile
  <2>3. DOMAIN tab' \subseteq Paths /\ tab' \in [DOMAIN tab' -> CachedFile]
    BY <1>15, <2>2 DEF TruncateStart
  <2>4. cut' \in CutType
    BY <1>15, <2>1 DEF TruncateStart, CutType
  <2> QED
    BY <1>15, <2>3, <2>4 DEF TruncateStart, disk
<1>16. CASE TruncateBlock
  <2> DEFINE f == tab[cut.path]
  <2>1. PICK i \in CutNodes :
          /\ tab' = [tab EXCEPT ![cut.path] = WithoutNode(f, i)]
          /\ mb' = MbWithBlock(mb, f.chain[i].loc)
          /\ bpn' = NodesWithFree(mb, NodesWithoutLast(f, i), f.chain[i].loc)
    BY <1>16 DEF TruncateBlock, CutBlock
  <2>2. cut.path \in DOMAIN tab /\ f \in CachedFile /\ i \in DOMAIN f.chain
    BY <1>16 DEF TruncateBlock, CutBlock, CallInv, CutNodes
  <2>3. f.chain \in Seq([loc : Blocks, off : BlockOffs])
    BY <2>2 DEF CachedFile
  <2>4. \A j \in DOMAIN f.chain : f.chain[j].loc \in Blocks
    BY <2>2, ChainType
  <2>5. f.chain[i].loc \in Blocks
    BY <2>2, <2>4
  <2>6. i - 1 \in DOMAIN f.chain \/ i = 1
    BY <2>2, <2>3, LenProperties
  <2>7. \A c \in Blocks : [bpn[c] EXCEPT !.next = INVLOC] \in NodeType
    BY DEF NodeType, BlockOrNone
  <2>8. NodesWithoutLast(f, i) \in [Blocks -> NodeType]
    BY <2>4, <2>6, <2>7 DEF NodesWithoutLast
  <2>9. mb' \in MasterBlockType /\ bpn' \in [Blocks -> NodeType]
    BY <2>1, <2>5, <2>8, FreedBlockType
  <2>10. WithoutNode(f, i) \in CachedFile
    BY <2>2, WithoutNodeType
  <2>11. DOMAIN tab' \subseteq Paths /\ tab' \in [DOMAIN tab' -> CachedFile]
    BY <2>1, <2>10
  <2> QED
    BY <1>16, <2>9, <2>11 DEF TruncateBlock, CutBlock
<1>17. CASE TruncateDone
  <2>1. tab[cut.path] \in CachedFile /\ cut.path \in Paths /\ tab[cut.path].loc \in Headers
    BY <1>17 DEF TruncateDone, CallInv, CachedFile
  <2>2. hdr' \in [Headers -> HeaderType]
    BY <1>17, <2>1, HeaderOfType DEF TruncateDone
  <2> QED
    BY <1>17, <2>2 DEF TruncateDone, CutType, NoCut
<1>18. CASE Race
  BY <1>18 DEF Race, disk, PCs, Failures
<1>19. ASSUME NEW p \in Paths, Append_to_stale_list(p)
       PROVE  TypeOK'
  <2>1. [tab[p] EXCEPT !.sn = "alone"] \in CachedFile
    BY <1>19 DEF Append_to_stale_list, CachedFile, StaleNode
  <2>2. DOMAIN tab' \subseteq Paths /\ tab' \in [DOMAIN tab' -> CachedFile]
    BY <1>19, <2>1 DEF Append_to_stale_list
  <2> QED
    BY <1>19, <2>2 DEF Append_to_stale_list, disk
<1>20. ASSUME NEW p \in Paths, Rm_file_from_stale_list(p)
       PROVE  TypeOK'
  <2>1. [tab[p] EXCEPT !.sn = "null"] \in CachedFile
    BY <1>20 DEF Rm_file_from_stale_list, CachedFile, StaleNode
  <2>2. DOMAIN tab' \subseteq Paths /\ tab' \in [DOMAIN tab' -> CachedFile]
    BY <1>20, <2>1 DEF Rm_file_from_stale_list
  <2>3. stale' \in Seq(Paths)
    BY <1>20, LeaveStaleListType DEF Rm_file_from_stale_list
  <2> QED
    BY <1>20, <2>2, <2>3 DEF Rm_file_from_stale_list, disk
<1>21. CASE Evict
  BY <1>7, <1>21, StaleHead DEF Evict
<1>22. ASSUME NEW p \in Paths, Rm(p)
       PROVE  TypeOK'
  BY <1>7, <1>22 DEF Rm
<1>23. ASSUME NEW p \in Paths, AppendNode(p)
       PROVE  TypeOK'
  <2>1. [tab[p] EXCEPT !.sn = "listed"] \in CachedFile
    BY <1>23 DEF AppendNode, CachedFile, StaleNode
  <2>2. DOMAIN tab' \subseteq Paths /\ tab' \in [DOMAIN tab' -> CachedFile]
    BY <1>23, <2>1 DEF AppendNode
  <2>3. stale' \in Seq(Paths)
    BY <1>23, AppendProperties DEF AppendNode
  <2> QED
    BY <1>23, <2>2, <2>3 DEF AppendNode, disk
<1>24. ASSUME NEW p \in Paths, NodeNotListed(p)
       PROVE  TypeOK'
  BY <1>24 DEF NodeNotListed, disk, PCs, Failures
<1>25. CASE HeadNotListed
  BY <1>25 DEF HeadNotListed, disk, PCs, Failures
<1> QED
  BY <1>1, <1>2, <1>3, <1>4, <1>5, <1>6, <1>8, <1>9, <1>10, <1>11, <1>12, <1>13, <1>14,
     <1>15, <1>16, <1>17, <1>18, <1>19, <1>20, <1>21, <1>22, <1>23, <1>24, <1>25
  DEF Next, Call, CallStep, CutStep, AppendStep

-----------------------------------------------------------------------------
(* The header of a file and its list in memory; the stale list.            *)

\* What HeaderMatchesChain says of one file.  With X a stop may have left the
\* header behind the list, and it says nothing of nodeTail (RSCCrash).
HeadTail(f, X) ==
  /\ f.nodeHeader = IF f.chain = <<>> THEN INVLOC ELSE f.chain[1].loc
  /\ X = {} => f.nodeTail = IF f.chain = <<>> THEN INVLOC ELSE Last(f.chain).loc

HeadsMatch(X) == \A p \in DOMAIN tab : HeadTail(tab[p], X)

LEMMA HeadsMatchAll ==
  /\ HeaderMatchesChain <=> HeadsMatch({})
  /\ HeaderMatchesChain' <=> HeadsMatch({})'
  BY DEF HeaderMatchesChain, HeadsMatch, HeadTail

LEMMA HeadTailWithBlock ==
  ASSUME NEW X, NEW f \in CachedFile, HeadTail(f, X),
         NEW b \in Blocks, NEW off \in BlockOffs, NEW end \in Nat
  PROVE  HeadTail(WithBlock(f, b, off, end), X)
<1> DEFINE g == WithBlock(f, b, off, end)
           n == [loc |-> b, off |-> off]
<1>1. /\ g.chain = Append(f.chain, n)
      /\ g.nodeTail = b
      /\ g.nodeHeader = IF f.chain = <<>> THEN b ELSE f.nodeHeader
  BY WithBlockType
<1>2. n \in ChainNode /\ f.chain \in Seq(ChainNode)
  BY ChainType DEF ChainNode
<1>3. /\ Append(f.chain, n) # <<>> /\ Len(Append(f.chain, n)) = Len(f.chain) + 1
      /\ \A i \in 1 .. Len(f.chain) : Append(f.chain, n)[i] = f.chain[i]
      /\ Append(f.chain, n)[Len(f.chain) + 1] = n
  BY <1>2, AppendProperties
<1>4. g.chain # <<>> /\ Last(g.chain).loc = b
  BY <1>1, <1>3 DEF Last
<1>5. CASE f.chain = <<>>
  <2>1. Len(f.chain) = 0
    BY <1>5, EmptySeq
  <2>2. g.chain[1].loc = b
    BY <1>1, <1>3, <2>1
  <2> QED
    BY <1>1, <1>4, <1>5, <2>2 DEF HeadTail
<1>6. CASE f.chain # <<>>
  <2>1. 1 \in 1 .. Len(f.chain)
    BY <1>6, ChainType
  <2>2. g.chain[1] = f.chain[1]
    BY <1>1, <1>3, <2>1
  <2> QED
    BY <1>1, <1>4, <1>6, <2>2 DEF HeadTail
<1> QED
  BY <1>5, <1>6

LEMMA HeadTailWithoutNode ==
  ASSUME NEW X, NEW f \in CachedFile, HeadTail(f, X), NEW i \in DOMAIN f.chain
  PROVE  HeadTail(WithoutNode(f, i), X)
<1> DEFINE g == WithoutNode(f, i)
           rest == RemoveAt(f.chain, i)
           k == Len(f.chain)
<1>1. g \in CachedFile /\ g.chain = rest
  BY WithoutNodeType
<1>2. /\ g.nodeHeader = IF rest = <<>> THEN INVLOC
                        ELSE IF i = 1 THEN rest[1].loc ELSE f.nodeHeader
      /\ g.nodeTail = IF rest = <<>> THEN INVLOC
                      ELSE IF i = k THEN Last(rest).loc ELSE f.nodeTail
  BY DEF WithoutNode, CachedFile
<1>3. k \in Nat /\ i \in 1 .. k /\ f.chain \in Seq(ChainNode) /\ f.chain # <<>>
  BY ChainType
<1>4. Len(rest) = k - 1
      /\ \A j \in 1 .. (k - 1) : rest[j] = IF j < i THEN f.chain[j] ELSE f.chain[j + 1]
  BY <1>3, RemoveAtProperties
<1>5. f.nodeHeader = f.chain[1].loc /\ (X = {} => f.nodeTail = f.chain[k].loc)
  BY <1>3 DEF HeadTail, Last
<1>6. CASE rest = <<>>
  BY <1>1, <1>2, <1>6 DEF HeadTail
<1>7. CASE rest # <<>>
  <2>1. k - 1 \in 1 .. (k - 1)
    BY <1>1, <1>3, <1>4, <1>7, ChainType
  <2>2. i # 1 => rest[1] = f.chain[1]
    BY <2>1, <1>3, <1>4
  <2>3. i # k => rest[k - 1] = f.chain[k]
    BY <2>1, <1>3, <1>4
  <2>4. Last(rest) = rest[k - 1]
    BY <1>4 DEF Last
  <2>5. g.nodeHeader = rest[1].loc /\ (X = {} => g.nodeTail = Last(rest).loc)
    BY <1>2, <1>5, <1>7, <2>2, <2>3, <2>4
  <2> QED
    BY <1>1, <1>7, <2>5 DEF HeadTail
<1> QED
  BY <1>6, <1>7

LEMMA HeadsMatchStep ==
  ASSUME NEW X, TypeOK, CallInv, StaleMatches, HeadsMatch(X), [Next]_vars
  PROVE  HeadsMatch(X)'
<1>0. /\ \A p \in DOMAIN tab : HeadTail(tab[p], X)
      /\ (\A p \in DOMAIN tab' : HeadTail(tab'[p], X)) => HeadsMatch(X)'
  BY DEF HeadsMatch, HeadTail
<1>1. \A p \in DOMAIN tab : tab[p] \in CachedFile /\ HeadTail(tab[p], X)
  BY <1>0, TypeParts
<1> SUFFICES \A p \in DOMAIN tab' : HeadTail(tab'[p], X)
  BY <1>0
<1>2. CASE tab' = tab
  BY <1>1, <1>2
<1>3. ASSUME NEW p \in DOMAIN tab, NEW f \in CachedFile,
             f.chain = tab[p].chain, f.nodeHeader = tab[p].nodeHeader, f.nodeTail = tab[p].nodeTail,
             tab' = [tab EXCEPT ![p] = f]
      PROVE  \A q \in DOMAIN tab' : HeadTail(tab'[q], X)
  <2>1. HeadTail(f, X)
    BY <1>1, <1>3 DEF HeadTail
  <2> QED
    BY <1>1, <1>3, <2>1
<1>4. ASSUME NEW p \in DOMAIN tab, RemoveFile(p)
      PROVE  \A q \in DOMAIN tab' : HeadTail(tab'[q], X)
  BY <1>1, <1>4 DEF RemoveFile
<1>5. ASSUME NEW p \in Paths, NEW off \in BlockOffs, NEW len \in Lens, OverwriteBlock(p, off, off + len)
      PROVE  \A q \in DOMAIN tab' : HeadTail(tab'[q], X)
  <2> DEFINE f == [tab[p] EXCEPT !.fileoff = Grow(tab[p].fileoff, off + len)]
  <2>1. tab[p].fileoff \in Nat /\ p \in DOMAIN tab
    BY <1>1, <1>5 DEF OverwriteBlock, CachedFile
  <2>2. Grow(tab[p].fileoff, off + len) \in Nat
    BY <2>1, OffsAreNat DEF Grow
  <2>3. f \in CachedFile /\ f.chain = tab[p].chain /\ f.nodeHeader = tab[p].nodeHeader
        /\ f.nodeTail = tab[p].nodeTail /\ tab' = [tab EXCEPT ![p] = f]
    BY <1>1, <1>5, <2>1, <2>2 DEF OverwriteBlock, CachedFile
  <2> QED
    BY <1>3, <2>1, <2>3
<1>6. CASE LinkNewFile
  <2> DEFINE n == [loc |-> req.blk, off |-> req.off]
             f == [loc |-> req.hdr, nodeHeader |-> req.blk, nodeTail |-> req.blk,
                   fileoff |-> Grow(hdr[req.hdr].fileoff, req.end), chain |-> <<n>>, sn |-> "null"]
  <2>1. HeadTail(f, X)
    BY DEF HeadTail, Last
  <2>2. tab' = [q \in DOMAIN tab \cup {req.path} |-> IF q = req.path THEN f ELSE tab[q]]
    BY <1>6 DEF LinkNewFile
  <2> HIDE DEF f
  <2> QED
    BY <1>1, <2>1, <2>2
<1>7. CASE LinkBlock
  <2> DEFINE f == tab[req.path]
             g == WithBlock(f, req.blk, req.off, req.end)
  <2>1. f \in CachedFile /\ HeadTail(f, X) /\ req.blk \in Blocks /\ req.off \in BlockOffs /\ req.end \in Nat
    BY <1>1, <1>7, TypeParts DEF LinkBlock, CallInv, RequestType, BlockOrNone
  <2>2. HeadTail(g, X)
    BY <2>1, HeadTailWithBlock
  <2>3. tab' = [tab EXCEPT ![req.path] = g]
    BY <1>7 DEF LinkBlock
  <2> HIDE DEF g
  <2> QED
    BY <1>1, <2>2, <2>3
<1>8. ASSUME NEW p \in Paths, NEW off \in TruncateOffs, TruncateStart(p, off)
      PROVE  \A q \in DOMAIN tab' : HeadTail(tab'[q], X)
  <2> DEFINE f == [tab[p] EXCEPT !.fileoff = off]
  <2>1. off \in Nat /\ p \in DOMAIN tab
    BY <1>8, RSCAssumption DEF TruncateStart
  <2>2. f \in CachedFile /\ f.chain = tab[p].chain /\ f.nodeHeader = tab[p].nodeHeader
        /\ f.nodeTail = tab[p].nodeTail /\ tab' = [tab EXCEPT ![p] = f]
    BY <1>1, <1>8, <2>1 DEF TruncateStart, CachedFile
  <2> QED
    BY <1>3, <2>1, <2>2
<1>9. CASE TruncateBlock
  <2> DEFINE f == tab[cut.path]
  <2>1. PICK i \in CutNodes : tab' = [tab EXCEPT ![cut.path] = WithoutNode(f, i)]
    BY <1>9 DEF TruncateBlock, CutBlock
  <2>2. f \in CachedFile /\ HeadTail(f, X) /\ i \in DOMAIN f.chain
    BY <1>1, <1>9 DEF TruncateBlock, CutBlock, CallInv, CutNodes
  <2>3. HeadTail(WithoutNode(f, i), X)
    BY <2>2, HeadTailWithoutNode
  <2> QED
    BY <1>1, <2>1, <2>3
<1>10. ASSUME NEW p \in Paths, NEW sn \in StaleNode, p \in DOMAIN tab, tab' = [tab EXCEPT ![p].sn = sn]
       PROVE  \A q \in DOMAIN tab' : HeadTail(tab'[q], X)
  <2> DEFINE f == [tab[p] EXCEPT !.sn = sn]
  <2>1. f \in CachedFile /\ f.chain = tab[p].chain /\ f.nodeHeader = tab[p].nodeHeader
        /\ f.nodeTail = tab[p].nodeTail /\ tab' = [tab EXCEPT ![p] = f]
    BY <1>1, <1>10 DEF CachedFile
  <2> QED
    BY <1>3, <1>10, <2>1
<1>11. CASE Evict
  BY <1>4, <1>11, StaleHead DEF Evict
<1>12. CASE UNCHANGED vars
  BY <1>2, <1>12 DEF vars
<1>13. ASSUME NEW p \in Paths, NEW off \in BlockOffs, NEW len \in Lens
       PROVE  /\ InsertNewFile(p, off, len) => tab' = tab
              /\ \A flag \in InsertFlags : InsertBlock(p, off, len, flag) => tab' = tab
  BY DEF InsertNewFile, InsertBlock
<1>14. AllocBlock \/ GiveUp \/ NoBlockAfterEviction \/ LinkAborts \/ LinkToEvicted
       \/ HeadNotListed \/ RmBlock \/ RmDone \/ TruncateDone \/ Race
       \/ (\E p \in Paths : NodeNotListed(p)) => tab' = tab
  BY DEF AllocBlock, GiveUp, NoBlockAfterEviction, LinkAborts, LinkToEvicted,
         HeadNotListed, NodeNotListed, RmBlock, RmDone, TruncateDone, Race
<1>15. ASSUME NEW p \in Paths,
              Append_to_stale_list(p) \/ AppendNode(p) \/ Rm_file_from_stale_list(p)
       PROVE  \A q \in DOMAIN tab' : HeadTail(tab'[q], X)
  BY <1>10, <1>15 DEF Append_to_stale_list, AppendNode, Rm_file_from_stale_list, StaleNode
<1>16. ASSUME NEW p \in Paths, Rm(p)
       PROVE  \A q \in DOMAIN tab' : HeadTail(tab'[q], X)
  BY <1>4, <1>16 DEF Rm
<1> QED
  BY <1>2, <1>5, <1>6, <1>7, <1>8, <1>9, <1>11, <1>12, <1>13, <1>14, <1>15, <1>16
  DEF Next, Call, CallStep, CutStep, AppendStep

LEMMA LeaveStaleListStep ==
  ASSUME TypeOK, StaleMatches, NEW p \in DOMAIN tab, LeaveStaleList(p)
  PROVE  /\ \A i, j \in DOMAIN stale' : stale'[i] = stale'[j] => i = j
         /\ {stale'[i] : i \in DOMAIN stale'} = {q \in DOMAIN tab : tab[q].sn = "listed" /\ q # p}
<1>1. stale \in Seq(Paths) /\ Len(stale) \in Nat /\ DOMAIN stale = 1 .. Len(stale)
  BY TypeParts, LenProperties
<1>2. CASE tab[p].sn # "listed"
  BY <1>2 DEF LeaveStaleList, StaleMatches
<1>3. CASE tab[p].sn = "listed"
  <2>1. PICK k \in DOMAIN stale : stale[k] = p /\ stale' = RemoveAt(stale, k)
    BY <1>3 DEF LeaveStaleList
  <2> DEFINE n == Len(stale)
  <2>2. /\ DOMAIN stale' = 1 .. (n - 1)
        /\ \A j \in 1 .. (n - 1) : stale'[j] = IF j < k THEN stale[j] ELSE stale[j + 1]
    BY <1>1, <2>1, RemoveAtProperties
  <2>3. k \in 1 .. n /\ n \in Nat
    BY <1>1, <2>1
  <2> DEFINE old(j) == IF j < k THEN j ELSE j + 1
  <2>11. \A j \in 1 .. (n - 1) : old(j) \in 1 .. n /\ stale'[j] = stale[old(j)]
    BY <2>2, <2>3
  <2>12. \A i, j \in 1 .. (n - 1) : old(i) = old(j) => i = j
    BY <2>3
  <2> HIDE DEF old
  <2>4. ASSUME NEW i \in DOMAIN stale', NEW j \in DOMAIN stale', stale'[i] = stale'[j]
        PROVE  i = j
    <3>1. stale[old(i)] = stale[old(j)] /\ old(i) \in DOMAIN stale /\ old(j) \in DOMAIN stale
      BY <1>1, <2>2, <2>4, <2>11
    <3>2. old(i) = old(j)
      BY <3>1 DEF StaleMatches
    <3> QED
      BY <2>2, <2>12, <3>2
  <2>5. ASSUME NEW j \in DOMAIN stale'
        PROVE  stale'[j] \in {q \in DOMAIN tab : tab[q].sn = "listed" /\ q # p}
    <3>1. PICK m \in 1 .. n : stale'[j] = stale[m] /\ m # k
      BY <2>2, <2>3
    <3>2. stale[m] # p /\ stale[m] \in {q \in DOMAIN tab : tab[q].sn = "listed"}
      BY <1>1, <2>1, <3>1 DEF StaleMatches
    <3> QED
      BY <3>1, <3>2
  <2>6. ASSUME NEW q \in DOMAIN tab, tab[q].sn = "listed", q # p
        PROVE  \E j \in DOMAIN stale' : stale'[j] = q
    <3>1. PICK m \in 1 .. n : stale[m] = q
      BY <1>1, <2>6 DEF StaleMatches
    <3>2. m # k
      BY <2>1, <2>6, <3>1
    <3>3. CASE m < k
      <4>1. m \in 1 .. (n - 1) /\ m \in DOMAIN stale'
        BY <2>2, <2>3, <3>3
      <4> QED
        BY <4>1, <2>2, <3>1, <3>3
    <3>4. CASE m > k
      <4>1. m - 1 \in 1 .. (n - 1) /\ ~(m - 1 < k) /\ (m - 1) + 1 = m
        BY <2>3, <3>4
      <4> QED
        BY <4>1, <2>2, <3>1
    <3> QED
      BY <2>3, <3>2, <3>3, <3>4
  <2> QED
    BY <2>4, <2>5, <2>6
<1> QED
  BY <1>2, <1>3

LEMMA StaleMatchesStep ==
  ASSUME TypeOK, CallInv, StaleMatches, [Next]_vars
  PROVE  StaleMatches'
<1> DEFINE Stale(s, t) ==
      /\ \A i, j \in DOMAIN s : s[i] = s[j] => i = j
      /\ {s[i] : i \in DOMAIN s} = {p \in DOMAIN t : t[p].sn = "listed"}
<1>0. Stale(stale, tab) /\ (Stale(stale', tab') => StaleMatches')
  BY DEF StaleMatches
<1>1. \A p \in DOMAIN tab : tab[p] \in CachedFile
  BY TypeParts
<1> SUFFICES Stale(stale', tab')
  BY <1>0
<1>2. ASSUME stale' = stale, DOMAIN tab' = DOMAIN tab,
             \A p \in DOMAIN tab : tab'[p].sn = "listed" <=> tab[p].sn = "listed"
      PROVE  Stale(stale', tab')
  BY <1>0, <1>2
<1>3. ASSUME NEW p \in DOMAIN tab, RemoveFile(p)
      PROVE  Stale(stale', tab')
  <2>1. /\ \A i, j \in DOMAIN stale' : stale'[i] = stale'[j] => i = j
        /\ {stale'[i] : i \in DOMAIN stale'} = {q \in DOMAIN tab : tab[q].sn = "listed" /\ q # p}
    BY <1>3, LeaveStaleListStep DEF RemoveFile
  <2>2. {q \in DOMAIN tab : tab[q].sn = "listed" /\ q # p} = {q \in DOMAIN tab' : tab'[q].sn = "listed"}
    BY <1>3 DEF RemoveFile
  <2> QED
    BY <2>1, <2>2
<1>4. ASSUME NEW p \in Paths, NEW off \in BlockOffs, NEW len \in Lens, OverwriteBlock(p, off, off + len)
      PROVE  Stale(stale', tab')
  <2>1. \A q \in DOMAIN tab : tab'[q].sn = tab[q].sn
    BY <1>1, <1>4 DEF OverwriteBlock, CachedFile
  <2> QED
    BY <1>2, <1>4, <2>1 DEF OverwriteBlock
<1>5. CASE LinkNewFile
  <2>1. req.path \notin DOMAIN tab
    BY <1>5 DEF LinkNewFile, CallInv
  <2>2. DOMAIN tab' = DOMAIN tab \cup {req.path} /\ tab'[req.path].sn # "listed"
        /\ \A q \in DOMAIN tab : tab'[q] = tab[q]
    BY <1>5, <2>1 DEF LinkNewFile
  <2>3. {q \in DOMAIN tab' : tab'[q].sn = "listed"} = {q \in DOMAIN tab : tab[q].sn = "listed"}
    BY <2>1, <2>2
  <2>4. stale' = stale
    BY <1>5 DEF LinkNewFile
  <2> QED
    BY <1>0, <2>3, <2>4
<1>6. CASE LinkBlock
  <2> DEFINE f == tab[req.path]
             g == WithBlock(f, req.blk, req.off, req.end)
  <2>1. f \in CachedFile /\ req.blk \in Blocks /\ req.off \in BlockOffs /\ req.end \in Nat
    BY <1>1, <1>6, TypeParts DEF LinkBlock, CallInv, RequestType, BlockOrNone
  <2> HIDE DEF f
  <2>2. g.sn = f.sn
    BY <2>1, WithBlockType
  <2> USE DEF f
  <2>3. tab' = [tab EXCEPT ![req.path] = g]
    BY <1>6 DEF LinkBlock
  <2> HIDE DEF g
  <2>4. DOMAIN tab' = DOMAIN tab /\ \A q \in DOMAIN tab : tab'[q].sn = tab[q].sn
    BY <1>6, <2>2, <2>3 DEF LinkBlock
  <2> QED
    BY <1>2, <1>6, <2>4 DEF LinkBlock
<1>7. ASSUME NEW p \in Paths, NEW off \in TruncateOffs, TruncateStart(p, off)
      PROVE  Stale(stale', tab')
  <2>1. \A q \in DOMAIN tab : tab'[q].sn = tab[q].sn
    BY <1>1, <1>7 DEF TruncateStart, CachedFile
  <2> QED
    BY <1>2, <1>7, <2>1 DEF TruncateStart
<1>8. CASE TruncateBlock
  <2> DEFINE f == tab[cut.path]
  <2>1. PICK i \in CutNodes : tab' = [tab EXCEPT ![cut.path] = WithoutNode(f, i)]
    BY <1>8 DEF TruncateBlock, CutBlock
  <2>2. f \in CachedFile /\ i \in DOMAIN f.chain /\ cut.path \in DOMAIN tab
    BY <1>1, <1>8 DEF TruncateBlock, CutBlock, CallInv, CutNodes
  <2>3. WithoutNode(f, i).sn = f.sn
    BY <2>2, WithoutNodeType
  <2>4. DOMAIN tab' = DOMAIN tab /\ \A q \in DOMAIN tab : tab'[q].sn = tab[q].sn
    BY <2>1, <2>2, <2>3
  <2> QED
    BY <1>2, <1>8, <2>4 DEF TruncateBlock, CutBlock
<1>16. ASSUME NEW p \in Paths, Append_to_stale_list(p)
       PROVE  Stale(stale', tab')
  <2>1. DOMAIN tab' = DOMAIN tab /\ \A q \in DOMAIN tab : tab'[q].sn = "listed" <=> tab[q].sn = "listed"
    BY <1>1, <1>16 DEF Append_to_stale_list, CachedFile
  <2> QED
    BY <1>2, <1>16, <2>1 DEF Append_to_stale_list
<1>9. ASSUME NEW p \in Paths, AppendNode(p)
      PROVE  Stale(stale', tab')
  <2>1. p \in DOMAIN tab /\ tab[p].sn # "listed" /\ tab[p] \in CachedFile /\ stale' = Append(stale, p)
    BY <1>1, <1>9 DEF AppendNode
  <2>2. DOMAIN tab' = DOMAIN tab
        /\ \A q \in DOMAIN tab : tab'[q].sn = "listed" <=> (tab[q].sn = "listed" \/ q = p)
    BY <1>1, <1>9, <2>1 DEF AppendNode, CachedFile
  <2> DEFINE n == Len(stale)
  <2>3. n \in Nat /\ DOMAIN stale = 1 .. n /\ stale' \in Seq(Paths) /\ Len(stale') = n + 1
        /\ (\A i \in 1 .. n : stale'[i] = stale[i]) /\ stale'[n + 1] = p
    BY <1>9, <2>1, TypeParts, LenProperties, AppendProperties
  <2>4. DOMAIN stale' = 1 .. (n + 1)
    BY <2>3, LenProperties
  <2>5. \A i \in 1 .. n : stale[i] # p
    BY <1>0, <2>1, <2>3
  <2>6. \A i, j \in DOMAIN stale' : stale'[i] = stale'[j] => i = j
    BY <1>0, <2>3, <2>4, <2>5
  <2>7. {stale'[i] : i \in DOMAIN stale'} = {stale[i] : i \in DOMAIN stale} \cup {p}
    BY <2>3, <2>4
  <2>8. {q \in DOMAIN tab' : tab'[q].sn = "listed"} = {q \in DOMAIN tab : tab[q].sn = "listed"} \cup {p}
    BY <2>1, <2>2
  <2> QED
    BY <1>0, <2>6, <2>7, <2>8
<1>10. ASSUME NEW p \in Paths, Rm_file_from_stale_list(p)
       PROVE  Stale(stale', tab')
  <2>1. p \in DOMAIN tab /\ LeaveStaleList(p)
    BY <1>10 DEF Rm_file_from_stale_list
  <2>2. DOMAIN tab' = DOMAIN tab
        /\ \A q \in DOMAIN tab : tab'[q].sn = "listed" <=> (tab[q].sn = "listed" /\ q # p)
    BY <1>1, <1>10 DEF Rm_file_from_stale_list, CachedFile
  <2>3. {q \in DOMAIN tab : tab[q].sn = "listed" /\ q # p} = {q \in DOMAIN tab' : tab'[q].sn = "listed"}
    BY <2>2
  <2> QED
    BY <2>1, <2>3, LeaveStaleListStep
<1>11. CASE Evict
  BY <1>3, <1>11, StaleHead DEF Evict
<1>12. ASSUME NEW p \in Paths, Rm(p)
       PROVE  Stale(stale', tab')
  BY <1>3, <1>12 DEF Rm
<1>13. CASE tab' = tab /\ stale' = stale
  BY <1>0, <1>13
<1>14. ASSUME NEW p \in Paths, NEW off \in BlockOffs, NEW len \in Lens
       PROVE  /\ InsertNewFile(p, off, len) => tab' = tab /\ stale' = stale
              /\ \A flag \in InsertFlags :
                   InsertBlock(p, off, len, flag) => tab' = tab /\ stale' = stale
  BY DEF InsertNewFile, InsertBlock
<1>15. AllocBlock \/ GiveUp \/ NoBlockAfterEviction \/ LinkAborts \/ LinkToEvicted
       \/ HeadNotListed \/ (\E p \in Paths : NodeNotListed(p))
       \/ RmBlock \/ RmDone \/ TruncateDone \/ Race \/ UNCHANGED vars
       => tab' = tab /\ stale' = stale
  BY DEF AllocBlock, GiveUp, NoBlockAfterEviction, LinkAborts, LinkToEvicted,
         HeadNotListed, NodeNotListed, RmBlock, RmDone, TruncateDone, Race, vars
<1> HIDE DEF Stale
<1> QED
  BY <1>4, <1>5, <1>6, <1>7, <1>8, <1>9, <1>10, <1>11, <1>12, <1>13, <1>14, <1>15, <1>16
  DEF Next, Call, CallStep, CutStep, AppendStep

-----------------------------------------------------------------------------
(* The variables of the calls in progress.                                 *)

\* A step of the call that leaves the table and the Truncate alone
LEMMA CallInvSameTable ==
  ASSUME TypeOK, CallInv, tab' = tab, cut' = cut,
         req'.path = NoPath => req' = NoReq,
         pc' = "idle" => req' = NoReq,
         pc' # "rm" => walk' = INVLOC,
         req'.blk # INVLOC => pc' \in {"link", "line359", "usedAfterFree"},
         pc' = "link" => req'.blk # INVLOC,
         pc' \in {"alloc", "realloc", "link"} => req'.path \in Paths,
         req'.path \in Paths => req'.off \in BlockOffs,
         req'.hdr # INVLOC => req'.path \notin DOMAIN tab,
         req'.path \in DOMAIN tab => req'.path # cut.path /\ Arrives(req'.path, req'.off)
  PROVE  CallInv'
  BY DEF CallInv, Arrives, Offs

\* The table changes in one file, which is not the Insert's
LEMMA CallInvOtherFile ==
  ASSUME TypeOK, CallInv, UNCHANGED <<pc, walk, req, cut>>, DOMAIN tab' = DOMAIN tab,
         \A p \in DOMAIN tab : p = req.path => tab'[p].chain = tab[p].chain
  PROVE  CallInv'
<1>1. req.path \in DOMAIN tab => Offs(req.path)' = Offs(req.path)
  BY DEF Offs
<1> QED
  BY <1>1 DEF CallInv, Arrives

LEMMA CallInvStep ==
  ASSUME TypeOK, StaleMatches, CallInv, [Next]_vars
  PROVE  CallInv'
<1> USE TypeParts
<1>1. \A p \in DOMAIN tab : p \in Paths /\ p # NoPath /\ tab[p] \in CachedFile
  BY RSCAssumption
<1>2. NoReq.path = NoPath /\ NoReq.blk = INVLOC /\ NoReq.hdr = INVLOC /\ NoCut.path = NoPath
  BY DEF NoReq, NoCut
<1>3. NoPath \notin Paths /\ NoPath \notin DOMAIN tab
  BY RSCAssumption
<1>4. ASSUME NEW p \in Paths, NEW off \in BlockOffs, NEW len \in Lens, InsertNewFile(p, off, len)
      PROVE  CallInv'
  <2>1. req' = [NoReq EXCEPT !.path = p, !.off = off, !.end = off + len, !.hdr = mb.hfl]
    BY <1>4 DEF InsertNewFile
  <2>2. req'.path = p /\ req'.off = off /\ req'.hdr = mb.hfl /\ req'.blk = INVLOC
    BY <2>1 DEF NoReq
  <2>3. p \notin DOMAIN tab /\ tab' = tab /\ cut' = cut /\ walk' = walk
        /\ pc = "idle" /\ pc' = "alloc"
    BY <1>4 DEF InsertNewFile
  <2>4. walk = INVLOC
    BY <2>3 DEF CallInv
  <2> QED
    BY <1>3, <2>2, <2>3, <2>4, CallInvSameTable
<1>5. ASSUME NEW p \in Paths, NEW off \in BlockOffs, NEW len \in Lens, NEW flag \in InsertFlags,
             InsertBlock(p, off, len, flag)
      PROVE  CallInv'
  <2>1. req' = [NoReq EXCEPT !.path = p, !.off = off, !.end = off + len, !.flag = flag]
    BY <1>5 DEF InsertBlock
  <2>2. req'.path = p /\ req'.off = off /\ req'.hdr = INVLOC /\ req'.blk = INVLOC
    BY <2>1 DEF NoReq
  <2>3. p # cut.path /\ Arrives(p, off) /\ tab' = tab /\ cut' = cut /\ walk' = walk
        /\ pc = "idle" /\ pc' = "alloc"
    BY <1>5 DEF InsertBlock, Untouched
  <2>4. walk = INVLOC
    BY <2>3 DEF CallInv
  <2> QED
    BY <1>3, <2>2, <2>3, <2>4, CallInvSameTable
<1>6. CASE AllocBlock
  <2>1. req' = [req EXCEPT !.blk = mb.bfl] /\ mb.bfl # INVLOC /\ pc \in {"alloc", "realloc"} /\ pc' = "link"
        /\ UNCHANGED <<tab, cut, walk>>
    BY <1>6 DEF AllocBlock, Alloc_file_block
  <2>2. req'.path = req.path /\ req'.off = req.off /\ req'.hdr = req.hdr /\ req'.blk = mb.bfl
    BY <2>1 DEF RequestType
  <2> QED
    BY <1>3, <2>1, <2>2, CallInvSameTable DEF CallInv
<1>7. CASE GiveUp
  BY <1>2, <1>3, <1>7, CallInvSameTable DEF GiveUp, CallInv
<1>8. CASE NoBlockAfterEviction \/ HeadNotListed \/ (\E p \in Paths : NodeNotListed(p))
           \/ LinkAborts \/ LinkToEvicted \/ RmDone \/ Race
  <2>1. /\ UNCHANGED <<tab, cut, walk, req>>
        /\ pc' = "idle" => req = NoReq
        /\ pc' # "rm" => walk = INVLOC
        /\ req.blk # INVLOC => pc' \in {"link", "line359", "usedAfterFree"}
        /\ pc' = "link" => req.blk # INVLOC
        /\ pc' \in {"alloc", "realloc", "link"} => req.path \in Paths
    <3>1. CASE NoBlockAfterEviction
      BY <3>1 DEF NoBlockAfterEviction, CallInv
    <3>2. CASE LinkAborts
      BY <3>2 DEF LinkAborts, CallInv
    <3>3. CASE LinkToEvicted
      BY <3>3 DEF LinkToEvicted, CallInv
    <3>4. CASE RmDone
      BY <3>4 DEF RmDone, CallInv, RequestType
    <3>5. CASE Race
      BY <3>5 DEF Race, CallInv
    <3>6. CASE HeadNotListed
      BY <3>6 DEF HeadNotListed, CallInv
    <3>7. CASE \E p \in Paths : NodeNotListed(p)
      BY <3>7 DEF NodeNotListed, CallInv
    <3> QED
      BY <1>8, <3>1, <3>2, <3>3, <3>4, <3>5, <3>6, <3>7
  <2> QED
    BY <2>1, CallInvSameTable DEF CallInv
<1>9. CASE RmBlock
  BY <1>9, CallInvSameTable DEF RmBlock, CallInv
<1>10. ASSUME NEW p \in DOMAIN tab, Untouched(p), pc \in {"idle", "alloc"}, RemoveFile(p), UNCHANGED <<req, cut>>
       PROVE  CallInv'
  <2>1. pc' = "rm" /\ DOMAIN tab' = DOMAIN tab \ {p} /\ \A q \in DOMAIN tab' : tab'[q] = tab[q]
    BY <1>10 DEF RemoveFile
  <2>2. req.path \in DOMAIN tab' => req.path \in DOMAIN tab /\ Offs(req.path)' = Offs(req.path)
    BY <1>10, <2>1 DEF Offs
  <2>3. req.blk = INVLOC /\ (cut # NoCut => cut.path \in DOMAIN tab')
    BY <1>10, <2>1 DEF CallInv, Untouched
  <2> QED
    BY <1>10, <2>1, <2>2, <2>3 DEF CallInv, Arrives
<1>11. CASE Evict
  BY <1>10, <1>11, StaleHead DEF Evict
<1>12. ASSUME NEW p \in Paths, Rm(p)
       PROVE  CallInv'
  BY <1>10, <1>12 DEF Rm
<1>13. CASE LinkNewFile
  <2>1. req' = NoReq /\ pc' = "idle" /\ UNCHANGED <<walk, cut>> /\ pc = "link"
        /\ DOMAIN tab' = DOMAIN tab \cup {req.path}
    BY <1>13 DEF LinkNewFile
  <2>2. req.path \in Paths
    BY <2>1 DEF CallInv
  <2> QED
    BY <1>2, <1>3, <2>1, <2>2 DEF CallInv
<1>14. CASE LinkBlock
  <2>1. req' = NoReq /\ pc' = "idle" /\ UNCHANGED <<walk, cut>> /\ pc = "link" /\ DOMAIN tab' = DOMAIN tab
    BY <1>14 DEF LinkBlock
  <2> QED
    BY <1>2, <1>3, <2>1 DEF CallInv
<1>15. ASSUME NEW p \in Paths, NEW off \in BlockOffs, NEW len \in Lens, OverwriteBlock(p, off, off + len)
       PROVE  CallInv'
  <2>1. \A q \in DOMAIN tab : tab'[q].chain = tab[q].chain
    BY <1>1, <1>15 DEF OverwriteBlock, CachedFile
  <2> QED
    BY <1>15, <2>1, CallInvOtherFile DEF OverwriteBlock
<1>16. ASSUME NEW p \in Paths, NEW off \in TruncateOffs, TruncateStart(p, off)
       PROVE  CallInv'
  <2>1. pc = "idle" /\ UNCHANGED <<pc, req, walk>> /\ DOMAIN tab' = DOMAIN tab /\ p \in DOMAIN tab
        /\ cut' = [path |-> p, off |-> off]
    BY <1>16 DEF TruncateStart
  <2>2. req = NoReq /\ cut'.path = p
    BY <2>1 DEF CallInv
  <2> QED
    BY <1>1, <1>2, <1>3, <2>1, <2>2 DEF CallInv
<1>17. CASE TruncateBlock
  <2> DEFINE f == tab[cut.path]
  <2>1. PICK i \in CutNodes : tab' = [tab EXCEPT ![cut.path] = WithoutNode(f, i)]
    BY <1>17 DEF TruncateBlock, CutBlock
  <2>2. req.path \in DOMAIN tab => req.path # cut.path
    BY DEF CallInv
  <2> QED
    BY <1>17, <2>1, <2>2, CallInvOtherFile DEF TruncateBlock, CutBlock
<1>18. CASE TruncateDone
  <2>1. UNCHANGED <<tab, pc, req, walk>> /\ cut' = NoCut
    BY <1>18 DEF TruncateDone
  <2> QED
    BY <1>2, <1>3, <2>1 DEF CallInv, Arrives, Offs
<1>19. ASSUME NEW p \in Paths,
              Append_to_stale_list(p) \/ AppendNode(p) \/ Rm_file_from_stale_list(p)
       PROVE  CallInv'
  <2>1. \A q \in DOMAIN tab : tab'[q].chain = tab[q].chain
    <3>1. CASE Append_to_stale_list(p)
      BY <1>1, <3>1 DEF Append_to_stale_list, CachedFile
    <3>2. CASE Rm_file_from_stale_list(p)
      BY <1>1, <3>2 DEF Rm_file_from_stale_list, CachedFile
    <3>3. CASE AppendNode(p)
      BY <1>1, <3>3 DEF AppendNode, CachedFile
    <3> QED
      BY <1>19, <3>1, <3>2, <3>3
  <2> QED
    BY <1>19, <2>1, CallInvOtherFile DEF Append_to_stale_list, AppendNode, Rm_file_from_stale_list
<1>20. CASE UNCHANGED vars
  BY <1>20, CallInvOtherFile DEF vars
<1> QED
  BY <1>4, <1>5, <1>6, <1>7, <1>8, <1>9, <1>11, <1>12, <1>13, <1>14, <1>15, <1>16,
     <1>17, <1>18, <1>19, <1>20
  DEF Next, Call, CallStep, CutStep, AppendStep

-----------------------------------------------------------------------------
(* The theorems.                                                           *)

LEMMA TableInvInit == Init => TableInv
<1>1. Init => StaleMatches /\ HeaderMatchesChain
  BY DEF Init, StaleMatches, HeaderMatchesChain
<1>2. Init => CallInv
  BY RSCAssumption DEF Init, CallInv, NoReq, NoCut
<1> QED
  BY <1>1, <1>2, TypeInit DEF TableInv

LEMMA TableInvStep == TableInv /\ [Next]_vars => TableInv'
  BY TypeStep, StaleMatchesStep, CallInvStep, HeadsMatchStep, HeadsMatchAll DEF TableInv

LEMMA TableInvAlways == Spec => []TableInv
  BY TableInvInit, TableInvStep, PTL DEF Spec

\* The locs that the free lists, the files and the calls hold always name
\* headers and blocks of the cache file, whatever its size.
THEOREM TypeCorrect == Spec => []TypeOK
<1>1. TableInv => TypeOK
  BY DEF TableInv
<1> QED
  BY <1>1, TableInvAlways, PTL

\* The assertions of RSC_m.c:703, 707, 804 and 808 never fail: nodeHeader and
\* nodeTail of a cached file follow every append and every unlinking.
THEOREM HeaderMatchesChainAlways == Spec => []HeaderMatchesChain
<1>1. TableInv => HeaderMatchesChain
  BY DEF TableInv
<1> QED
  BY <1>1, TableInvAlways, PTL

\* The stale list holds exactly the files whose append has linked them, each
\* once, and none that has left the table, through closing, opening, removal
\* and eviction.  (A file between the two sections of its append is not on it:
\* there 300 and 338 fail, which RSCEntry follows to the thread that fails.)
THEOREM StaleMatchesAlways == Spec => []StaleMatches
<1>1. TableInv => StaleMatches
  BY DEF TableInv
<1> QED
  BY <1>1, TableInvAlways, PTL

\* Eviction never takes an open file (RSC_m.c:324): a file that is not on the
\* stale list leaves the table only by a call for the file itself.
THEOREM OpenFilesKeptAlways == Spec => OpenFilesKept
<1>1. ASSUME TableInv, [Next]_vars
      PROVE  \A p \in DOMAIN tab : p \notin DOMAIN tab' /\ tab[p].sn # "listed" => pc = "idle"
  <2> SUFFICES ASSUME NEW p \in DOMAIN tab, p \notin DOMAIN tab', tab[p].sn # "listed" PROVE pc = "idle"
    OBVIOUS
  <2>1. CASE Evict
    <3>1. Head(stale) \in DOMAIN tab /\ tab[Head(stale)].sn = "listed"
      BY <1>1, <2>1, StaleHead DEF Evict, TableInv
    <3>2. DOMAIN tab' = DOMAIN tab \ {Head(stale)}
      BY <2>1 DEF Evict, RemoveFile
    <3> QED
      BY <3>1, <3>2
  <2>2. CASE Call
    BY <2>2 DEF Call, InsertNewFile, InsertBlock, OverwriteBlock, Rm, Append_to_stale_list,
                Rm_file_from_stale_list, NodeNotListed, TruncateStart
  <2>3. CASE DOMAIN tab \subseteq DOMAIN tab'
    BY <2>3
  <2>4. CASE TruncateBlock \/ LinkNewFile \/ LinkBlock
    <3>1. DOMAIN tab \subseteq DOMAIN tab'
      BY <2>4 DEF TruncateBlock, CutBlock, LinkNewFile, LinkBlock
    <3> QED
      BY <3>1
  <2> QED
    BY <1>1, <2>1, <2>2, <2>3, <2>4
    DEF Next, CallStep, CutStep, AppendStep, AppendNode, AllocBlock, GiveUp, NoBlockAfterEviction,
        HeadNotListed, LinkAborts, LinkToEvicted, RmBlock, RmDone, TruncateDone, Race, vars
<1> QED
  BY <1>1, TableInvAlways, PTL DEF Spec, OpenFilesKept

=============================================================================
