--------------------------- MODULE RSCCrashProof ----------------------------
(***************************************************************************)
(* Theorems about the cache file across stops and starts (RSCCrash), for   *)
(* every number of blocks, headers, files and starts.                      *)
(***************************************************************************)
EXTENDS RSCCrash, RSCTableDiskProof

-----------------------------------------------------------------------------
(* Recursive definitions.                                                  *)

\* What begins in D and never leaves it is in D.
LEMMA StaysIn ==
  ASSUME NEW D, NEW m \in Nat, NEW a, a[0] \in D,
         \A k \in 1 .. m : a[k - 1] \in D => a[k] \in D
  PROVE  \A k \in 0 .. m : a[k] \in D
<1> DEFINE T == {k \in Nat : k <= m => a[k] \in D}
<1>1. 0 \in T
  OBVIOUS
<1>2. ASSUME NEW k \in Nat, k \in T
      PROVE  k + 1 \in T
  <2> SUFFICES ASSUME k + 1 <= m
               PROVE  a[k + 1] \in D
    OBVIOUS
  <2>1. k + 1 \in 1 .. m /\ (k + 1) - 1 = k /\ k <= m
    OBVIOUS
  <2> QED
    BY <1>2, <2>1
<1> HIDE DEF T
<1>3. Nat \subseteq T
  BY <1>1, <1>2, NatSetInduction
<1> QED
  BY <1>3 DEF T

\* g[1] to g[m] are steps of D; a goes through them from x on.
StepsOf(D, m, g) == \A k \in 1 .. m : \A y \in D : g[k][y] \in D

Through(D, m, g, x, a) ==
  /\ a \in [0 .. m -> D]
  /\ a[0] = x
  /\ \A k \in 1 .. m : a[k] = g[k][a[k - 1]]

LEMMA RecursionExists ==
  ASSUME NEW D, NEW x \in D, NEW m \in Nat, NEW g, StepsOf(D, m, g)
  PROVE  \E a : Through(D, m, g, x, a)
<1> DEFINE Goes(n) == \E a : Through(D, n, g, x, a)
           T == {n \in Nat : n <= m => Goes(n)}
<1>1. Goes(0)
  <2> DEFINE a == [k \in 0 .. 0 |-> x]
  <2>1. a \in [0 .. 0 -> D] /\ a[0] = x /\ 1 .. 0 = {}
    OBVIOUS
  <2> HIDE DEF a
  <2>2. Through(D, 0, g, x, a)
    BY <2>1 DEF Through
  <2> QED
    BY <2>2
<1>2. ASSUME NEW n \in Nat, n \in T
      PROVE  n + 1 \in T
  <2> SUFFICES ASSUME n + 1 <= m
               PROVE  Goes(n + 1)
    OBVIOUS
  <2>1. PICK a : Through(D, n, g, x, a)
    BY <1>2
  <2>2. n \in 0 .. n /\ n + 1 \in 1 .. m
    OBVIOUS
  <2> DEFINE b == [k \in 0 .. (n + 1) |-> IF k = n + 1 THEN g[n + 1][a[n]] ELSE a[k]]
  <2>3. /\ \A k \in 0 .. n : b[k] = a[k]
        /\ b[n + 1] = g[n + 1][a[n]]
    OBVIOUS
  <2>4. b \in [0 .. (n + 1) -> D]
    <3>1. \A k \in 0 .. (n + 1) : k = n + 1 \/ k \in 0 .. n
      OBVIOUS
    <3>2. g[n + 1][a[n]] \in D
      BY <2>1, <2>2 DEF StepsOf, Through
    <3> QED
      BY <2>1, <3>1, <3>2 DEF Through
  <2> HIDE DEF b
  <2>5. ASSUME NEW k \in 1 .. (n + 1)
        PROVE  b[k] = g[k][b[k - 1]]
    <3>1. CASE k = n + 1
      <4>1. k - 1 = n
        BY <3>1
      <4> QED
        BY <2>2, <2>3, <3>1, <4>1
    <3>2. CASE k # n + 1
      <4>1. k \in 1 .. n /\ k \in 0 .. n /\ k - 1 \in 0 .. n
        BY <3>2
      <4> QED
        BY <2>1, <2>3, <4>1 DEF Through
    <3> QED
      BY <3>1, <3>2
  <2>6. b[0] = x
    BY <2>1, <2>3 DEF Through
  <2>7. Through(D, n + 1, g, x, b)
    BY <2>4, <2>5, <2>6 DEF Through
  <2> QED
    BY <2>7
<1> HIDE DEF Goes
<1>3. 0 \in T
  BY <1>1
<1> HIDE DEF T
<1>4. Nat \subseteq T
  BY <1>2, <1>3, NatSetInduction
<1>5. Goes(m)
  BY <1>4 DEF T
<1> QED
  BY <1>5 DEF Goes

-----------------------------------------------------------------------------
(* Concatenation.                                                          *)

\* The sequence v of elements of S is s and then t.
Joined(S, s, t, v) ==
  /\ s \in Seq(S) /\ t \in Seq(S) /\ v \in Seq(S)
  /\ Len(v) = Len(s) + Len(t)
  /\ \A i \in 1 .. Len(s) : v[i] = s[i]
  /\ \A i \in 1 .. Len(t) : v[Len(s) + i] = t[i]

LEMMA ConcatIs ==
  ASSUME NEW S, NEW s, NEW t, NEW v, Joined(S, s, t, v)
  PROVE  s \o t = v
<1>0. s \in Seq(S) /\ t \in Seq(S) /\ v \in Seq(S)
  BY DEF Joined
<1>1. Len(s) \in Nat /\ Len(t) \in Nat
  BY <1>0, LenProperties
<1>2. ASSUME NEW i \in 1 .. Len(v)
      PROVE  (s \o t)[i] = v[i]
  <2>1. i \in 1 .. Len(s) + Len(t) /\ (s \o t)[i] = IF i <= Len(s) THEN s[i] ELSE t[i - Len(s)]
    BY <1>0, ConcatProperties DEF Joined
  <2>2. i <= Len(s) => i \in 1 .. Len(s)
    BY <1>1
  <2>3. ~(i <= Len(s)) => i - Len(s) \in 1 .. Len(t) /\ Len(s) + (i - Len(s)) = i
    BY <1>1, <2>1
  <2> QED
    BY <2>1, <2>2, <2>3 DEF Joined
<1>3. s \o t \in Seq(S) /\ Len(s \o t) = Len(v)
  BY <1>0, ConcatProperties DEF Joined
<1> QED
  BY <1>0, <1>2, <1>3, SeqEqual

LEMMA Elements ==
  \A i : /\ i \in 1 .. 1 <=> i = 1
         /\ i \in 1 .. 2 <=> i = 1 \/ i = 2
         /\ i \in 1 .. 3 <=> i = 1 \/ i = 2 \/ i = 3
  OBVIOUS

LEMMA OneAndTwo ==
  ASSUME NEW x, NEW y, NEW z
  PROVE  <<x>> \o <<y, z>> = <<x, y, z>>
<1>1. Joined({x, y, z}, <<x>>, <<y, z>>, <<x, y, z>>)
  BY Elements DEF Joined
<1> QED
  BY <1>1, ConcatIs

LEMMA OneAndThree ==
  ASSUME NEW x, NEW y, NEW z, NEW u
  PROVE  <<x>> \o <<y, z, u>> = <<x, y, z, u>>
<1>1. Joined({x, y, z, u}, <<x>>, <<y, z, u>>, <<x, y, z, u>>)
  BY Elements DEF Joined
<1> QED
  BY <1>1, ConcatIs

LEMMA TwoAndOne ==
  ASSUME NEW x, NEW y, NEW z
  PROVE  <<x, y>> \o <<z>> = <<x, y, z>>
<1>1. Joined({x, y, z}, <<x, y>>, <<z>>, <<x, y, z>>)
  BY Elements DEF Joined
<1> QED
  BY <1>1, ConcatIs

LEMMA ThreeAndOne ==
  ASSUME NEW x, NEW y, NEW z, NEW u
  PROVE  <<x, y, z>> \o <<u>> = <<x, y, z, u>>
<1>1. Joined({x, y, z, u}, <<x, y, z>>, <<u>>, <<x, y, z, u>>)
  BY Elements DEF Joined
<1> QED
  BY <1>1, ConcatIs

-----------------------------------------------------------------------------
(* The cache file and one write.                                           *)

\* The header of a file with blocks has the file's length.
DiskHeader == {x \in HeaderType : x.nodeHeader # INVLOC => x.fileoff \in Nat}

BytesType == [Blocks -> Paths \cup {NoPath}]

SectionsType == [mb : MasterBlockType, hdr : [Headers -> DiskHeader], bpn : [Blocks -> NodeType]]

FileType == [mb : MasterBlockType, hdr : [Headers -> DiskHeader], bpn : [Blocks -> NodeType],
             bytes : BytesType]

\* What a write of a step says
GoodWrite(w) ==
  \/ w[1] \in {"mb", "hdr", "bpn"}
  \/ w[1] = "linkHdr" /\ w[3] \in HeaderOrNone
  \/ w[1] = "link" /\ w[3] \in BlockOrNone
  \/ w[1] = "data" /\ w[3] \in Paths

\* A write leaves a cache file.
LEMMA WriteType ==
  ASSUME NEW f \in FileType, NEW w, GoodWrite(w), NEW new \in SectionsType
  PROVE  Write_cache_off(f, w, new) \in FileType
<1> DEFINE g == Write_cache_off(f, w, new)
<1>1. /\ f.mb \in MasterBlockType /\ f.hdr \in [Headers -> DiskHeader]
      /\ f.bpn \in [Blocks -> NodeType] /\ f.bytes \in BytesType
      /\ new.mb \in MasterBlockType /\ new.hdr \in [Headers -> DiskHeader] /\ new.bpn \in [Blocks -> NodeType]
  BY DEF FileType, SectionsType
<1>2. CASE w[1] = "mb"
  <2>1. g = [f EXCEPT !.mb = new.mb]
    BY <1>2 DEF Write_cache_off
  <2> QED
    BY <1>1, <1>2, <2>1 DEF FileType
<1>3. CASE w[1] = "hdr"
  <2>1. g = [f EXCEPT !.hdr[w[2]] = new.hdr[w[2]]]
    BY <1>3 DEF Write_cache_off
  <2>2. [f.hdr EXCEPT ![w[2]] = new.hdr[w[2]]] \in [Headers -> DiskHeader]
    BY <1>1
  <2> QED
    BY <1>1, <1>3, <2>1, <2>2 DEF FileType
<1>4. CASE w[1] = "linkHdr"
  <2>1. g = [f EXCEPT !.hdr[w[2]].next = w[3]]
    BY <1>4 DEF Write_cache_off
  <2>2. w[3] \in HeaderOrNone
    BY <1>4 DEF GoodWrite
  <2>3. ASSUME NEW h \in Headers PROVE [f.hdr[h] EXCEPT !.next = w[3]] \in DiskHeader
    BY <1>1, <2>2 DEF DiskHeader, HeaderType
  <2>4. [f.hdr EXCEPT ![w[2]].next = w[3]] \in [Headers -> DiskHeader]
    BY <1>1, <2>3
  <2> QED
    BY <1>1, <1>4, <2>1, <2>4 DEF FileType
<1>5. CASE w[1] = "link"
  <2>1. g = [f EXCEPT !.bpn[w[2]].next = w[3]]
    BY <1>5 DEF Write_cache_off
  <2>2. w[3] \in BlockOrNone
    BY <1>5 DEF GoodWrite
  <2>3. ASSUME NEW b \in Blocks PROVE [f.bpn[b] EXCEPT !.next = w[3]] \in NodeType
    BY <1>1, <2>2 DEF NodeType
  <2>4. [f.bpn EXCEPT ![w[2]].next = w[3]] \in [Blocks -> NodeType]
    BY <1>1, <2>3
  <2> QED
    BY <1>1, <1>5, <2>1, <2>4 DEF FileType
<1>6. CASE w[1] = "data"
  <2>1. g = [f EXCEPT !.bytes[w[2]] = w[3]]
    BY <1>6 DEF Write_cache_off
  <2>2. w[3] \in Paths
    BY <1>6 DEF GoodWrite
  <2>3. [f.bytes EXCEPT ![w[2]] = w[3]] \in BytesType
    BY <1>1, <2>2 DEF BytesType
  <2> QED
    BY <1>1, <1>6, <2>1, <2>3 DEF FileType
<1>7. CASE w[1] = "bpn"
  <2> DEFINE same == f.bpn[w[2]].fhloc = new.bpn[w[2]].fhloc /\ f.bpn[w[2]].off = new.bpn[w[2]].off
  <2>1. g = [f EXCEPT !.bpn[w[2]] = new.bpn[w[2]], !.bytes[w[2]] = IF same THEN @ ELSE NoPath]
    BY <1>7 DEF Write_cache_off
  <2>2. [f.bpn EXCEPT ![w[2]] = new.bpn[w[2]]] \in [Blocks -> NodeType]
    BY <1>1
  <2>3. [f.bytes EXCEPT ![w[2]] = IF same THEN @ ELSE NoPath] \in BytesType
    BY <1>1 DEF BytesType
  <2> HIDE DEF same
  <2> QED
    BY <1>1, <1>7, <2>1, <2>2, <2>3 DEF FileType
<1> QED
  BY <1>2, <1>3, <1>4, <1>5, <1>6, <1>7 DEF GoodWrite

\* What each of the six kinds changes
LEMMA WriteMb ==
  ASSUME NEW f \in FileType, NEW new \in SectionsType
  PROVE  LET g == Write_cache_off(f, <<"mb">>, new) IN
         g.mb = new.mb /\ g.hdr = f.hdr /\ g.bpn = f.bpn /\ g.bytes = f.bytes
  BY DEF Write_cache_off, FileType

LEMMA WriteHdr ==
  ASSUME NEW f \in FileType, NEW new \in SectionsType, NEW h
  PROVE  LET g == Write_cache_off(f, <<"hdr", h>>, new) IN
         /\ g.mb = f.mb /\ g.bpn = f.bpn /\ g.bytes = f.bytes
         /\ g.hdr = [f.hdr EXCEPT ![h] = new.hdr[h]]
  BY DEF Write_cache_off, FileType

LEMMA WriteLinkHdr ==
  ASSUME NEW f \in FileType, NEW new \in SectionsType, NEW h, NEW n \in HeaderOrNone
  PROVE  LET g == Write_cache_off(f, <<"linkHdr", h, n>>, new) IN
         /\ g.mb = f.mb /\ g.bpn = f.bpn /\ g.bytes = f.bytes
         /\ g.hdr = [f.hdr EXCEPT ![h].next = n]
  BY DEF Write_cache_off, FileType

LEMMA WriteLink ==
  ASSUME NEW f \in FileType, NEW new \in SectionsType, NEW b, NEW n \in BlockOrNone
  PROVE  LET g == Write_cache_off(f, <<"link", b, n>>, new) IN
         /\ g.mb = f.mb /\ g.hdr = f.hdr /\ g.bytes = f.bytes
         /\ g.bpn = [f.bpn EXCEPT ![b].next = n]
  BY DEF Write_cache_off, FileType

LEMMA WriteData ==
  ASSUME NEW f \in FileType, NEW new \in SectionsType, NEW b, NEW p
  PROVE  LET g == Write_cache_off(f, <<"data", b, p>>, new) IN
         g.mb = f.mb /\ g.hdr = f.hdr /\ g.bpn = f.bpn
  BY DEF Write_cache_off, FileType

LEMMA WriteDataBytes ==
  ASSUME NEW f \in FileType, NEW new \in SectionsType, NEW b, NEW p
  PROVE  Write_cache_off(f, <<"data", b, p>>, new).bytes = [f.bytes EXCEPT ![b] = p]
  BY DEF Write_cache_off, FileType

LEMMA WriteBpn ==
  ASSUME NEW f \in FileType, NEW new \in SectionsType, NEW b
  PROVE  LET g == Write_cache_off(f, <<"bpn", b>>, new) IN
         /\ g.mb = f.mb /\ g.hdr = f.hdr
         /\ g.bpn = [f.bpn EXCEPT ![b] = new.bpn[b]]
  BY DEF Write_cache_off, FileType

LEMMA WriteBpnBytes ==
  ASSUME NEW f \in FileType, NEW new \in SectionsType, NEW b
  PROVE  Write_cache_off(f, <<"bpn", b>>, new).bytes =
           [f.bytes EXCEPT ![b] = IF /\ f.bpn[b].fhloc = new.bpn[b].fhloc
                                     /\ f.bpn[b].off = new.bpn[b].off
                                  THEN @ ELSE NoPath]
  BY DEF Write_cache_off, FileType

LEMMA GoodWrites ==
  /\ GoodWrite(<<"mb">>)
  /\ \A x : GoodWrite(<<"hdr", x>>) /\ GoodWrite(<<"bpn", x>>)
  /\ \A x : \A h \in HeaderOrNone : GoodWrite(<<"linkHdr", x, h>>)
  /\ \A x : \A b \in BlockOrNone : GoodWrite(<<"link", x, b>>)
  /\ \A x : \A p \in Paths : GoodWrite(<<"data", x, p>>)
  BY DEF GoodWrite

\* The files between the writes of a step
LEMMA FilesAfterParts ==
  ASSUME NEW f \in FileType, NEW writes, Len(writes) \in Nat,
         \A k \in 1 .. Len(writes) : GoodWrite(writes[k]), NEW new \in SectionsType
  PROVE  LET after == FilesAfter(f, writes, new) IN
         /\ after[0] = f
         /\ \A k \in 1 .. Len(writes) : after[k] = Write_cache_off(after[k - 1], writes[k], new)
         /\ \A k \in 0 .. Len(writes) : after[k] \in FileType
<1> DEFINE n == Len(writes)
           Rec(a) == a = [k \in 0 .. n |-> IF k = 0 THEN f ELSE Write_cache_off(a[k - 1], writes[k], new)]
           after == CHOOSE a : Rec(a)
           g == [k \in 1 .. n |-> [x \in FileType |-> Write_cache_off(x, writes[k], new)]]
<1>1. n \in Nat
  OBVIOUS
<1>2. \A k \in 1 .. n : \A x \in FileType : Write_cache_off(x, writes[k], new) \in FileType
  BY WriteType
<1>3. \A k \in 1 .. n : \A x \in FileType : g[k][x] = Write_cache_off(x, writes[k], new)
  OBVIOUS
<1>4. FilesAfter(f, writes, new) = after
  BY Zenon DEF FilesAfter
<1> HIDE DEF n, g
<1>5. PICK b : Through(FileType, n, g, f, b)
  <2>1. StepsOf(FileType, n, g)
    BY <1>2, <1>3 DEF StepsOf
  <2> QED
    BY <1>1, <2>1, RecursionExists
<1>6. Rec(b)
  <2>1. ASSUME NEW k \in 0 .. n
        PROVE  b[k] = IF k = 0 THEN f ELSE Write_cache_off(b[k - 1], writes[k], new)
    <3>1. CASE k = 0
      BY <1>5, <3>1 DEF Through
    <3>2. CASE k # 0
      <4>1. k \in 1 .. n /\ k - 1 \in 0 .. n
        BY <1>1, <3>2
      <4>2. b[k - 1] \in FileType
        BY <1>5, <4>1 DEF Through
      <4> QED
        BY <1>3, <1>5, <3>2, <4>1, <4>2 DEF Through
    <3> QED
      BY <3>1, <3>2
  <2>2. b = [k \in 0 .. n |-> b[k]]
    BY <1>5 DEF Through
  <2> QED
    BY <2>1, <2>2
<1>7. Rec(after)
  <2> HIDE DEF Rec
  <2> QED
    BY <1>6
<1> HIDE DEF after
<1>8. after[0] = f
  BY <1>1, <1>7
<1>9. \A k \in 1 .. n : after[k] = Write_cache_off(after[k - 1], writes[k], new)
  <2> TAKE k \in 1 .. n
  <2>1. k \in 0 .. n /\ k # 0
    BY <1>1
  <2> QED
    BY <1>7, <2>1
<1>10. \A k \in 0 .. n : after[k] \in FileType
  BY <1>1, <1>2, <1>8, <1>9, StaysIn
<1> QED
  BY <1>4, <1>8, <1>9, <1>10 DEF n

-----------------------------------------------------------------------------
(* The writes of a step, all of them, leave the file as the step leaves    *)
(* the sections.                                                           *)

SameSections(f, s) == f.mb = s.mb /\ f.hdr = s.hdr /\ f.bpn = s.bpn

Complete(writes) ==
  /\ Len(writes) \in Nat
  /\ \A k \in 1 .. Len(writes) : GoodWrite(writes[k])
  /\ \A f \in FileType :
       SameSections(f, Sections) =>
         SameSections(FilesAfter(f, writes, Sections')[Len(writes)], Sections')

LEMMA SectionsParts ==
  /\ Sections.mb = mb /\ Sections.hdr = hdr /\ Sections.bpn = bpn
  /\ Sections'.mb = mb' /\ Sections'.hdr = hdr' /\ Sections'.bpn = bpn'
  BY DEF Sections

LEMMA NoWrites ==
  ASSUME Sections' \in SectionsType, UNCHANGED disk
  PROVE  Complete(<<>>)
<1>1. Len(<<>>) = 0 /\ 1 .. 0 = {}
  OBVIOUS
<1>2. \A f \in FileType : FilesAfter(f, <<>>, Sections')[0] = f
  BY <1>1, FilesAfterParts
<1> QED
  BY <1>1, <1>2, SectionsParts DEF Complete, SameSections, disk

LEMMA OneWrite ==
  ASSUME Sections' \in SectionsType, NEW w, GoodWrite(w),
         \A f \in FileType :
           SameSections(f, Sections) => SameSections(Write_cache_off(f, w, Sections'), Sections')
  PROVE  Complete(<<w>>)
<1> DEFINE writes == <<w>>
<1>1. Len(writes) = 1 /\ writes[1] = w /\ \A k \in 1 .. 1 : k = 1
  OBVIOUS
<1> HIDE DEF writes
<1>2. ASSUME NEW f \in FileType
      PROVE  FilesAfter(f, writes, Sections')[1] = Write_cache_off(f, w, Sections')
  <2> DEFINE a == FilesAfter(f, writes, Sections')
  <2>1. a[0] = f /\ \A k \in 1 .. 1 : a[k] = Write_cache_off(a[k - 1], writes[k], Sections')
    BY <1>1, FilesAfterParts
  <2> HIDE DEF a
  <2>2. a[1] = Write_cache_off(f, w, Sections')
    BY <1>1, <2>1
  <2> QED
    BY <2>2 DEF a
<1>3. Complete(writes)
  BY <1>1, <1>2 DEF Complete
<1> QED
  BY <1>3 DEF writes

LEMMA TwoWrites ==
  ASSUME Sections' \in SectionsType, NEW w, NEW x, GoodWrite(w), GoodWrite(x),
         \A f, g \in FileType :
           SameSections(f, Sections) /\ g = Write_cache_off(f, w, Sections')
             => SameSections(Write_cache_off(g, x, Sections'), Sections')
  PROVE  Complete(<<w, x>>)
<1> DEFINE writes == <<w, x>>
<1>1. Len(writes) = 2 /\ writes[1] = w /\ writes[2] = x /\ \A k \in 1 .. 2 : k = 1 \/ k = 2
  OBVIOUS
<1> HIDE DEF writes
<1>2. ASSUME NEW f \in FileType
      PROVE  \E g \in FileType :
               /\ g = Write_cache_off(f, w, Sections')
               /\ FilesAfter(f, writes, Sections')[2] = Write_cache_off(g, x, Sections')
  <2> DEFINE a == FilesAfter(f, writes, Sections')
  <2>1. /\ a[0] = f /\ \A k \in 1 .. 2 : a[k] = Write_cache_off(a[k - 1], writes[k], Sections')
        /\ \A k \in 0 .. 2 : a[k] \in FileType
    BY <1>1, FilesAfterParts
  <2> HIDE DEF a
  <2>2. a[1] \in FileType /\ a[1] = Write_cache_off(f, w, Sections') /\ a[2] = Write_cache_off(a[1], x, Sections')
    BY <1>1, <2>1
  <2> QED
    BY <2>2 DEF a
<1>3. Complete(writes)
  BY <1>1, <1>2 DEF Complete
<1> QED
  BY <1>3 DEF writes

LEMMA ThreeWrites ==
  ASSUME Sections' \in SectionsType, NEW w, NEW x, NEW y, GoodWrite(w), GoodWrite(x), GoodWrite(y),
         \A f, g, h \in FileType :
           /\ SameSections(f, Sections)
           /\ g = Write_cache_off(f, w, Sections')
           /\ h = Write_cache_off(g, x, Sections')
           => SameSections(Write_cache_off(h, y, Sections'), Sections')
  PROVE  Complete(<<w, x, y>>)
<1> DEFINE writes == <<w, x, y>>
<1>1. /\ Len(writes) = 3 /\ writes[1] = w /\ writes[2] = x /\ writes[3] = y
      /\ \A k \in 1 .. 3 : k = 1 \/ k = 2 \/ k = 3
  OBVIOUS
<1> HIDE DEF writes
<1>2. ASSUME NEW f \in FileType
      PROVE  \E g, h \in FileType :
               /\ g = Write_cache_off(f, w, Sections')
               /\ h = Write_cache_off(g, x, Sections')
               /\ FilesAfter(f, writes, Sections')[3] = Write_cache_off(h, y, Sections')
  <2> DEFINE a == FilesAfter(f, writes, Sections')
  <2>1. /\ a[0] = f /\ \A k \in 1 .. 3 : a[k] = Write_cache_off(a[k - 1], writes[k], Sections')
        /\ \A k \in 0 .. 3 : a[k] \in FileType
    <3>1. Len(writes) \in Nat /\ \A k \in 1 .. Len(writes) : GoodWrite(writes[k])
      BY <1>1
    <3>2. /\ a[0] = f /\ \A k \in 1 .. Len(writes) : a[k] = Write_cache_off(a[k - 1], writes[k], Sections')
          /\ \A k \in 0 .. Len(writes) : a[k] \in FileType
      BY <3>1, FilesAfterParts
    <3> QED
      BY <1>1, <3>2
  <2> HIDE DEF a
  <2>2. /\ a[1] \in FileType /\ a[1] = Write_cache_off(f, w, Sections')
        /\ a[2] \in FileType /\ a[2] = Write_cache_off(a[1], x, Sections')
        /\ a[3] = Write_cache_off(a[2], y, Sections')
    BY <1>1, <2>1
  <2> QED
    BY <2>2 DEF a
<1>3. Complete(writes)
  BY <1>1, <1>2 DEF Complete
<1> QED
  BY <1>3 DEF writes

LEMMA FourWrites ==
  ASSUME Sections' \in SectionsType, NEW w, NEW x, NEW y, NEW z,
         GoodWrite(w), GoodWrite(x), GoodWrite(y), GoodWrite(z),
         \A f, g, h, i \in FileType :
           /\ SameSections(f, Sections)
           /\ g = Write_cache_off(f, w, Sections')
           /\ h = Write_cache_off(g, x, Sections')
           /\ i = Write_cache_off(h, y, Sections')
           => SameSections(Write_cache_off(i, z, Sections'), Sections')
  PROVE  Complete(<<w, x, y, z>>)
<1> DEFINE writes == <<w, x, y, z>>
<1>1. /\ Len(writes) = 4 /\ writes[1] = w /\ writes[2] = x /\ writes[3] = y /\ writes[4] = z
      /\ \A k \in 1 .. 4 : k = 1 \/ k = 2 \/ k = 3 \/ k = 4
  OBVIOUS
<1> HIDE DEF writes
<1>2. ASSUME NEW f \in FileType
      PROVE  \E g, h, i \in FileType :
               /\ g = Write_cache_off(f, w, Sections')
               /\ h = Write_cache_off(g, x, Sections')
               /\ i = Write_cache_off(h, y, Sections')
               /\ FilesAfter(f, writes, Sections')[4] = Write_cache_off(i, z, Sections')
  <2> DEFINE a == FilesAfter(f, writes, Sections')
  <2>1. /\ a[0] = f /\ \A k \in 1 .. 4 : a[k] = Write_cache_off(a[k - 1], writes[k], Sections')
        /\ \A k \in 0 .. 4 : a[k] \in FileType
    <3>1. Len(writes) \in Nat /\ \A k \in 1 .. Len(writes) : GoodWrite(writes[k])
      BY <1>1
    <3>2. /\ a[0] = f /\ \A k \in 1 .. Len(writes) : a[k] = Write_cache_off(a[k - 1], writes[k], Sections')
          /\ \A k \in 0 .. Len(writes) : a[k] \in FileType
      BY <3>1, FilesAfterParts
    <3> QED
      BY <1>1, <3>2
  <2> HIDE DEF a
  <2>2. /\ a[1] \in FileType /\ a[1] = Write_cache_off(f, w, Sections')
        /\ a[2] \in FileType /\ a[2] = Write_cache_off(a[1], x, Sections')
        /\ a[3] \in FileType /\ a[3] = Write_cache_off(a[2], y, Sections')
        /\ a[4] = Write_cache_off(a[3], z, Sections')
    BY <1>1, <2>1
  <2> QED
    BY <2>2 DEF a
<1>3. Complete(writes)
  BY <1>1, <1>2 DEF Complete
<1> QED
  BY <1>3 DEF writes

\* Return_file_header
LEMMA HeaderReturnedWrites ==
  ASSUME TypeOK, Sections' \in SectionsType, NEW h \in Headers, NEW p, Return_file_header(h, p), bpn' = bpn
  PROVE  Complete(Return_file_headerWrites(h))
<1> USE SectionsParts DEF SameSections
<1>1. CASE mb.hfl = INVLOC
  <2>1. hdr' = [hdr EXCEPT ![h] = hdr'[h]]
    BY <1>1, TypeParts DEF Return_file_header
  <2>2. Return_file_headerWrites(h) = <<<<"hdr", h>>, <<"mb">>>>
    BY <1>1 DEF Return_file_headerWrites
  <2>3. ASSUME NEW f \in FileType, NEW g \in FileType,
               SameSections(f, Sections), g = Write_cache_off(f, <<"hdr", h>>, Sections')
        PROVE  SameSections(Write_cache_off(g, <<"mb">>, Sections'), Sections')
    <3>1. g.bpn = bpn /\ g.hdr = hdr'
      BY <2>1, <2>3, WriteHdr
    <3> QED
      BY <3>1, WriteMb
  <2> QED
    BY <2>2, <2>3, GoodWrites, TwoWrites
<1>2. CASE mb.hfl # INVLOC
  <2>1. hdr' = [[hdr EXCEPT ![mb.hft].next = h] EXCEPT ![h] = hdr'[h]]
    BY <1>2, TypeParts DEF Return_file_header
  <2>2. Return_file_headerWrites(h) = <<<<"linkHdr", mb.hft, h>>, <<"hdr", h>>, <<"mb">>>>
    <3>1. <<<<"linkHdr", mb.hft, h>>>> \o <<<<"hdr", h>>, <<"mb">>>>
            = <<<<"linkHdr", mb.hft, h>>, <<"hdr", h>>, <<"mb">>>>
      BY OneAndTwo
    <3> QED
      BY <1>2, <3>1 DEF Return_file_headerWrites
  <2>3. ASSUME NEW f \in FileType, NEW g \in FileType, NEW i \in FileType, SameSections(f, Sections),
               g = Write_cache_off(f, <<"linkHdr", mb.hft, h>>, Sections'),
               i = Write_cache_off(g, <<"hdr", h>>, Sections')
        PROVE  SameSections(Write_cache_off(i, <<"mb">>, Sections'), Sections')
    <3>1. g.bpn = bpn /\ g.hdr = [hdr EXCEPT ![mb.hft].next = h]
      BY <2>3, WriteLinkHdr DEF HeaderOrNone
    <3>2. i.bpn = g.bpn /\ i.hdr = [g.hdr EXCEPT ![h] = hdr'[h]]
      BY <2>3, WriteHdr
    <3>3. i.bpn = bpn' /\ i.hdr = hdr'
      BY <2>1, <3>1, <3>2
    <3> QED
      BY <3>3, WriteMb
  <2>4. h \in HeaderOrNone
    BY DEF HeaderOrNone
  <2> QED
    BY <2>2, <2>3, <2>4, GoodWrites, ThreeWrites
<1> QED
  BY <1>1, <1>2

\* Return_file_block, of a block that no file has and after the write of another
\* node (RSC_m.c:851).
LEMMA BlockReturnedWrites ==
  ASSUME TypeOK, Sections' \in SectionsType, NEW b \in Blocks, Return_file_block(b), hdr' = hdr
  PROVE  Complete(Return_file_blockWrites(b))
<1> USE SectionsParts DEF SameSections
<1>1. CASE mb.bfl = INVLOC
  <2>1. bpn' = [bpn EXCEPT ![b] = bpn'[b]]
    BY <1>1, TypeParts DEF Return_file_block, NodesWithFree
  <2>2. Return_file_blockWrites(b) = <<<<"bpn", b>>, <<"mb">>>>
    BY <1>1 DEF Return_file_blockWrites
  <2>3. ASSUME NEW f \in FileType, NEW g \in FileType,
               SameSections(f, Sections), g = Write_cache_off(f, <<"bpn", b>>, Sections')
        PROVE  SameSections(Write_cache_off(g, <<"mb">>, Sections'), Sections')
    <3>1. g.hdr = hdr' /\ g.bpn = bpn'
      BY <2>1, <2>3, WriteBpn
    <3> QED
      BY <3>1, WriteMb
  <2> QED
    BY <2>2, <2>3, GoodWrites, TwoWrites
<1>2. CASE mb.bfl # INVLOC
  <2>1. bpn' = [[bpn EXCEPT ![mb.bft].next = b] EXCEPT ![b] = bpn'[b]]
    BY <1>2, TypeParts DEF Return_file_block, NodesWithFree
  <2>2. Return_file_blockWrites(b) = <<<<"link", mb.bft, b>>, <<"bpn", b>>, <<"mb">>>>
    <3>1. <<<<"link", mb.bft, b>>>> \o <<<<"bpn", b>>, <<"mb">>>>
            = <<<<"link", mb.bft, b>>, <<"bpn", b>>, <<"mb">>>>
      BY OneAndTwo
    <3> QED
      BY <1>2, <3>1 DEF Return_file_blockWrites
  <2>3. ASSUME NEW f \in FileType, NEW g \in FileType, NEW i \in FileType, SameSections(f, Sections),
               g = Write_cache_off(f, <<"link", mb.bft, b>>, Sections'),
               i = Write_cache_off(g, <<"bpn", b>>, Sections')
        PROVE  SameSections(Write_cache_off(i, <<"mb">>, Sections'), Sections')
    <3>1. g.hdr = hdr' /\ g.bpn = [bpn EXCEPT ![mb.bft].next = b]
      BY <2>3, WriteLink DEF BlockOrNone
    <3>2. i.hdr = g.hdr /\ i.bpn = [g.bpn EXCEPT ![b] = bpn'[b]]
      BY <2>3, WriteBpn
    <3>3. i.hdr = hdr' /\ i.bpn = bpn'
      BY <2>1, <3>1, <3>2
    <3> QED
      BY <3>3, WriteMb
  <2>4. b \in BlockOrNone
    BY DEF BlockOrNone
  <2> QED
    BY <2>2, <2>3, <2>4, GoodWrites, ThreeWrites
<1> QED
  BY <1>1, <1>2

\* A turn of the loop of Truncate_file_block_table
LEMMA BlockCutWrites ==
  ASSUME TypeOK, Sections' \in SectionsType, NEW f \in CachedFile, NEW i \in DOMAIN f.chain,
         mb' = MbWithBlock(mb, f.chain[i].loc), hdr' = hdr,
         bpn' = NodesWithFree(mb, NodesWithoutLast(f, i), f.chain[i].loc)
  PROVE  Complete(TruncateWrites(f, i))
<1> DEFINE b == f.chain[i].loc
           q == f.chain[i - 1].loc
<1>0. i \in 1 .. Len(f.chain) /\ Len(f.chain) \in Nat /\ b \in Blocks
  BY ChainType
<1>1. CASE ~(i = Len(f.chain) /\ i # 1)
  <2>1. TruncateWrites(f, i) = <<>> \o Return_file_blockWrites(b)
    BY <1>1 DEF TruncateWrites
  <2>2. <<>> \o Return_file_blockWrites(b) = Return_file_blockWrites(b)
    BY DEF Return_file_blockWrites
  <2>3. Return_file_block(b)
    BY <1>1 DEF Return_file_block, NodesWithoutLast
  <2> QED
    BY <1>0, <2>1, <2>2, <2>3, BlockReturnedWrites
<1>2. CASE i = Len(f.chain) /\ i # 1
  <2> USE SectionsParts DEF SameSections
  <2>1. q \in Blocks
    <3>1. \A n \in Nat : i \in 1 .. n /\ i # 1 => i - 1 \in 1 .. n
      OBVIOUS
    <3> QED
      BY <1>0, <1>2, <3>1, ChainType
  <2> DEFINE nodes == [bpn EXCEPT ![q].next = INVLOC]
  <2>2. NodesWithoutLast(f, i) = nodes
    BY <1>2 DEF NodesWithoutLast
  <2>3. nodes \in [Blocks -> NodeType]
    BY TypeParts DEF NodeType, BlockOrNone
  <2> HIDE DEF nodes
  <2>4. CASE mb.bfl = INVLOC
    <3>1. TruncateWrites(f, i) = <<<<"bpn", q>>, <<"bpn", b>>, <<"mb">>>>
      <4>1. Return_file_blockWrites(b) = <<<<"bpn", b>>, <<"mb">>>>
        BY <2>4 DEF Return_file_blockWrites
      <4>2. <<<<"bpn", q>>>> \o <<<<"bpn", b>>, <<"mb">>>> = <<<<"bpn", q>>, <<"bpn", b>>, <<"mb">>>>
        BY OneAndTwo
      <4> QED
        BY <1>2, <4>1, <4>2 DEF TruncateWrites
    <3>2. bpn' = [[bpn EXCEPT ![q] = bpn'[q]] EXCEPT ![b] = bpn'[b]]
      BY <2>1, <2>2, <2>4, TypeParts DEF NodesWithFree, nodes
    <3>3. ASSUME NEW g \in FileType, NEW h \in FileType, NEW j \in FileType, SameSections(g, Sections),
                 h = Write_cache_off(g, <<"bpn", q>>, Sections'),
                 j = Write_cache_off(h, <<"bpn", b>>, Sections')
          PROVE  SameSections(Write_cache_off(j, <<"mb">>, Sections'), Sections')
      <4>1. h.hdr = hdr' /\ h.bpn = [bpn EXCEPT ![q] = bpn'[q]]
        BY <3>3, WriteBpn
      <4>2. j.hdr = h.hdr /\ j.bpn = [h.bpn EXCEPT ![b] = bpn'[b]]
        BY <3>3, WriteBpn
      <4>3. j.hdr = hdr' /\ j.bpn = bpn'
        BY <3>2, <4>1, <4>2
      <4> QED
        BY <4>3, WriteMb
    <3> QED
      BY <3>1, <3>3, GoodWrites, ThreeWrites
  <2>5. CASE mb.bfl # INVLOC
    <3>1. TruncateWrites(f, i) = <<<<"bpn", q>>, <<"link", mb.bft, b>>, <<"bpn", b>>, <<"mb">>>>
      <4>1. <<<<"link", mb.bft, b>>>> \o <<<<"bpn", b>>, <<"mb">>>>
              = <<<<"link", mb.bft, b>>, <<"bpn", b>>, <<"mb">>>>
        BY OneAndTwo
      <4>2. Return_file_blockWrites(b) = <<<<"link", mb.bft, b>>, <<"bpn", b>>, <<"mb">>>>
        BY <2>5, <4>1 DEF Return_file_blockWrites
      <4>3. <<<<"bpn", q>>>> \o <<<<"link", mb.bft, b>>, <<"bpn", b>>, <<"mb">>>>
              = <<<<"bpn", q>>, <<"link", mb.bft, b>>, <<"bpn", b>>, <<"mb">>>>
        BY OneAndThree
      <4> QED
        BY <1>2, <4>2, <4>3 DEF TruncateWrites
    <3>2. bpn' = [[[bpn EXCEPT ![q] = bpn'[q]] EXCEPT ![mb.bft].next = b] EXCEPT ![b] = bpn'[b]]
      <4>1. bpn' = [[nodes EXCEPT ![mb.bft].next = b] EXCEPT ![b] = bpn'[b]]
        BY <2>2, <2>3, <2>5 DEF NodesWithFree
      <4>2. bpn \in [Blocks -> NodeType] /\ bpn' \in [Blocks -> NodeType]
        BY SectionsParts, TypeParts DEF SectionsType
      <4> DEFINE other == [[bpn EXCEPT ![q] = bpn'[q]] EXCEPT ![mb.bft].next = b]
      <4>3. ASSUME NEW x \in Blocks, x # b
            PROVE  bpn'[x] = other[x]
        <5>1. bpn'[x] = IF x = mb.bft THEN [nodes[x] EXCEPT !.next = b] ELSE nodes[x]
          BY <2>3, <4>1, <4>3
        <5>2. CASE x # q
          <6>1. nodes[x] = bpn[x]
            BY <4>2, <5>2 DEF nodes
          <6> QED
            BY <4>2, <5>1, <5>2, <6>1
        <5>3. CASE x = q
          <6>1. other[x] = IF x = mb.bft THEN [bpn'[x] EXCEPT !.next = b] ELSE bpn'[x]
            BY <4>2, <5>3
          <6>2. x = mb.bft => bpn'[x].next = b
            BY <2>3, <5>1 DEF NodeType
          <6>3. \A r \in NodeType : [r EXCEPT !.next = r.next] = r
            BY DEF NodeType
          <6> QED
            BY <4>2, <6>1, <6>2, <6>3
        <5> QED
          BY <5>2, <5>3
      <4>4. other \in [Blocks -> NodeType]
        <5>1. \A r \in NodeType : [r EXCEPT !.next = b] \in NodeType
          BY <1>0 DEF NodeType, BlockOrNone
        <5>2. [bpn EXCEPT ![q] = bpn'[q]] \in [Blocks -> NodeType]
          BY <2>1, <4>2
        <5> QED
          BY <5>1, <5>2
      <4> HIDE DEF other
      <4>5. bpn' = [other EXCEPT ![b] = bpn'[b]]
        BY <1>0, <4>2, <4>3, <4>4
      <4> QED
        BY <4>5 DEF other
    <3>4. b \in BlockOrNone
      BY <1>0 DEF BlockOrNone
    <3>3. ASSUME NEW g \in FileType, NEW h \in FileType, NEW j \in FileType, NEW k \in FileType,
                 SameSections(g, Sections),
                 h = Write_cache_off(g, <<"bpn", q>>, Sections'),
                 j = Write_cache_off(h, <<"link", mb.bft, b>>, Sections'),
                 k = Write_cache_off(j, <<"bpn", b>>, Sections')
          PROVE  SameSections(Write_cache_off(k, <<"mb">>, Sections'), Sections')
      <4>1. h.hdr = hdr' /\ h.bpn = [bpn EXCEPT ![q] = bpn'[q]]
        BY <3>3, WriteBpn
      <4>2. j.hdr = h.hdr /\ j.bpn = [h.bpn EXCEPT ![mb.bft].next = b]
        BY <3>3, <3>4, WriteLink
      <4>3. k.hdr = j.hdr /\ k.bpn = [j.bpn EXCEPT ![b] = bpn'[b]]
        BY <3>3, WriteBpn
      <4>4. k.hdr = hdr' /\ k.bpn = bpn'
        BY <3>2, <4>1, <4>2, <4>3
      <4> QED
        BY <4>4, WriteMb
    <3>5. GoodWrite(<<"bpn", q>>) /\ GoodWrite(<<"link", mb.bft, b>>) /\ GoodWrite(<<"bpn", b>>) /\ GoodWrite(<<"mb">>)
      BY <3>4, GoodWrites
    <3>6. Complete(<<<<"bpn", q>>, <<"link", mb.bft, b>>, <<"bpn", b>>, <<"mb">>>>)
      BY <3>3, <3>5, FourWrites
    <3> QED
      BY <3>1, <3>6
  <2> QED
    BY <2>4, <2>5
<1> QED
  BY <1>1, <1>2

\* An insert changes the node of its block, that of the one before it when there
\* is one, and the header.
InsertChanges(b, q, prev, h) ==
  /\ mb' = mb
  /\ hdr' = [hdr EXCEPT ![h] = hdr'[h]]
  /\ IF prev = <<>>
     THEN bpn' = [bpn EXCEPT ![b] = bpn'[b]]
     ELSE /\ prev = <<<<"bpn", q>>>>
          /\ bpn' = [[bpn EXCEPT ![b] = bpn'[b]] EXCEPT ![q] = bpn'[q]]

\* A block, then its data, then the node before it when there is one, then the
\* header
LEMMA BlockInsertedWrites ==
  ASSUME TypeOK, Sections' \in SectionsType,
         NEW b \in Blocks, NEW p \in Paths, NEW h \in Headers, NEW q \in Blocks, NEW prev,
         InsertChanges(b, q, prev, h)
  PROVE  Complete(InsertWrites(b, p, prev, h))
<1> USE SectionsParts DEF SameSections
<1>1. CASE prev = <<>>
  <2>1. InsertWrites(b, p, prev, h) = <<<<"bpn", b>>, <<"data", b, p>>, <<"hdr", h>>>>
    <3>1. <<<<"bpn", b>>, <<"data", b, p>>>> \o <<<<"hdr", h>>>> = <<<<"bpn", b>>, <<"data", b, p>>, <<"hdr", h>>>>
      BY TwoAndOne
    <3>2. <<<<"bpn", b>>, <<"data", b, p>>>> \o <<>> = <<<<"bpn", b>>, <<"data", b, p>>>>
      OBVIOUS
    <3> QED
      BY <1>1, <3>1, <3>2 DEF InsertWrites
  <2>2. ASSUME NEW f \in FileType, NEW g \in FileType, NEW i \in FileType, SameSections(f, Sections),
               g = Write_cache_off(f, <<"bpn", b>>, Sections'),
               i = Write_cache_off(g, <<"data", b, p>>, Sections')
        PROVE  SameSections(Write_cache_off(i, <<"hdr", h>>, Sections'), Sections')
    <3>1. g.mb = mb' /\ g.hdr = hdr /\ g.bpn = bpn'
      BY <1>1, <2>2, WriteBpn DEF InsertChanges
    <3>2. i.mb = g.mb /\ i.hdr = g.hdr /\ i.bpn = g.bpn
      BY <2>2, WriteData
    <3> QED
      BY <3>1, <3>2, WriteHdr DEF InsertChanges
  <2>3. GoodWrite(<<"bpn", b>>) /\ GoodWrite(<<"data", b, p>>) /\ GoodWrite(<<"hdr", h>>)
    BY GoodWrites
  <2>4. Complete(<<<<"bpn", b>>, <<"data", b, p>>, <<"hdr", h>>>>)
    BY <2>2, <2>3, ThreeWrites
  <2> QED
    BY <2>1, <2>4
<1>2. CASE prev # <<>>
  <2>1. InsertWrites(b, p, prev, h) = <<<<"bpn", b>>, <<"data", b, p>>, <<"bpn", q>>, <<"hdr", h>>>>
    <3>1. /\ <<<<"bpn", b>>, <<"data", b, p>>, <<"bpn", q>>>> \o <<<<"hdr", h>>>>
               = <<<<"bpn", b>>, <<"data", b, p>>, <<"bpn", q>>, <<"hdr", h>>>>
      BY ThreeAndOne
    <3>2. <<<<"bpn", b>>, <<"data", b, p>>>> \o <<<<"bpn", q>>>> = <<<<"bpn", b>>, <<"data", b, p>>, <<"bpn", q>>>>
      BY TwoAndOne
    <3> QED
      BY <1>2, <3>1, <3>2 DEF InsertWrites, InsertChanges
  <2>2. ASSUME NEW f \in FileType, NEW g \in FileType, NEW i \in FileType, NEW j \in FileType,
               SameSections(f, Sections),
               g = Write_cache_off(f, <<"bpn", b>>, Sections'),
               i = Write_cache_off(g, <<"data", b, p>>, Sections'),
               j = Write_cache_off(i, <<"bpn", q>>, Sections')
        PROVE  SameSections(Write_cache_off(j, <<"hdr", h>>, Sections'), Sections')
    <3>1. g.mb = f.mb /\ g.hdr = f.hdr /\ g.bpn = [f.bpn EXCEPT ![b] = bpn'[b]]
      BY <2>2, WriteBpn
    <3>2. i.mb = g.mb /\ i.hdr = g.hdr /\ i.bpn = g.bpn
      BY <2>2, WriteData
    <3>3. j.mb = i.mb /\ j.hdr = i.hdr /\ j.bpn = [i.bpn EXCEPT ![q] = bpn'[q]]
      BY <2>2, WriteBpn
    <3>4. i.bpn = [bpn EXCEPT ![b] = bpn'[b]]
      BY <2>2, <3>1, <3>2
    <3>5. bpn' = [[bpn EXCEPT ![b] = bpn'[b]] EXCEPT ![q] = bpn'[q]]
      BY <1>2 DEF InsertChanges
    <3>6. j.bpn = bpn'
      BY ONLY <3>3, <3>4, <3>5, Zenon
    <3>7. j.mb = mb' /\ j.hdr = hdr /\ j.bpn = bpn'
      BY <2>2, <3>1, <3>2, <3>3, <3>6 DEF InsertChanges
    <3> QED
      BY <3>7, WriteHdr DEF InsertChanges
  <2>3. /\ GoodWrite(<<"bpn", b>>) /\ GoodWrite(<<"data", b, p>>)
        /\ GoodWrite(<<"bpn", q>>) /\ GoodWrite(<<"hdr", h>>)
    BY GoodWrites
  <2>4. Complete(<<<<"bpn", b>>, <<"data", b, p>>, <<"bpn", q>>, <<"hdr", h>>>>)
    BY <2>2, <2>3, FourWrites
  <2> QED
    BY <2>1, <2>4
<1> QED
  BY <1>1, <1>2

-----------------------------------------------------------------------------
(* A step of RSCTable with its writes.                                     *)

\* A header that names a block has the length of a file.
HasLength(x) == x.nodeHeader # INVLOC => x.fileoff \in Nat

HeaderLengths == \A h \in Headers : HasLength(hdr[h])

\* A header that a step writes is free, is a cached file's, or has another path
\* or next.
LEMMA HeaderLengthsStep ==
  ASSUME TypeOK, TypeOK', CallInv, StaleMatches, HeaderLengths, [Next]_vars
  PROVE  HeaderLengths'
<1> USE TypeParts
<1>1. ASSUME hdr' = hdr
      PROVE  HeaderLengths'
  BY <1>1 DEF HeaderLengths
<1>2. ASSUME NEW h \in Headers, NEW p, Return_file_header(h, p)
      PROVE  HeaderLengths'
  <2>1. HasLength(FreeHeader(p)) /\ HasLength(FreeHeader(NoPath))
    BY DEF HasLength, FreeHeader
  <2>2. \A i \in Headers : HasLength(hdr'[i])
    <3>1. CASE mb.hfl = INVLOC
      <4>1. \A i \in Headers : hdr'[i] = IF i = h THEN FreeHeader(p) ELSE hdr[i]
        BY <1>2, <3>1 DEF Return_file_header
      <4> QED
        BY <2>1, <4>1 DEF HeaderLengths
    <3>2. CASE mb.hfl # INVLOC
      <4>1. \A i \in Headers : hdr'[i] = IF i = h THEN FreeHeader(NoPath)
                                       ELSE IF i = mb.hft THEN [hdr[i] EXCEPT !.next = h]
                                       ELSE hdr[i]
        BY <1>2, <3>2 DEF Return_file_header
      <4>2. \A i \in Headers : HasLength([hdr[i] EXCEPT !.next = h])
        BY DEF HeaderLengths, HasLength, HeaderType
      <4> QED
        BY <2>1, <4>1, <4>2 DEF HeaderLengths
    <3> QED
      BY <3>1, <3>2
  <2> QED
    BY <2>2 DEF HeaderLengths, HasLength
<1>3. ASSUME NEW p, Alloc_file_header(p)
      PROVE  HeaderLengths'
  <2>1. \A i \in Headers : hdr'[i] = IF i = mb.hfl THEN [hdr[i] EXCEPT !.path = p] ELSE hdr[i]
    BY <1>3 DEF Alloc_file_header
  <2>2. \A i \in Headers : HasLength([hdr[i] EXCEPT !.path = p])
    BY DEF HeaderLengths, HasLength, HeaderType
  <2>3. \A i \in Headers : HasLength(hdr'[i])
    BY <2>1, <2>2 DEF HeaderLengths
  <2> QED
    BY <2>3 DEF HeaderLengths, HasLength
<1>4. ASSUME NEW h, NEW p, NEW f \in CachedFile, hdr' = [hdr EXCEPT ![h] = HeaderOf(p, f)]
      PROVE  HeaderLengths'
  <2>1. HasLength(HeaderOf(p, f))
    BY DEF HasLength, HeaderOf, CachedFile
  <2>2. \A i \in Headers : HasLength(hdr'[i])
    BY <1>4, <2>1 DEF HeaderLengths
  <2> QED
    BY <2>2 DEF HeaderLengths, HasLength
<1>5. \A p \in DOMAIN tab : tab[p] \in CachedFile /\ tab[p].loc \in Headers
  BY DEF CachedFile
<1>6. \A p \in DOMAIN tab' : tab'[p] \in CachedFile
  OBVIOUS
<1>7. ASSUME NEW p \in DOMAIN tab, RemoveFile(p)
      PROVE  HeaderLengths'
  BY <1>2, <1>5, <1>7 DEF RemoveFile
<1>8. CASE UNCHANGED vars
  BY <1>1, <1>8 DEF vars
<1>9. CASE Call
  <2>1. ASSUME NEW p \in Paths, NEW off \in BlockOffs, NEW len \in Lens, OverwriteBlock(p, off, off + len)
        PROVE  HeaderLengths'
    <3>1. p \in DOMAIN tab' /\ hdr' = [hdr EXCEPT ![tab[p].loc] = HeaderOf(p, tab'[p])]
      BY <2>1 DEF OverwriteBlock
    <3> QED
      BY <1>4, <1>6, <3>1
  <2> QED
    BY <1>1, <1>3, <1>7, <1>9, <2>1
    DEF Call, InsertNewFile, InsertBlock, Rm, Append_to_stale_list, Rm_file_from_stale_list,
        NodeNotListed, TruncateStart, disk
<1>10. CASE GiveUp
  BY <1>1, <1>2, <1>10 DEF GiveUp, RequestType, HeaderOrNone
<1>11. CASE Evict
  BY <1>7, <1>11, StaleHead DEF Evict
<1>12. CASE LinkNewFile
  <2> DEFINE f == [loc |-> req.hdr, nodeHeader |-> req.blk, nodeTail |-> req.blk,
                   fileoff |-> Grow(hdr[req.hdr].fileoff, req.end),
                   chain |-> <<[loc |-> req.blk, off |-> req.off]>>, sn |-> "null"]
  <2>1. tab' = [q \in DOMAIN tab \cup {req.path} |-> IF q = req.path THEN f ELSE tab[q]]
        /\ hdr' = [hdr EXCEPT ![req.hdr] = HeaderOf(req.path, f)]
    BY <1>12 DEF LinkNewFile
  <2> HIDE DEF f
  <2>2. f \in CachedFile
    BY <1>6, <2>1
  <2> QED
    BY <1>4, <2>1, <2>2
<1>13. CASE LinkBlock
  <2> DEFINE g == WithBlock(tab[req.path], req.blk, req.off, req.end)
  <2>1. /\ req.path \in DOMAIN tab
        /\ tab' = [tab EXCEPT ![req.path] = g]
        /\ hdr' = [hdr EXCEPT ![tab[req.path].loc] = HeaderOf(req.path, g)]
    BY <1>13 DEF LinkBlock
  <2> HIDE DEF g
  <2>2. g \in CachedFile
    BY <1>6, <2>1
  <2> QED
    BY <1>4, <2>1, <2>2
<1>14. CASE TruncateDone
  BY <1>4, <1>5, <1>14 DEF TruncateDone, CallInv
<1>15. CASE \/ AllocBlock \/ NoBlockAfterEviction \/ HeadNotListed \/ LinkAborts \/ LinkToEvicted
            \/ RmBlock \/ RmDone \/ TruncateBlock \/ AppendStep \/ Race
  BY <1>1, <1>15
  DEF AllocBlock, NoBlockAfterEviction, HeadNotListed, LinkAborts, LinkToEvicted, RmBlock, RmDone,
      TruncateBlock, AppendStep, AppendNode, Race, disk
<1> QED
  BY <1>8, <1>9, <1>10, <1>11, <1>12, <1>13, <1>14, <1>15 DEF Next, CallStep, CutStep

LEMMA NextSections ==
  ASSUME TypeOK, CallInv, StaleMatches, HeaderLengths, [Next]_vars
  PROVE  TypeOK' /\ CallInv' /\ StaleMatches' /\ HeaderLengths' /\ Sections' \in SectionsType
<1>1. TypeOK' /\ CallInv' /\ StaleMatches'
  BY TypeStep, CallInvStep, StaleMatchesStep
<1>2. HeaderLengths'
  BY <1>1, HeaderLengthsStep
<1>3. hdr' \in [Headers -> DiskHeader]
  BY <1>1, <1>2, TypeParts DEF HeaderLengths, HasLength, DiskHeader
<1>4. Sections' \in SectionsType
  BY <1>1, <1>3, TypeParts DEF Sections, SectionsType
<1> QED
  BY <1>1, <1>2, <1>4

\* The writes are those of the step.
Writing(writes) == Next /\ Step(writes) /\ Complete(writes)

LEMMA WritesKnown ==
  ASSUME TypeOK, CallInv, StaleMatches, HeaderLengths, CrashNext
  PROVE  (\E writes : Writing(writes)) \/ TailAsserts \/ Kill \/ Init_RSC_table_m
<1> USE TypeParts
<1>0. Next => Sections' \in SectionsType
  BY NextSections
<1>1. ASSUME Next, UNCHANGED disk, Step(<<>>)
      PROVE  Writing(<<>>)
  BY <1>0, <1>1, NoWrites DEF Writing
<1>2. ASSUME NEW h \in Headers, NEW p, Return_file_header(h, p), bpn' = bpn, Next,
             Step(Return_file_headerWrites(h))
      PROVE  \E writes : Writing(writes)
  BY <1>0, <1>2, HeaderReturnedWrites DEF Writing
<1>3. CBlkSize \in Lens
  BY RSCAssumption DEF Lens
<1>4. \A p \in DOMAIN tab : tab[p] \in CachedFile /\ tab[p].loc \in Headers /\ p \in Paths
  BY DEF CachedFile
<1>5. CASE Inserts
  <2> SUFFICES ASSUME NEW p \in Paths, NEW off \in BlockOffs,
                      \/ cut = NoCut /\ InsertNewFile(p, off, CBlkSize) /\ Step(Alloc_file_headerWrites)
                      \/ /\ cut = NoCut
                         /\ \E flag \in InsertFlags : InsertBlock(p, off, CBlkSize, flag)
                         /\ Step(<<>>)
                      \/ /\ cut = NoCut
                         /\ OverwriteBlock(p, off, off + CBlkSize)
                         /\ \E i \in DOMAIN tab[p].chain :
                              /\ tab[p].chain[i].off = off
                              /\ Step(<<<<"data", tab[p].chain[i].loc, p>>, <<"hdr", tab[p].loc>>>>)
               PROVE  \E writes : Writing(writes)
    BY <1>5 DEF Inserts
  <2>1. CASE InsertNewFile(p, off, CBlkSize) /\ Step(Alloc_file_headerWrites)
    <3>1. Next
      BY <1>3, <2>1 DEF Next, Call
    <3>2. hdr' = [hdr EXCEPT ![mb.hfl] = hdr'[mb.hfl]] /\ bpn' = bpn
      BY <2>1 DEF InsertNewFile, Alloc_file_header
    <3>3. ASSUME NEW f \in FileType, NEW g \in FileType,
                 SameSections(f, Sections), g = Write_cache_off(f, <<"hdr", mb.hfl>>, Sections')
          PROVE  SameSections(Write_cache_off(g, <<"mb">>, Sections'), Sections')
      <4>1. g.bpn = f.bpn /\ g.hdr = [f.hdr EXCEPT ![mb.hfl] = hdr'[mb.hfl]]
        <5>1. Sections' \in SectionsType /\ Sections'.hdr = hdr'
          BY <1>0, <3>1, SectionsParts
        <5> QED
          BY ONLY f \in FileType, <3>3, <5>1, WriteHdr
      <4>2. g.bpn = bpn' /\ g.hdr = hdr'
        BY <3>2, <3>3, <4>1, SectionsParts DEF SameSections
      <4> QED
        BY <1>0, <3>1, <4>2, SectionsParts, WriteMb DEF SameSections
    <3>4. Complete(Alloc_file_headerWrites)
      BY <1>0, <3>1, <3>3, GoodWrites, TwoWrites DEF Alloc_file_headerWrites
    <3> QED
      BY <2>1, <3>1, <3>4 DEF Writing
  <2>2. ASSUME NEW flag \in InsertFlags, InsertBlock(p, off, CBlkSize, flag), Step(<<>>)
        PROVE  \E writes : Writing(writes)
    <3>1. Next /\ UNCHANGED disk
      BY <1>3, <2>2 DEF Next, Call, InsertBlock
    <3> QED
      BY <1>1, <2>2, <3>1
  <2>3. ASSUME OverwriteBlock(p, off, off + CBlkSize), NEW i \in DOMAIN tab[p].chain,
               Step(<<<<"data", tab[p].chain[i].loc, p>>, <<"hdr", tab[p].loc>>>>)
        PROVE  \E writes : Writing(writes)
    <3> DEFINE b == tab[p].chain[i].loc
               h == tab[p].loc
    <3>1. Next
      BY <1>3, <2>3 DEF Next, Call
    <3>2. hdr' = [hdr EXCEPT ![h] = hdr'[h]] /\ bpn' = bpn /\ mb' = mb
      BY <1>4, <2>3 DEF OverwriteBlock
    <3> HIDE DEF b, h
    <3>3. ASSUME NEW f \in FileType, NEW g \in FileType,
                 SameSections(f, Sections), g = Write_cache_off(f, <<"data", b, p>>, Sections')
          PROVE  SameSections(Write_cache_off(g, <<"hdr", h>>, Sections'), Sections')
      <4>1. g.mb = f.mb /\ g.bpn = f.bpn /\ g.hdr = f.hdr
        BY <1>0, <3>1, <3>3, WriteData
      <4>2. g.mb = mb' /\ g.bpn = bpn' /\ g.hdr = hdr
        BY <3>2, <3>3, <4>1, SectionsParts DEF SameSections
      <4> QED
        BY <1>0, <3>1, <3>2, <4>2, SectionsParts, WriteHdr DEF SameSections
    <3>4. Complete(<<<<"data", b, p>>, <<"hdr", h>>>>)
      BY <1>0, <3>1, <3>3, GoodWrites, TwoWrites
    <3> QED
      BY <2>3, <3>1, <3>4 DEF Writing, b, h
  <2> QED
    BY <2>1, <2>2, <2>3
<1>6. CASE AllocSteps
  <2>1. CASE AllocBlock /\ Step(<<<<"mb">>>>)
    <3>1. Next /\ hdr' = hdr /\ bpn' = bpn
      BY <2>1 DEF Next, CallStep, AllocBlock
    <3>2. ASSUME NEW f \in FileType, SameSections(f, Sections)
          PROVE  SameSections(Write_cache_off(f, <<"mb">>, Sections'), Sections')
      BY <1>0, <3>1, <3>2, SectionsParts, WriteMb DEF SameSections
    <3>3. Complete(<<<<"mb">>>>)
      BY <1>0, <3>1, <3>2, GoodWrites, OneWrite
    <3> QED
      BY <2>1, <3>1, <3>3 DEF Writing
  <2>2. CASE GiveUp /\ Step(IF req.hdr = INVLOC THEN <<>> ELSE Return_file_headerWrites(req.hdr))
    <3>1. Next
      BY <2>2 DEF Next, CallStep
    <3>2. CASE req.hdr = INVLOC
      BY <1>1, <2>2, <3>1, <3>2 DEF GiveUp, disk
    <3>3. CASE req.hdr # INVLOC
      <4>1. req.hdr \in Headers
        BY <3>3 DEF RequestType, HeaderOrNone
      <4> QED
        BY <1>2, <2>2, <3>1, <3>3, <4>1 DEF GiveUp
    <3> QED
      BY <3>2, <3>3
  <2>3. CASE Evict /\ Step(Return_file_headerWrites(tab[Head(stale)].loc))
    <3>1. Next
      BY <2>3 DEF Next, CallStep
    <3>2. Head(stale) \in DOMAIN tab
      BY <2>3, StaleHead DEF Evict
    <3> QED
      BY <1>2, <1>4, <2>3, <3>1, <3>2 DEF Evict, RemoveFile
  <2>4. CASE (NoBlockAfterEviction \/ HeadNotListed) /\ Step(<<>>)
    BY <1>1, <2>4 DEF NoBlockAfterEviction, HeadNotListed, Next, CallStep
  <2> QED
    BY <1>6, <2>1, <2>2, <2>3, <2>4 DEF AllocSteps
<1>7. CASE LinkSteps
  <2>1. ASSUME LinkNewFile, NEW prev, prev = <<>>, Step(InsertWrites(req.blk, req.path, prev, req.hdr))
        PROVE  \E writes : Writing(writes)
    <3>1. Next
      BY <2>1 DEF Next, CallStep
    <3>5. PICK q \in Blocks : TRUE
      <4>1. 0 \in Blocks
        BY RSCAssumption DEF Blocks
      <4> QED
        BY <4>1
    <3>2. InsertChanges(req.blk, q, prev, req.hdr)
      <4>1. /\ mb' = mb
            /\ hdr' = [hdr EXCEPT ![req.hdr] = hdr'[req.hdr]]
            /\ bpn' = [bpn EXCEPT ![req.blk] = bpn'[req.blk]]
        BY <2>1 DEF LinkNewFile
      <4> QED
        BY ONLY <2>1, <4>1 DEF InsertChanges
    <3>3. req.blk \in Blocks /\ req.path \in Paths /\ req.hdr \in Headers
      BY <2>1 DEF LinkNewFile, CallInv, RequestType, BlockOrNone, HeaderOrNone
    <3>4. Complete(InsertWrites(req.blk, req.path, prev, req.hdr))
      BY <1>0, <3>1, <3>2, <3>3, <3>5, BlockInsertedWrites
    <3> QED
      BY <2>1, <3>1, <3>4 DEF Writing
  <2>2. ASSUME LinkBlock, NEW prev,
               prev = IF tab[req.path].chain = <<>> THEN <<>> ELSE <<<<"bpn", Last(tab[req.path].chain).loc>>>>,
               Step(InsertWrites(req.blk, req.path, prev, tab[req.path].loc))
        PROVE  \E writes : Writing(writes)
    <3> DEFINE f == tab[req.path]
               q == IF f.chain = <<>> THEN 0 ELSE Last(f.chain).loc
    <3>1. Next
      BY <2>2 DEF Next, CallStep
    <3>2. req.path \in DOMAIN tab /\ f \in CachedFile /\ f.loc \in Headers
      BY <1>4, <2>2 DEF LinkBlock
    <3>3. req.blk \in Blocks /\ req.path \in Paths
      BY <1>4, <2>2, <3>2 DEF LinkBlock, CallInv, RequestType, BlockOrNone
    <3>4. f.chain # <<>> => Last(f.chain) = f.chain[Len(f.chain)] /\ Last(f.chain).loc \in Blocks
      <4>1. f.chain # <<>> => Len(f.chain) \in 1 .. Len(f.chain)
        BY <3>2, ChainType
      <4> QED
        BY <3>2, <4>1, ChainType DEF Last
    <3>5. q \in Blocks
      BY <3>4, RSCAssumption DEF Blocks
    <3>6. mb' = mb /\ hdr' = [hdr EXCEPT ![f.loc] = hdr'[f.loc]] /\ bpn' = NodesWithLink(f, req.blk, req.off)
      BY <2>2 DEF LinkBlock
    <3>7. IF prev = <<>>
          THEN bpn' = [bpn EXCEPT ![req.blk] = bpn'[req.blk]]
          ELSE /\ prev = <<<<"bpn", q>>>>
               /\ bpn' = [[bpn EXCEPT ![req.blk] = bpn'[req.blk]] EXCEPT ![q] = bpn'[q]]
      <4>1. bpn \in [Blocks -> NodeType]
        OBVIOUS
      <4>2. CASE f.chain = <<>>
        <5>1. prev = <<>> /\ bpn' = [bpn EXCEPT ![req.blk] = [next |-> INVLOC, fhloc |-> f.loc, off |-> req.off]]
          BY <2>2, <3>6, <4>2 DEF NodesWithLink
        <5>2. bpn' = [bpn EXCEPT ![req.blk] = bpn'[req.blk]]
          BY <3>3, <4>1, <5>1
        <5> QED
          BY <5>1, <5>2
      <4>3. CASE f.chain # <<>>
        <5>1. q = Last(f.chain).loc /\ prev = <<<<"bpn", q>>>> /\ prev # <<>>
          BY <2>2, <4>3
        <5> DEFINE node == [next |-> INVLOC, fhloc |-> f.loc, off |-> req.off]
        <5>2. bpn' = [bpn EXCEPT ![req.blk] = node, ![q].next = req.blk]
          BY <3>6, <4>3, <5>1 DEF NodesWithLink
        <5> HIDE DEF q, node
        <5>3. bpn' = [[bpn EXCEPT ![req.blk] = bpn'[req.blk]] EXCEPT ![q] = bpn'[q]]
          BY <3>3, <3>5, <4>1, <5>2
        <5> QED
          BY <5>1, <5>3
      <4> QED
        BY <4>2, <4>3
    <3>8. InsertChanges(req.blk, q, prev, f.loc)
      BY <3>6, <3>7 DEF InsertChanges
    <3> HIDE DEF q
    <3>9. Complete(InsertWrites(req.blk, req.path, prev, f.loc))
      BY <1>0, <3>1, <3>2, <3>3, <3>5, <3>8, BlockInsertedWrites
    <3> QED
      BY <2>2, <3>1, <3>9 DEF Writing
  <2>3. CASE (LinkAborts \/ LinkToEvicted) /\ Step(<<>>)
    BY <1>1, <2>3 DEF LinkAborts, LinkToEvicted, Next, CallStep
  <2> QED
    BY <1>7, <2>1, <2>2, <2>3 DEF LinkSteps
<1>8. CASE Removes
  <2>1. ASSUME NEW p \in Paths, Rm(p), Step(Return_file_headerWrites(tab[p].loc))
        PROVE  \E writes : Writing(writes)
    <3>1. Next
      BY <2>1 DEF Next, Call
    <3> QED
      BY <1>2, <1>4, <2>1, <3>1 DEF Rm, RemoveFile
  <2>2. CASE RmBlock /\ Step(Return_file_blockWrites(walk))
    <3>1. Next
      BY <2>2 DEF Next, CallStep
    <3>2. walk \in Blocks /\ Return_file_block(walk) /\ hdr' = hdr
      BY <2>2 DEF RmBlock, BlockOrNone
    <3>3. Complete(Return_file_blockWrites(walk))
      BY <1>0, <3>1, <3>2, BlockReturnedWrites
    <3> QED
      BY <2>2, <3>1, <3>3 DEF Writing
  <2>3. CASE RmDone /\ Step(<<>>)
    BY <1>1, <2>3 DEF RmDone, Next, CallStep
  <2> QED
    BY <1>8, <2>1, <2>2, <2>3 DEF Removes
<1>9. CASE Truncates
  <2>1. ASSUME NEW p \in Paths, NEW off \in TruncateOffs, TruncateStart(p, off), Step(<<>>)
        PROVE  \E writes : Writing(writes)
    BY <1>1, <2>1 DEF TruncateStart, Next, Call
  <2>2. ASSUME TruncateBlock, NEW i \in CutNodes, CutBlock(i), Step(TruncateWrites(tab[cut.path], i))
        PROVE  \E writes : Writing(writes)
    <3>1. Next /\ hdr' = hdr
      BY <2>2 DEF Next, CutStep, TruncateBlock
    <3>2. cut.path \in DOMAIN tab
      BY <2>2 DEF TruncateBlock, CallInv
    <3>3. tab[cut.path] \in CachedFile /\ i \in DOMAIN tab[cut.path].chain
      BY <1>4, <3>2 DEF CutNodes
    <3>4. /\ mb' = MbWithBlock(mb, tab[cut.path].chain[i].loc)
          /\ bpn' = NodesWithFree(mb, NodesWithoutLast(tab[cut.path], i), tab[cut.path].chain[i].loc)
      BY <2>2 DEF CutBlock
    <3>5. Complete(TruncateWrites(tab[cut.path], i))
      BY <1>0, <3>1, <3>3, <3>4, BlockCutWrites
    <3> QED
      BY <2>2, <3>1, <3>5 DEF Writing
  <2>3. CASE TruncateDone /\ Step(<<<<"hdr", tab[cut.path].loc>>>>)
    <3> DEFINE h == tab[cut.path].loc
    <3>1. Next /\ bpn' = bpn /\ mb' = mb
      BY <2>3 DEF Next, CutStep, TruncateDone
    <3>2. hdr' = [hdr EXCEPT ![h] = hdr'[h]]
      BY <2>3 DEF TruncateDone
    <3> HIDE DEF h
    <3>3. ASSUME NEW f \in FileType, SameSections(f, Sections)
          PROVE  SameSections(Write_cache_off(f, <<"hdr", h>>, Sections'), Sections')
      <4> DEFINE g == Write_cache_off(f, <<"hdr", h>>, Sections')
      <4>1. g.mb = f.mb /\ g.bpn = f.bpn /\ g.hdr = [f.hdr EXCEPT ![h] = Sections'.hdr[h]]
        <5>1. Sections' \in SectionsType
          BY <1>0, <3>1
        <5> QED
          BY ONLY f \in FileType, <5>1, WriteHdr
      <4> HIDE DEF g
      <4>2. SameSections(g, Sections')
        BY <3>1, <3>2, <3>3, <4>1, SectionsParts DEF SameSections
      <4> QED
        BY <4>2 DEF g
    <3>4. Complete(<<<<"hdr", h>>>>)
      BY <1>0, <3>1, <3>3, GoodWrites, OneWrite
    <3> QED
      BY <2>3, <3>1, <3>4 DEF Writing, h
  <2> QED
    BY <1>9, <2>1, <2>2, <2>3 DEF Truncates
<1>10. CASE OpensAndCloses
  <2>1. Next /\ UNCHANGED disk
    BY <1>10 DEF OpensAndCloses, AppendStep, AppendNode, Append_to_stale_list,
                 Rm_file_from_stale_list, NodeNotListed, Next, Call
  <2> QED
    BY <1>1, <1>10, <2>1 DEF OpensAndCloses
<1> QED
  BY <1>5, <1>6, <1>7, <1>8, <1>9, <1>10 DEF CrashNext

-----------------------------------------------------------------------------
(* What a start reads.                                                     *)

\* The walk along next, of k steps for every k
WalkStep(locs, k) ==
  IF Len(locs) < k \/ file.bpn[locs[k]].next = INVLOC THEN locs
  ELSE Append(locs, file.bpn[locs[k]].next)

WalkStart(first) == IF first = INVLOC THEN <<>> ELSE <<first>>

Walking(first, w) ==
  /\ w[0] = WalkStart(first)
  /\ \A k \in 1 .. NumBlocks : w[k] = WalkStep(w[k - 1], k)
  /\ \A k \in 0 .. NumBlocks : w[k] \in Seq(Blocks)

LEMMA WalkStepType ==
  ASSUME file \in FileType, NEW locs \in Seq(Blocks), NEW k \in Nat \ {0}
  PROVE  /\ WalkStep(locs, k) \in Seq(Blocks)
         /\ locs # <<>> => WalkStep(locs, k) # <<>>
<1>1. CASE Len(locs) < k \/ file.bpn[locs[k]].next = INVLOC
  BY <1>1 DEF WalkStep
<1>2. CASE ~(Len(locs) < k) /\ file.bpn[locs[k]].next # INVLOC
  <2>1. k \in 1 .. Len(locs)
    BY <1>2, LenProperties
  <2>2. locs[k] \in Blocks
    BY <2>1, ElementOfSeq
  <2>3. file.bpn[locs[k]] \in NodeType
    BY <2>2 DEF FileType
  <2>4. file.bpn[locs[k]].next \in Blocks
    BY <1>2, <2>3 DEF NodeType, BlockOrNone
  <2> DEFINE n == file.bpn[locs[k]].next
  <2> HIDE DEF n
  <2>5. Append(locs, n) \in Seq(Blocks) /\ Append(locs, n) # <<>>
    BY <2>4, AppendProperties DEF n
  <2> QED
    BY <1>2, <2>5 DEF WalkStep, n
<1> QED
  BY <1>1, <1>2

LEMMA WalkDefined ==
  ASSUME file \in FileType, NEW first \in BlockOrNone
  PROVE  \E w : Walking(first, w) /\ WalkFrom(first) = w[NumBlocks]
<1> DEFINE D == Seq(Blocks)
           Rec(a) == a = [k \in 0 .. NumBlocks |->
                            IF k = 0 THEN WalkStart(first) ELSE WalkStep(a[k - 1], k)]
           w == CHOOSE a : Rec(a)
           g == [k \in 1 .. NumBlocks |-> [x \in D |-> WalkStep(x, k)]]
<1>1. NumBlocks \in Nat
  BY RSCAssumption
<1>2. WalkStart(first) \in D
  BY DEF WalkStart, BlockOrNone
<1>3. \A k \in 1 .. NumBlocks : \A x \in D : WalkStep(x, k) \in D
  BY <1>1, WalkStepType
<1>4. \A k \in 1 .. NumBlocks : \A x \in D : g[k][x] = WalkStep(x, k)
  OBVIOUS
<1>5. WalkFrom(first) = w[NumBlocks]
  BY Zenon DEF WalkFrom, WalkStart, WalkStep
<1> HIDE DEF g, D
<1>6. PICK b : Through(D, NumBlocks, g, WalkStart(first), b)
  <2>1. StepsOf(D, NumBlocks, g)
    BY <1>3, <1>4 DEF StepsOf
  <2> QED
    BY <1>1, <1>2, <2>1, RecursionExists
<1>7. Rec(b)
  <2>1. ASSUME NEW k \in 0 .. NumBlocks
        PROVE  b[k] = IF k = 0 THEN WalkStart(first) ELSE WalkStep(b[k - 1], k)
    <3>1. CASE k = 0
      BY <1>6, <3>1 DEF Through
    <3>2. CASE k # 0
      <4>1. k \in 1 .. NumBlocks /\ k - 1 \in 0 .. NumBlocks
        BY <1>1, <3>2
      <4>2. b[k - 1] \in D
        BY <1>6, <4>1 DEF Through
      <4> QED
        BY <1>4, <1>6, <3>2, <4>1, <4>2 DEF Through
    <3> QED
      BY <3>1, <3>2
  <2>2. b = [k \in 0 .. NumBlocks |-> b[k]]
    BY <1>6 DEF Through
  <2> QED
    BY <2>1, <2>2
<1>8. Rec(w)
  <2> HIDE DEF Rec
  <2> QED
    BY <1>7
<1> HIDE DEF w
<1>9. w[0] = WalkStart(first)
  BY <1>1, <1>8
<1>10. \A k \in 1 .. NumBlocks : w[k] = WalkStep(w[k - 1], k)
  <2> TAKE k \in 1 .. NumBlocks
  <2>1. k \in 0 .. NumBlocks /\ k # 0
    BY <1>1
  <2> QED
    BY <1>8, <2>1
<1>11. \A k \in 0 .. NumBlocks : w[k] \in D
  <2>1. w[0] \in D
    BY <1>2, <1>9
  <2>2. \A k \in 1 .. NumBlocks : w[k - 1] \in D => w[k] \in D
    BY <1>3, <1>10
  <2> QED
    BY <1>1, <2>1, <2>2, StaysIn
<1>12. Walking(first, w)
  BY <1>9, <1>10, <1>11 DEF Walking, D
<1> QED
  BY <1>5, <1>12

LEMMA WalkNotEmpty ==
  ASSUME file \in FileType, NEW first \in BlockOrNone, NEW w, Walking(first, w), first # INVLOC
  PROVE  w[NumBlocks] # <<>>
<1> DEFINE D == Seq(Blocks) \ {<<>>}
<1>1. NumBlocks \in Nat /\ NumBlocks \in 0 .. NumBlocks
  BY RSCAssumption
<1>2. \A k \in 0 .. NumBlocks : w[k] \in D
  <2>1. w[0] \in D
    BY DEF Walking, WalkStart, BlockOrNone
  <2>2. \A k \in 1 .. NumBlocks : w[k - 1] \in D => w[k] \in D
    <3> TAKE k \in 1 .. NumBlocks
    <3>1. k \in Nat \ {0} /\ k - 1 \in 0 .. NumBlocks
      BY <1>1
    <3>2. w[k] = WalkStep(w[k - 1], k)
      BY DEF Walking
    <3> QED
      BY <3>1, <3>2, WalkStepType
  <2> HIDE DEF D
  <2> QED
    BY <1>1, <2>1, <2>2, StaysIn
<1> QED
  BY <1>1, <1>2

\* The tables that a start makes: every file is on the stale list.
ReadFile == {f \in CachedFile : f.sn = "listed"}
ReadTable == UNION {[P -> ReadFile] : P \in SUBSET Paths}

LEMMA ReadTableParts ==
  ASSUME NEW t
  PROVE  t \in ReadTable <=> DOMAIN t \subseteq Paths /\ t \in [DOMAIN t -> ReadFile]
  BY DEF ReadTable

\* A node is read to a header in use.
LEMMA NodeRead ==
  ASSUME file \in FileType, NEW t \in ReadTable, NEW h \in HeadersInUse, NEW b \in Blocks,
         file.hdr[h].path # NoPath, Aligned(file.bpn[b].off)
  PROVE  LET u == Read_cache_to_RSC_table(t, h, b) IN
         u \in ReadTable /\ DOMAIN u = DOMAIN t \cup {file.hdr[h].path}
<1> DEFINE p == file.hdr[h].path
           node == [loc |-> b, off |-> file.bpn[b].off]
           f == [loc |-> h, nodeHeader |-> file.hdr[h].nodeHeader,
                 nodeTail |-> file.hdr[h].nodeTail, fileoff |-> file.hdr[h].fileoff,
                 chain |-> <<node>>, sn |-> "listed"]
           u == Read_cache_to_RSC_table(t, h, b)
<1>1. DOMAIN t \subseteq Paths /\ t \in [DOMAIN t -> ReadFile]
  BY ReadTableParts
<1>2. h \in Headers /\ file.hdr[h] \in DiskHeader /\ file.hdr[h].nodeHeader # INVLOC
  BY DEF HeadersInUse, FileType
<1>3. file.bpn[b] \in NodeType
  BY DEF FileType
<1>4. file.bpn[b].off \in BlockOffs
  <2>1. INVLOC % CBlkSize # 0
    BY BlockSizeAssumption, RSCAssumption DEF INVLOC
  <2> QED
    BY <1>3, <2>1 DEF NodeType, Aligned
<1>5. p \in Paths
  BY <1>2 DEF DiskHeader, HeaderType
<1>6. node \in ChainNode
  BY <1>4 DEF ChainNode
<1>7. CASE p \notin DOMAIN t
  <2>1. u = [q \in DOMAIN t \cup {p} |-> IF q \in DOMAIN t THEN t[q] ELSE f]
    BY <1>7 DEF Read_cache_to_RSC_table
  <2>2. f \in ReadFile
    <3> HIDE DEF node
    <3>1. <<node>> \in Seq(ChainNode)
      BY <1>6
    <3> QED
      BY <1>2, <3>1 DEF ReadFile, CachedFile, ChainNode, DiskHeader, HeaderType, StaleNode
  <2> HIDE DEF f
  <2> QED
    BY <1>1, <1>5, <2>1, <2>2, ReadTableParts
<1>8. CASE p \in DOMAIN t
  <2>1. CASE \E i \in DOMAIN t[p].chain : t[p].chain[i].off = node.off
    BY <1>8, <2>1 DEF Read_cache_to_RSC_table
  <2>2. CASE ~(\E i \in DOMAIN t[p].chain : t[p].chain[i].off = node.off)
    <3>1. u = [t EXCEPT ![p].chain = Append(@, node)]
      BY <1>8, <2>2 DEF Read_cache_to_RSC_table
    <3> HIDE DEF node
    <3>2. t[p] \in CachedFile /\ t[p].sn = "listed"
      BY <1>1, <1>8 DEF ReadFile
    <3>3. Append(t[p].chain, node) \in Seq(ChainNode)
      BY <1>6, <3>2, ChainType, AppendProperties
    <3>4. [t[p] EXCEPT !.chain = Append(t[p].chain, node)] \in ReadFile
      BY <3>2, <3>3 DEF ReadFile, CachedFile, ChainNode
    <3>5. DOMAIN u = DOMAIN t /\ u \in [DOMAIN t -> ReadFile]
      BY <1>1, <1>8, <3>1, <3>4
    <3> QED
      BY <1>1, <1>8, <3>5, ReadTableParts
  <2> QED
    BY <2>1, <2>2
<1> QED
  BY <1>7, <1>8

\* The blocks that the walk of a header in use comes to
LEMMA DiskChainParts ==
  ASSUME file \in FileType, NEW h \in HeadersInUse
  PROVE  /\ DiskChain(h) \in Seq(Blocks) /\ DiskChain(h) # <<>>
         /\ Len(DiskChain(h)) \in Nat \ {0} /\ DOMAIN DiskChain(h) = 1 .. Len(DiskChain(h))
<1>1. file.hdr[h].nodeHeader \in BlockOrNone /\ file.hdr[h].nodeHeader # INVLOC
  BY DEF HeadersInUse, FileType, DiskHeader, HeaderType
<1>2. PICK w : Walking(file.hdr[h].nodeHeader, w) /\ DiskChain(h) = w[NumBlocks]
  BY <1>1, WalkDefined DEF DiskChain
<1>3. NumBlocks \in 0 .. NumBlocks
  BY RSCAssumption
<1>4. DiskChain(h) \in Seq(Blocks) /\ DiskChain(h) # <<>>
  BY <1>1, <1>2, <1>3, WalkNotEmpty DEF Walking
<1> QED
  BY <1>4, EmptySeq, LenProperties

\* The tables between the nodes of a header
Reading(t, h, r) ==
  /\ r[0] = t
  /\ \A k \in 1 .. Len(DiskChain(h)) : r[k] = Read_cache_to_RSC_table(r[k - 1], h, DiskChain(h)[k])
  /\ \A k \in 0 .. Len(DiskChain(h)) : r[k] \in ReadTable

LEMMA NodesRead ==
  ASSUME file \in FileType, Readable, NEW t \in ReadTable, NEW h \in HeadersInUse
  PROVE  \E r : Reading(t, h, r) /\ Read_cacheNodes(t, h) = r[Len(DiskChain(h))]
<1> DEFINE locs == DiskChain(h)
           n == Len(locs)
           Rec(a) == a = [k \in 0 .. n |->
                            IF k = 0 THEN t ELSE Read_cache_to_RSC_table(a[k - 1], h, locs[k])]
           r == CHOOSE a : Rec(a)
           g == [k \in 1 .. n |-> [x \in ReadTable |-> Read_cache_to_RSC_table(x, h, locs[k])]]
<1>1. n \in Nat /\ n \in 0 .. n /\ DOMAIN locs = 1 .. n /\ \A k \in 1 .. n : locs[k] \in Blocks
  <2>1. n \in Nat /\ DOMAIN locs = 1 .. n /\ locs \in Seq(Blocks)
    BY DiskChainParts
  <2> HIDE DEF locs
  <2> QED
    BY <2>1, ElementOfSeq
<1>2. file.hdr[h].path # NoPath /\ \A k \in 1 .. n : Aligned(file.bpn[locs[k]].off)
  BY <1>1 DEF Readable
<1>3. \A k \in 1 .. n : \A x \in ReadTable : Read_cache_to_RSC_table(x, h, locs[k]) \in ReadTable
  BY <1>1, <1>2, NodeRead
<1>4. \A k \in 1 .. n : \A x \in ReadTable : g[k][x] = Read_cache_to_RSC_table(x, h, locs[k])
  OBVIOUS
<1>5. Read_cacheNodes(t, h) = r[n]
  BY Zenon DEF Read_cacheNodes
<1> HIDE DEF g, n
<1>6. PICK b : Through(ReadTable, n, g, t, b)
  <2>1. StepsOf(ReadTable, n, g)
    BY <1>3, <1>4 DEF StepsOf
  <2> QED
    BY <1>1, <2>1, RecursionExists
<1> HIDE DEF locs
<1>7. Rec(b)
  <2>1. ASSUME NEW k \in 0 .. n
        PROVE  b[k] = IF k = 0 THEN t ELSE Read_cache_to_RSC_table(b[k - 1], h, locs[k])
    <3>1. CASE k = 0
      BY <1>6, <3>1 DEF Through
    <3>2. CASE k # 0
      <4>1. k \in 1 .. n /\ k - 1 \in 0 .. n
        BY <1>1, <3>2
      <4>2. b[k - 1] \in ReadTable
        BY <1>6, <4>1 DEF Through
      <4> QED
        BY <1>4, <1>6, <3>2, <4>1, <4>2 DEF Through
    <3> QED
      BY <3>1, <3>2
  <2>2. b = [k \in 0 .. n |-> b[k]]
    BY <1>6 DEF Through
  <2> QED
    BY <2>1, <2>2
<1>8. Rec(r)
  <2> HIDE DEF Rec
  <2> QED
    BY <1>7
<1> HIDE DEF r
<1>9. r[0] = t
  BY <1>1, <1>8
<1>10. \A k \in 1 .. n : r[k] = Read_cache_to_RSC_table(r[k - 1], h, locs[k])
  <2> TAKE k \in 1 .. n
  <2>1. k \in 0 .. n /\ k # 0
    BY <1>1
  <2> QED
    BY <1>8, <2>1
<1>11. \A k \in 0 .. n : r[k] \in ReadTable
  <2>1. \A k \in 1 .. n : r[k - 1] \in ReadTable => r[k] \in ReadTable
    BY <1>3, <1>10
  <2> QED
    BY <1>1, <1>9, <2>1, StaysIn
<1>12. Reading(t, h, r)
  BY <1>9, <1>10, <1>11 DEF Reading, n, locs
<1> QED
  BY <1>5, <1>12 DEF n, locs

\* A header adds its file to the table.
LEMMA HeaderRead ==
  ASSUME file \in FileType, Readable, NEW t \in ReadTable, NEW h \in HeadersInUse
  PROVE  /\ Read_cacheNodes(t, h) \in ReadTable
         /\ DOMAIN Read_cacheNodes(t, h) = DOMAIN t \cup {file.hdr[h].path}
         /\ file.hdr[h].path \in Paths
<1> DEFINE locs == DiskChain(h)
           n == Len(locs)
           p == file.hdr[h].path
<1>1. PICK r : Reading(t, h, r) /\ Read_cacheNodes(t, h) = r[n]
  BY NodesRead
<1>2. n \in Nat \ {0} /\ DOMAIN locs = 1 .. n /\ locs \in Seq(Blocks)
  BY DiskChainParts
<1>3. p # NoPath /\ \A k \in 1 .. n : Aligned(file.bpn[locs[k]].off)
  BY <1>2 DEF Readable
<1>4. \A k \in 0 .. n : r[k] \in ReadTable
  BY <1>1 DEF Reading
<1>5. ASSUME NEW k \in 1 .. n
      PROVE  DOMAIN r[k] = DOMAIN r[k - 1] \cup {p}
  <2>1. k - 1 \in 0 .. n
    BY <1>2
  <2>2. r[k - 1] \in ReadTable
    BY <1>4, <2>1
  <2>3. locs[k] \in Blocks
    BY <1>2, ElementOfSeq
  <2>4. r[k] = Read_cache_to_RSC_table(r[k - 1], h, locs[k])
    BY <1>1 DEF Reading
  <2> QED
    BY <1>3, <2>2, <2>3, <2>4, NodeRead
<1> HIDE DEF n
<1> DEFINE D == {u \in ReadTable : DOMAIN u = DOMAIN t \cup {p}}
           a == [k \in 0 .. (n - 1) |-> r[k + 1]]
<1>6. a[0] \in D
  <2>1. 0 \in 0 .. (n - 1) /\ 1 \in 1 .. n /\ 1 \in 0 .. n /\ 1 - 1 = 0
    BY <1>2
  <2>2. DOMAIN r[1] = DOMAIN r[0] \cup {p}
    BY <1>5, <2>1
  <2>3. a[0] = r[1] /\ r[0] = t
    BY <1>1, <2>1 DEF Reading
  <2> QED
    BY <1>4, <2>1, <2>2, <2>3
<1>7. \A k \in 1 .. (n - 1) : a[k - 1] \in D => a[k] \in D
  <2> TAKE k \in 1 .. (n - 1)
  <2>1. k \in 0 .. (n - 1) /\ k - 1 \in 0 .. (n - 1) /\ k + 1 \in 1 .. n /\ k + 1 \in 0 .. n
        /\ (k - 1) + 1 = k /\ (k + 1) - 1 = k
    BY <1>2
  <2>2. DOMAIN r[k + 1] = DOMAIN r[k] \cup {p}
    BY <1>5, <2>1
  <2>3. a[k] = r[k + 1] /\ a[k - 1] = r[k]
    BY <2>1
  <2> QED
    BY <1>4, <2>1, <2>2, <2>3
<1>8. n - 1 \in Nat /\ n - 1 \in 0 .. (n - 1) /\ (n - 1) + 1 = n
  BY <1>2
<1>9. a[n - 1] = r[n]
  BY <1>8
<1> HIDE DEF a, D
<1>10. a[n - 1] \in D
  BY <1>6, <1>7, <1>8, StaysIn
<1>11. p \in Paths
  BY <1>3 DEF HeadersInUse, FileType, DiskHeader, HeaderType
<1> QED
  BY <1>1, <1>9, <1>10, <1>11 DEF D

\* A table and the list of its files, each once
Listed(x) ==
  /\ \A i, j \in DOMAIN x.stale : x.stale[i] = x.stale[j] => i = j
  /\ {x.stale[i] : i \in DOMAIN x.stale} = DOMAIN x.tab

ReadState == {x \in [tab : ReadTable, stale : Seq(Paths)] : Listed(x)}

\* What a start has read after header h, when it had read x before
ReadHeader(x, h) ==
  IF h \notin HeadersInUse THEN x
  ELSE [tab   |-> Read_cacheNodes(x.tab, h),
        stale |-> IF file.hdr[h].path \in DOMAIN x.tab THEN x.stale
                  ELSE Append(x.stale, file.hdr[h].path)]

LEMMA ReadHeaderType ==
  ASSUME file \in FileType, Readable, NEW x \in ReadState, NEW h
  PROVE  ReadHeader(x, h) \in ReadState
<1> DEFINE p == file.hdr[h].path
           t == Read_cacheNodes(x.tab, h)
<1>1. CASE h \notin HeadersInUse
  BY <1>1 DEF ReadHeader
<1>2. CASE h \in HeadersInUse
  <2>1. x.tab \in ReadTable /\ x.stale \in Seq(Paths) /\ Listed(x)
    BY DEF ReadState
  <2>2. t \in ReadTable /\ DOMAIN t = DOMAIN x.tab \cup {p} /\ p \in Paths
    BY <1>2, <2>1, HeaderRead
  <2> HIDE DEF p, t
  <2>3. CASE p \in DOMAIN x.tab
    <3>1. ReadHeader(x, h) = [tab |-> t, stale |-> x.stale]
      BY <1>2, <2>3 DEF ReadHeader, p, t
    <3> QED
      BY <2>1, <2>2, <2>3, <3>1 DEF ReadState, Listed
  <2>4. CASE p \notin DOMAIN x.tab
    <3> DEFINE s == Append(x.stale, p)
    <3>1. ReadHeader(x, h) = [tab |-> t, stale |-> s]
      BY <1>2, <2>4 DEF ReadHeader, p, t
    <3>2. /\ s \in Seq(Paths) /\ Len(s) = Len(x.stale) + 1 /\ Len(x.stale) \in Nat
          /\ DOMAIN x.stale = 1 .. Len(x.stale) /\ DOMAIN s = 1 .. (Len(x.stale) + 1)
          /\ \A i \in 1 .. Len(x.stale) : s[i] = x.stale[i]
          /\ s[Len(x.stale) + 1] = p
      BY <2>1, <2>2, AppendProperties, LenProperties
    <3> HIDE DEF s
    <3>3. \A i \in DOMAIN s : i \in DOMAIN x.stale \/ i = Len(x.stale) + 1
      BY <3>2
    <3>4. Len(x.stale) + 1 \in DOMAIN s /\ \A i \in DOMAIN x.stale : i \in DOMAIN s /\ s[i] = x.stale[i]
      BY <3>2
    <3>5. \A i \in DOMAIN x.stale : x.stale[i] # p
      BY <2>1, <2>4 DEF Listed
    <3>6. \A i, j \in DOMAIN s : s[i] = s[j] => i = j
      BY <2>1, <3>2, <3>3, <3>4, <3>5 DEF Listed
    <3>7. {s[i] : i \in DOMAIN s} = DOMAIN t
      BY <2>1, <2>2, <3>2, <3>3, <3>4 DEF Listed
    <3>8. [tab |-> t, stale |-> s] \in [tab : ReadTable, stale : Seq(Paths)]
      BY <2>2, <3>2
    <3> QED
      BY <3>1, <3>6, <3>7, <3>8 DEF ReadState, Listed
  <2> QED
    BY <2>3, <2>4
<1> QED
  BY <1>1, <1>2

\* What a start has read after k headers, for every k
ReadingHeaders(r) ==
  /\ r[0] = [tab |-> <<>>, stale |-> <<>>]
  /\ \A k \in 1 .. NumHeaders : r[k] = ReadHeader(r[k - 1], k - 1)
  /\ \A k \in 0 .. NumHeaders : r[k] \in ReadState

LEMMA NothingRead == [tab |-> <<>>, stale |-> <<>>] \in ReadState
<1>1. <<>> \in ReadTable
  <2>1. <<>> = [q \in {} |-> 0]
    OBVIOUS
  <2>2. [q \in {} |-> 0] \in [{} -> ReadFile] /\ DOMAIN [q \in {} |-> 0] = {}
    OBVIOUS
  <2> QED
    BY <2>1, <2>2, ReadTableParts
<1>2. <<>> \in Seq(Paths) /\ DOMAIN <<>> = {}
  OBVIOUS
<1> QED
  BY <1>1, <1>2 DEF ReadState, Listed

LEMMA HeadersRead ==
  ASSUME file \in FileType, Readable
  PROVE  ReadingHeaders(ReadHeaders)
<1> DEFINE n == NumHeaders
           x0 == [tab |-> <<>>, stale |-> <<>>]
           Rec(a) == a = [k \in 0 .. n |-> IF k = 0 THEN x0 ELSE ReadHeader(a[k - 1], k - 1)]
           r == CHOOSE a : Rec(a)
           g == [k \in 1 .. n |-> [x \in ReadState |-> ReadHeader(x, k - 1)]]
<1>1. n \in Nat /\ n \in 0 .. n
  BY RSCAssumption
<1>2. x0 \in ReadState
  BY NothingRead
<1>3. \A k \in 1 .. n : \A x \in ReadState : ReadHeader(x, k - 1) \in ReadState
  BY ReadHeaderType
<1>4. \A k \in 1 .. n : \A x \in ReadState : g[k][x] = ReadHeader(x, k - 1)
  OBVIOUS
<1>5. ReadHeaders = r
  BY Zenon DEF ReadHeaders, ReadHeader
<1> HIDE DEF g, n, x0
<1>6. PICK b : Through(ReadState, n, g, x0, b)
  <2>1. StepsOf(ReadState, n, g)
    BY <1>3, <1>4 DEF StepsOf
  <2> QED
    BY <1>1, <1>2, <2>1, RecursionExists
<1>7. Rec(b)
  <2>1. ASSUME NEW k \in 0 .. n
        PROVE  b[k] = IF k = 0 THEN x0 ELSE ReadHeader(b[k - 1], k - 1)
    <3>1. CASE k = 0
      BY <1>6, <3>1 DEF Through
    <3>2. CASE k # 0
      <4>1. k \in 1 .. n /\ k - 1 \in 0 .. n
        BY <1>1, <3>2
      <4>2. b[k - 1] \in ReadState
        BY <1>6, <4>1 DEF Through
      <4> QED
        BY <1>4, <1>6, <3>2, <4>1, <4>2 DEF Through
    <3> QED
      BY <3>1, <3>2
  <2>2. b = [k \in 0 .. n |-> b[k]]
    BY <1>6 DEF Through
  <2> QED
    BY <2>1, <2>2
<1>8. Rec(r)
  <2> HIDE DEF Rec
  <2> QED
    BY <1>7
<1> HIDE DEF r
<1>9. r[0] = x0
  BY <1>1, <1>8
<1>10. \A k \in 1 .. n : r[k] = ReadHeader(r[k - 1], k - 1)
  <2> TAKE k \in 1 .. n
  <2>1. k \in 0 .. n /\ k # 0
    BY <1>1
  <2> QED
    BY <1>8, <2>1
<1>11. \A k \in 0 .. n : r[k] \in ReadState
  <2>1. \A k \in 1 .. n : r[k - 1] \in ReadState => r[k] \in ReadState
    BY <1>3, <1>10
  <2> QED
    BY <1>1, <1>2, <1>9, <2>1, StaysIn
<1> QED
  BY <1>5, <1>9, <1>10, <1>11 DEF ReadingHeaders, n, x0

\* A start makes a table with a stale list that matches it.
LEMMA TableRead ==
  ASSUME file \in FileType, Readable
  PROVE  LET r == ReadWholeDiskToRSCTable IN
         /\ DOMAIN r.tab \subseteq Paths /\ r.tab \in [DOMAIN r.tab -> CachedFile]
         /\ \A p \in DOMAIN r.tab : r.tab[p].sn = "listed"
         /\ r.stale \in Seq(Paths)
         /\ Listed(r)
<1> DEFINE r == ReadWholeDiskToRSCTable
<1>1. NumHeaders \in 0 .. NumHeaders
  BY RSCAssumption
<1>2. r \in ReadState
  BY <1>1, HeadersRead DEF ReadingHeaders, ReadWholeDiskToRSCTable
<1> HIDE DEF r
<1>3. r.tab \in ReadTable /\ r.stale \in Seq(Paths) /\ Listed(r)
  BY <1>2 DEF ReadState
<1>4. DOMAIN r.tab \subseteq Paths /\ r.tab \in [DOMAIN r.tab -> ReadFile]
  BY <1>3, ReadTableParts
<1>5. r.tab \in [DOMAIN r.tab -> CachedFile] /\ \A p \in DOMAIN r.tab : r.tab[p].sn = "listed"
  BY <1>4 DEF ReadFile
<1> QED
  BY <1>3, <1>4, <1>5 DEF r

-----------------------------------------------------------------------------
(* The invariant of every state.                                           *)

\* A program that is down has nothing in memory.
Bare == tab = <<>> /\ stale = <<>> /\ pc = "idle" /\ req = NoReq /\ walk = INVLOC /\ cut = NoCut

Runs == {"up", "stopped", "line703", "down", "line195"}

MemoryInv == TypeOK /\ CallInv /\ StaleMatches /\ HeaderLengths

CrashInv ==
  /\ MemoryInv
  /\ file \in FileType
  /\ run \in Runs /\ stops \in 0 .. MaxStops /\ torn \subseteq {"list", "cut", "header"}
  /\ run \in {"up", "down"} => SameSections(file, Sections)
  /\ run = "down" => Bare

LEMMA CrashInvInit == CrashInit => CrashInv
<1> SUFFICES ASSUME CrashInit
             PROVE  CrashInv
  OBVIOUS
<1>1. Init /\ run = "up" /\ stops = 0 /\ torn = {}
  BY DEF CrashInit
<1>2. TypeOK /\ StaleMatches /\ CallInv
  BY <1>1, TableInvInit DEF TableInv
<1>3. \A h \in Headers : hdr[h].nodeHeader = INVLOC
  BY <1>1 DEF Init, FreeHeader
<1>4. HeaderLengths
  BY <1>3 DEF HeaderLengths, HasLength
<1>5. hdr \in [Headers -> DiskHeader]
  BY <1>2, <1>4, TypeParts DEF HeaderLengths, HasLength, DiskHeader
<1>6. file = [mb |-> mb, hdr |-> hdr, bpn |-> bpn, bytes |-> [b \in Blocks |-> NoPath]]
  BY DEF CrashInit
<1>7. [b \in Blocks |-> NoPath] \in BytesType
  BY DEF BytesType
<1>8. file \in FileType /\ SameSections(file, Sections)
  BY <1>2, <1>5, <1>6, <1>7, TypeParts DEF FileType, SameSections, Sections
<1> QED
  BY <1>1, <1>2, <1>4, <1>8, StopsAssumption DEF CrashInv, MemoryInv, Runs

LEMMA CrashInvStep == CrashInv /\ [CrashNext]_crashVars => CrashInv'
<1> SUFFICES ASSUME CrashInv, [CrashNext]_crashVars
             PROVE  CrashInv'
  OBVIOUS
<1> USE TypeParts
<1>0. TypeOK /\ CallInv /\ StaleMatches /\ HeaderLengths /\ file \in FileType
  BY DEF CrashInv, MemoryInv
<1>1. ASSUME NEW writes, Writing(writes)
      PROVE  CrashInv'
  <2>1. MemoryInv' /\ Sections' \in SectionsType
    BY <1>0, <1>1, NextSections DEF Writing, MemoryInv
  <2> DEFINE n == Len(writes)
             after == FilesAfter(file, writes, Sections')
  <2>2. n \in Nat /\ \A k \in 1 .. n : GoodWrite(writes[k])
    BY <1>1 DEF Writing, Complete
  <2>3. \A k \in 0 .. n : after[k] \in FileType
    BY <1>0, <2>1, <2>2, FilesAfterParts
  <2>4. run = "up" /\ SameSections(file, Sections)
    BY <1>1 DEF Writing, Step, CrashInv
  <2>5. SameSections(after[n], Sections')
    BY <1>0, <1>1, <2>4 DEF Writing, Complete
  <2>6. PICK k \in 0 .. n :
          /\ file' = after[k]
          /\ run' = IF k = n THEN "up" ELSE "stopped"
          /\ torn' = IF k = n THEN torn ELSE torn \cup HalfDone(writes, k)
          /\ stops' = stops
    BY <1>1 DEF Writing, Step
  <2> HIDE DEF n, after
  <2>7. torn' \subseteq {"list", "cut", "header"}
    BY <2>6 DEF HalfDone, CrashInv
  <2>8. file' \in FileType
    BY <2>3, <2>6
  <2>9. run' \in {"up", "down"} => SameSections(file', Sections')
    BY <2>5, <2>6
  <2>10. run' \in Runs /\ run' # "down" /\ stops' \in 0 .. MaxStops
    BY <2>6 DEF Runs, CrashInv
  <2>11. SameSections(file', Sections') = SameSections(file, Sections)'
    BY DEF SameSections
  <2> QED
    BY <2>1, <2>7, <2>8, <2>9, <2>10, <2>11 DEF CrashInv
<1>2. CASE UNCHANGED crashVars
  BY <1>2 DEF CrashInv, MemoryInv, TypeOK, CallInv, StaleMatches, HeaderLengths, HasLength, Bare,
              SameSections, Sections, Arrives, Offs, crashVars, vars
<1>3. CASE TailAsserts
  <2>1. UNCHANGED vars /\ file' = file /\ stops' = stops /\ torn' = torn /\ run' = "line703"
    BY <1>3 DEF TailAsserts
  <2>2. MemoryInv'
    BY <1>0, <2>1 DEF MemoryInv, TypeOK, CallInv, StaleMatches, HeaderLengths, HasLength, Arrives, Offs, vars
  <2> QED
    BY <2>1, <2>2 DEF CrashInv, Runs
<1>4. CASE Kill
  <2>1. Bare' /\ file' = file /\ run' = "down" /\ mb' = file.mb /\ hdr' = file.hdr /\ bpn' = file.bpn
    BY <1>4 DEF Kill, Bare
  <2>2. /\ file.mb \in MasterBlockType /\ file.hdr \in [Headers -> HeaderType]
        /\ file.bpn \in [Blocks -> NodeType]
        /\ \A h \in Headers : HasLength(file.hdr[h])
    BY <1>0 DEF FileType, DiskHeader, HasLength
  <2>3. HeaderLengths'
    BY <2>1, <2>2 DEF HeaderLengths, HasLength
  <2>4. DOMAIN tab' = {} /\ tab' \in [DOMAIN tab' -> CachedFile]
    <3>1. tab' = [q \in {} |-> 0]
      BY <2>1 DEF Bare
    <3> QED
      BY <3>1
  <2>5. stale' \in Seq(Paths) /\ DOMAIN stale' = {}
    BY <2>1 DEF Bare
  <2>6. req' \in RequestType /\ cut' \in CutType /\ walk' \in BlockOrNone /\ pc' \in PCs
    BY <2>1 DEF Bare, NoReq, NoCut, RequestType, CutType, BlockOrNone, HeaderOrNone, PCs, InsertFlags
  <2>7. TypeOK'
    BY <2>1, <2>2, <2>4, <2>5, <2>6
  <2>8. CallInv'
    <3>1. req'.path = NoPath /\ req'.blk = INVLOC /\ req'.hdr = INVLOC /\ NoPath \notin Paths
      BY <2>1, RSCAssumption DEF Bare, NoReq
    <3>2. req' = NoReq /\ pc' = "idle" /\ walk' = INVLOC /\ cut' = NoCut
      BY <2>1 DEF Bare
    <3> QED
      BY <2>4, <3>1, <3>2 DEF CallInv
  <2>9. StaleMatches'
    BY <2>4, <2>5 DEF StaleMatches
  <2>10. SameSections(file, Sections)'
    BY <2>1 DEF SameSections, Sections
  <2>11. stops' \in 0 .. MaxStops /\ torn' \subseteq {"list", "cut", "header"}
    <3>1. stops \in 0 .. MaxStops /\ stops < MaxStops /\ stops' = stops + 1
      BY <1>4 DEF Kill, CrashInv
    <3>2. stops' \in 0 .. MaxStops
      BY <3>1, StopsAssumption
    <3> QED
      BY <1>4, <3>2 DEF Kill, CrashInv
  <2> QED
    BY <1>0, <2>1, <2>3, <2>7, <2>8, <2>9, <2>10, <2>11 DEF CrashInv, MemoryInv, Runs
<1>5. CASE Init_RSC_table_m
  <2>1. /\ run = "down" /\ Bare /\ SameSections(file, Sections)
        /\ UNCHANGED disk /\ pc' = pc /\ req' = req /\ walk' = walk /\ cut' = cut
        /\ file' = file /\ stops' = stops /\ torn' = torn
    BY <1>5 DEF Init_RSC_table_m, CrashInv
  <2>2. HeaderLengths' /\ SameSections(file, Sections)'
    BY <1>0, <2>1 DEF HeaderLengths, HasLength, SameSections, Sections, disk
  <2>3. CASE Readable
    <3> DEFINE r == ReadWholeDiskToRSCTable
    <3>1. tab' = r.tab /\ stale' = r.stale /\ run' = "up"
      BY <1>5, <2>3 DEF Init_RSC_table_m
    <3>2. /\ DOMAIN r.tab \subseteq Paths /\ r.tab \in [DOMAIN r.tab -> CachedFile]
          /\ \A p \in DOMAIN r.tab : r.tab[p].sn = "listed"
          /\ r.stale \in Seq(Paths)
          /\ Listed(r)
      BY <1>0, <2>3, TableRead
    <3> HIDE DEF r
    <3>3. TypeOK'
      BY <1>0, <2>1, <3>1, <3>2 DEF disk
    <3>4. StaleMatches'
      <4>1. {p \in DOMAIN tab' : tab'[p].sn = "listed"} = DOMAIN tab'
        BY <3>1, <3>2
      <4> QED
        BY <3>1, <3>2, <4>1 DEF StaleMatches, Listed
    <3>5. CallInv'
      <4>1. req'.path = NoPath /\ req'.blk = INVLOC /\ req'.hdr = INVLOC /\ NoPath \notin Paths
        BY <2>1, RSCAssumption DEF Bare, NoReq
      <4>2. req' = NoReq /\ pc' = "idle" /\ walk' = INVLOC /\ cut' = NoCut
        BY <2>1 DEF Bare
      <4> QED
        BY <3>1, <3>2, <4>1, <4>2 DEF CallInv
    <3> QED
      BY <1>0, <2>1, <2>2, <3>1, <3>3, <3>4, <3>5 DEF CrashInv, MemoryInv, Runs
  <2>4. CASE ~Readable
    <3>1. run' = "line195" /\ tab' = tab /\ stale' = stale
      BY <1>5, <2>4 DEF Init_RSC_table_m
    <3>2. TypeOK' /\ StaleMatches' /\ CallInv'
      BY <1>0, <2>1, <3>1 DEF StaleMatches, CallInv, Arrives, Offs, disk
    <3> QED
      BY <1>0, <2>1, <2>2, <3>1, <3>2 DEF CrashInv, MemoryInv, Runs
  <2> QED
    BY <2>3, <2>4
<1>6. CASE CrashNext
  BY <1>0, <1>1, <1>3, <1>4, <1>5, <1>6, WritesKnown
<1> QED
  BY <1>2, <1>6

LEMMA CrashInvAlways == CrashSpec => []CrashInv
<1>1. CrashInit => CrashInv
  BY CrashInvInit
<1>2. CrashInv /\ [CrashNext]_crashVars => CrashInv'
  BY CrashInvStep
<1> QED
  BY <1>1, <1>2, PTL DEF CrashSpec

\* Every variable has its type, whatever was interrupted and however often: a
\* start makes from any cache file that it can read a table whose locs name
\* headers and blocks, and whose offsets are those of blocks (RSC_m.c:180-245).
THEOREM CrashTypeOKAlways == CrashSpec => []CrashTypeOK
<1>1. CrashInv => CrashTypeOK
  BY DEF CrashInv, MemoryInv, CrashTypeOK, FileType, BytesType, Runs
<1> QED
  BY <1>1, CrashInvAlways, PTL

\* What the calls have done in memory is in the cache file once their writes are
\* made: no step of RSC.c or RSC_m.c changes a header or a block pointer that
\* it does not write (Write_cache_off).
THEOREM FileCompleteAlways == CrashSpec => []FileComplete
<1>1. CrashInv => FileComplete
  BY SectionsParts DEF CrashInv, FileComplete, SameSections, Sections
<1> QED
  BY <1>1, CrashInvAlways, PTL

=============================================================================
