---------------------------- MODULE RSCDataProof ----------------------------
(***************************************************************************)
(* RSCData for any files, texts of rsc.conf, sizes and lengths: the types, *)
(* that the format is complete, where the blocks are, which assertions can *)
(* fail and after what, and that reads of the cache return what the NAS    *)
(* has.                                                                    *)
(*                                                                         *)
(* The invariant is about places and bytes: block i begins at i times the  *)
(* block size of the cache file; while the program runs, a used block      *)
(* begins at a multiple of the RSCBLKSIZE it runs with, so that two used   *)
(* blocks are apart; and a cached block of a file has each byte of it that *)
(* the NAS has (Whole), past the cached length too, which is what lets a   *)
(* later Insert raise that length.                                         *)
(***************************************************************************)
EXTENDS RSCData, RSCInduction, SequenceTheorems

-----------------------------------------------------------------------------
(* Arithmetic.                                                             *)

LEMMA Division ==
  ASSUME NEW b \in Nat \ {0}, NEW x \in Int
  PROVE  /\ x \div b \in Int /\ x % b \in 0 .. b - 1
         /\ x = b * (x \div b) + (x % b)
<1> DEFINE q == x \div b
           r == x % b
           m == b * q
<1>1. q \in Int /\ r \in 0 .. b - 1
  OBVIOUS
<1>2. r = x - m
  BY SMTT(30)
<1>3. m \in Int
  BY <1>1
<1>4. x = m + r
  <2> HIDE DEF q, r, m
  <2> QED
    BY <1>1, <1>2, <1>3
<1> QED
  BY <1>1, <1>4

\* A multiple of b and less than b more than it
LEMMA Divided ==
  ASSUME NEW b \in Nat \ {0}, NEW q \in Int, NEW r \in 0 .. b - 1, NEW x \in Int,
         x = b * q + r
  PROVE  x \div b = q /\ x % b = r
<1>1. x % b = r
  BY SMTT(30)
<1>2. x \div b = q
  BY SMTT(30)
<1> QED
  BY <1>1, <1>2

LEMMA Multiple ==
  ASSUME NEW b \in Nat \ {0}, NEW i \in Int
  PROVE  (i * b) \div b = i /\ (i * b) % b = 0 /\ i * b \in Int
<1>1. (i * b) \div b = i
  OBVIOUS
<1>2. (i * b) % b = 0
  OBVIOUS
<1> QED
  BY <1>1, <1>2

\* Two multiples of b are b apart at least.
LEMMA MultiplesApart ==
  ASSUME NEW b \in Nat \ {0}, NEW x \in Int, NEW y \in Int, x % b = 0, y % b = 0, x < y
  PROVE  x + b <= y
<1>1. x = b * (x \div b) /\ y = b * (y \div b) /\ x \div b \in Int /\ y \div b \in Int
  BY Division
<1>2. x \div b < y \div b
  BY <1>1
<1>3. (x \div b) + 1 <= y \div b
  BY <1>1, <1>2
<1> QED
  BY <1>1, <1>3

\* The beginning of the block that x is in
LEMMA BlockBegin ==
  ASSUME NEW b \in Nat \ {0}, NEW x \in Nat
  PROVE  /\ x - (x % b) \in Nat /\ (x - (x % b)) % b = 0
         /\ x % b \in 0 .. b - 1 /\ x % b <= x
<1> DEFINE q == x \div b
           r == x % b
<1>1. q \in Int /\ r \in 0 .. b - 1 /\ x = b * q + r
  BY Division
<1>2. r <= x
  BY SMTT(30)
<1>3. b * q \in Int /\ b * q = q * b
  BY <1>1
<1>4. (q * b) % b = 0
  BY <1>1, Multiple
<1>5. x - r = q * b
  <2> HIDE DEF q, r
  <2> QED
    BY <1>1, <1>3
<1>6. (x - r) % b = 0
  BY <1>4, <1>5
<1>7. x - r \in Nat
  <2> HIDE DEF q, r
  <2> QED
    BY <1>1, <1>2
<1> QED
  BY <1>1, <1>2, <1>6, <1>7

LEMMA MultiplesOrdered ==
  ASSUME NEW b \in Nat \ {0}, NEW i \in Int, NEW j \in Int, i < j
  PROVE  i * b < j * b
  OBVIOUS

LEMMA LastAdded ==
  ASSUME NEW b \in Int, NEW n \in Int
  PROVE  b * (n - 1) + b = b * n /\ b * n = n * b
  OBVIOUS

-----------------------------------------------------------------------------
(* rsc.conf.                                                               *)

\* The powers of 2 from 2 on
Powers == {v \in Nat : \A S \in SUBSET Nat : 2 \in S /\ (\A x \in S : 2 * x \in S) => v \in S}

LEMMA PowersHalve ==
  ASSUME NEW v \in Int, v >= 2
  PROVE  v \in Powers <=> v = 2 \/ (v % 2 = 0 /\ v \div 2 \in Powers)
<1>1. 2 \in Powers /\ \A x \in Powers : x \in Nat /\ 2 * x \in Powers
  BY DEF Powers
<1>2. ASSUME v = 2 \/ (v % 2 = 0 /\ v \div 2 \in Powers)
      PROVE  v \in Powers
  <2>1. v % 2 = 0 => v = 2 * (v \div 2)
    OBVIOUS
  <2> QED
    BY <1>1, <1>2, <2>1
<1>3. ASSUME v \in Powers
      PROVE  v = 2 \/ (v % 2 = 0 /\ v \div 2 \in Powers)
  <2> DEFINE S == {2} \cup {2 * x : x \in Powers}
  <2>1. S \in SUBSET Nat /\ 2 \in S
    BY <1>1
  <2>2. ASSUME NEW x \in S
        PROVE  2 * x \in S
    <3>1. x \in Powers
      BY <1>1
    <3> QED
      BY <3>1
  <2>3. v \in S
    <3> HIDE DEF S
    <3> QED
      BY <1>3, <2>1, <2>2 DEF Powers
  <2>4. CASE v # 2
    <3>1. PICK x \in Powers : v = 2 * x
      BY <2>3, <2>4
    <3>2. x \in Nat
      BY <1>1
    <3>3. v % 2 = 0 /\ v \div 2 = x
      BY <3>1, <3>2
    <3> QED
      BY <3>1, <3>3
  <2> QED
    BY <2>4
<1> QED
  BY <1>2, <1>3

LEMMA PowersFromTwo == \A v \in Powers : v \in Nat /\ v >= 2
<1> DEFINE S == {n \in Nat : n >= 2}
<1>1. S \in SUBSET Nat /\ 2 \in S /\ \A x \in S : 2 * x \in S
  OBVIOUS
<1>2. \A v \in Powers : v \in S
  BY <1>1 DEF Powers
<1> QED
  BY <1>2

\* isexp2 (util.c) accepts no size below 2.
LEMMA Exp2 == ASSUME NEW v \in Int, isexp2[v] PROVE v >= 2
<1> DEFINE Halving(f) == f = [val \in Int |->
               IF val < 2 THEN FALSE ELSE val = 2 \/ (val % 2 = 0 /\ f[val \div 2])]
           g == [val \in Int |-> val \in Powers]
<1>1. ASSUME NEW val \in Int
      PROVE  g[val] = (IF val < 2 THEN FALSE ELSE val = 2 \/ (val % 2 = 0 /\ g[val \div 2]))
  <2>1. g[val] = (val \in Powers)
    OBVIOUS
  <2>2. val \div 2 \in Int
    OBVIOUS
  <2>3. g[val \div 2] = (val \div 2 \in Powers)
    BY <2>2
  <2>4. val < 2 => val \notin Powers
    BY PowersFromTwo
  <2>5. val >= 2 => (val \in Powers <=> val = 2 \/ (val % 2 = 0 /\ val \div 2 \in Powers))
    BY PowersHalve
  <2>6. val < 2 \/ val >= 2
    OBVIOUS
  <2> HIDE DEF g
  <2>7. CASE val < 2
    <3>1. (val \in Powers) = FALSE
      BY <2>4, <2>7
    <3>2. (IF val < 2 THEN FALSE ELSE val = 2 \/ (val % 2 = 0 /\ g[val \div 2])) = FALSE
      BY <2>7
    <3> QED
      BY <2>1, <3>1, <3>2, Zenon
  <2>8. CASE val >= 2
    <3>1. ~(val < 2)
      BY <2>8
    <3>2. (IF val < 2 THEN FALSE ELSE val = 2 \/ (val % 2 = 0 /\ g[val \div 2]))
            = (val = 2 \/ (val % 2 = 0 /\ g[val \div 2]))
      BY <3>1, Zenon
    <3>3. (val \in Powers) = (val = 2 \/ (val % 2 = 0 /\ val \div 2 \in Powers))
      BY <2>8, <2>5
    <3> QED
      BY <2>1, <2>3, <3>2, <3>3, Zenon
  <2> QED
    BY <2>6, <2>7, <2>8
<1>2. g = [val \in Int |-> g[val]]
  OBVIOUS
<1> HIDE DEF g
<1>3. Halving(g)
  BY <1>1, <1>2
<1>4. \E f : Halving(f)
  BY <1>3
<1>5. isexp2 = CHOOSE f : Halving(f)
  BY Zenon DEF isexp2
<1>6. Halving(isexp2)
  BY <1>4, <1>5
<1> QED
  BY <1>6


\* strtoint (util.c) gives the int that is the numeral modulo the number of ints;
\* it is the only one.
LEMMA StrToInt ==
  ASSUME NEW n \in Nat
  PROVE  /\ strtoint(n) \in -(IntMax + 1) .. IntMax
         /\ (strtoint(n) - n) % (2 * (IntMax + 1)) = 0
         /\ \A v \in -(IntMax + 1) .. IntMax :
              (v - n) % (2 * (IntMax + 1)) = 0 => v = strtoint(n)
<1> DEFINE h == IntMax + 1
           w == 2 * h
           x == n + h
           q == x \div w
           r == x % w
           s == r - h
<1>1. IntMax \in Nat /\ IntMax = h - 1 /\ h \in Nat \ {0} /\ w \in Nat \ {0} /\ w = h + h
  BY FormatAssumption
<1>2. x \in Int
  BY <1>1
<1>3. strtoint(n) = s
  <2>1. n + IntMax + 1 = x
    BY <1>1
  <2> QED
    BY <2>1, Zenon DEF strtoint
<1> HIDE DEF w
<1>4. q \in Int /\ r \in 0 .. w - 1 /\ x = w * q + r
  BY <1>1, <1>2, Division
<1>5. s \in -h .. h - 1
  <2> HIDE DEF q, r, h
  <2> QED
    BY <1>1, <1>4
<1>6. (s - n) % w = 0
  <2>1. w * q \in Int /\ w * q = q * w /\ (-q) * w = -(q * w)
    <3> HIDE DEF q
    <3> QED
      BY <1>1, <1>4
  <2>2. s - n = (-q) * w
    <3> HIDE DEF q, r, h
    <3> QED
      BY <1>1, <1>4, <2>1
  <2>3. -q \in Int
    BY <1>4
  <2> QED
    BY <1>1, <2>2, <2>3, Multiple
<1>7. s \in Int
  BY <1>5, <1>1
<1> HIDE DEF s, q, r, x
<1>8. ASSUME NEW v \in -h .. h - 1, (v - n) % w = 0
      PROVE  v = s
  <2> HIDE DEF h
  <2>1. v \in Int /\ v - n \in Int /\ s - n \in Int
    BY <1>1, <1>7
  <2>2. CASE v < s
    <3>1. v - n < s - n
      BY <2>1, <1>7, <2>2
    <3>2. (v - n) + w <= s - n
      BY <1>1, <1>6, <1>8, <2>1, <3>1, MultiplesApart
    <3> QED
      BY <1>1, <1>5, <1>7, <2>1, <3>2
  <2>3. CASE s < v
    <3>1. s - n < v - n
      BY <2>1, <1>7, <2>3
    <3>2. (s - n) + w <= v - n
      BY <1>1, <1>6, <1>8, <2>1, <3>1, MultiplesApart
    <3> QED
      BY <1>1, <1>5, <1>7, <2>1, <3>2
  <2> QED
    BY <1>7, <2>1, <2>2, <2>3
<1>9. -h = -(IntMax + 1) /\ h - 1 = IntMax
  BY <1>1
<1> QED
  BY <1>3, <1>5, <1>6, <1>8, <1>9 DEF w

TextLine == [key : STRING, val : Nat, hash : {"no", "before", "after"}]

ConfRecord == [cmfile : BOOLEAN, cmfile1 : BOOLEAN, numcache : Int,
               cblksize : Int, size : Int, size1 : Int]

\* One line of rsc.conf changes what it names, and nothing else.
LEMMA OneLine ==
  ASSUME NEW c \in ConfRecord, NEW line \in TextLine
  PROVE  /\ ConfWith(c, line) \in ConfRecord
         /\ ConfWith(c, line).cblksize =
              IF readentry(line, "CBLKSIZE") THEN strtoint(line.val) ELSE c.cblksize
         /\ ConfWith(c, line).size =
              IF readentry(line, "CACHESIZE") THEN strtoint(line.val) ELSE c.size
         /\ ConfWith(c, line).size1 =
              IF readentry(line, "1CACHESIZE") THEN strtoint(line.val) ELSE c.size1
<1>1. line.val \in Nat
  BY DEF TextLine
<1>2. strtoint(line.val) \in Int
  BY <1>1, StrToInt, FormatAssumption
<1>3. /\ [c EXCEPT !.cmfile = TRUE, !.numcache = @ + 1] \in ConfRecord
      /\ [c EXCEPT !.cmfile1 = TRUE, !.numcache = @ + 1] \in ConfRecord
  <2>1. \A d \in ConfRecord : d.numcache \in Int /\ d.numcache + 1 \in Int
    BY DEF ConfRecord
  <2>2. [c EXCEPT !.cmfile = TRUE] \in ConfRecord /\ [c EXCEPT !.cmfile1 = TRUE] \in ConfRecord
    BY Zenon DEF ConfRecord
  <2>3. \A d \in ConfRecord : [d EXCEPT !.numcache = @ + 1] \in ConfRecord
    BY <2>1, Zenon DEF ConfRecord
  <2>4. /\ [c EXCEPT !.cmfile = TRUE, !.numcache = @ + 1]
             = [[c EXCEPT !.cmfile = TRUE] EXCEPT !.numcache = @ + 1]
        /\ [c EXCEPT !.cmfile1 = TRUE, !.numcache = @ + 1]
             = [[c EXCEPT !.cmfile1 = TRUE] EXCEPT !.numcache = @ + 1]
    OBVIOUS
  <2> QED
    BY <2>2, <2>3, <2>4
<1>4. [c EXCEPT !.size = strtoint(line.val)] \in ConfRecord
  BY <1>2 DEF ConfRecord
<1>5. [c EXCEPT !.size1 = strtoint(line.val)] \in ConfRecord
  BY <1>2 DEF ConfRecord
<1>6. [c EXCEPT !.cblksize = strtoint(line.val)] \in ConfRecord
  BY <1>2 DEF ConfRecord
<1>7. ConfWith(c, line) \in ConfRecord
  BY <1>3, <1>4, <1>5, <1>6 DEF ConfWith
<1>8. ConfWith(c, line).cblksize =
        IF readentry(line, "CBLKSIZE") THEN strtoint(line.val) ELSE c.cblksize
  BY <1>2 DEF ConfWith, readentry, ConfRecord
<1>9. ConfWith(c, line).size =
        IF readentry(line, "CACHESIZE") THEN strtoint(line.val) ELSE c.size
  BY <1>2 DEF ConfWith, readentry, ConfRecord
<1>10. ConfWith(c, line).size1 =
        IF readentry(line, "1CACHESIZE") THEN strtoint(line.val) ELSE c.size1
  BY <1>2 DEF ConfWith, readentry, ConfRecord
<1> QED
  BY <1>7, <1>8, <1>9, <1>10

\* The loop of readrscconf after up to m lines
Reading(lines, m, f) ==
  f = [n \in 0 .. m |-> IF n = 0 THEN Defaults ELSE ConfWith(f[n - 1], lines[n])]

LEMMA ReadingExists ==
  ASSUME NEW lines
  PROVE  \A m \in Nat : \E f : Reading(lines, m, f)
<1> DEFINE S == {m \in Nat : \E f : Reading(lines, m, f)}
<1>1. 0 \in S
  <2>1. Reading(lines, 0, [n \in 0 .. 0 |-> Defaults])
    BY DEF Reading
  <2> QED
    BY <2>1
<1>2. ASSUME NEW m \in Nat, m \in S
      PROVE  m + 1 \in S
  <2>1. PICK f : Reading(lines, m, f)
    BY <1>2
  <2> DEFINE g == [n \in 0 .. m + 1 |-> IF n = m + 1 THEN ConfWith(f[m], lines[m + 1]) ELSE f[n]]
  <2>2. ASSUME NEW n \in 0 .. m + 1
        PROVE  g[n] = IF n = 0 THEN Defaults ELSE ConfWith(g[n - 1], lines[n])
    <3>1. CASE n = m + 1
      <4>1. n # 0 /\ n - 1 = m /\ m \in 0 .. m + 1 /\ m # m + 1
        BY <3>1
      <4>2. g[n] = ConfWith(f[m], lines[n]) /\ g[m] = f[m]
        BY <3>1, <4>1
      <4> HIDE DEF g
      <4> QED
        BY <4>1, <4>2
    <3>2. CASE n # m + 1
      <4>1. n \in 0 .. m /\ (n # 0 => n - 1 \in 0 .. m + 1 /\ n - 1 # m + 1)
        BY <3>2
      <4>2. g[n] = f[n] /\ (n # 0 => g[n - 1] = f[n - 1])
        BY <3>2, <4>1
      <4>3. f[n] = IF n = 0 THEN Defaults ELSE ConfWith(f[n - 1], lines[n])
        BY <2>1, <4>1 DEF Reading
      <4> HIDE DEF g
      <4> QED
        BY <4>2, <4>3
    <3> QED
      BY <3>1, <3>2
  <2>3. g = [n \in 0 .. m + 1 |-> g[n]]
    OBVIOUS
  <2> HIDE DEF g
  <2>4. Reading(lines, m + 1, g)
    BY <2>2, <2>3 DEF Reading
  <2> QED
    BY <2>4
<1> HIDE DEF S
<1>3. Nat \subseteq S
  BY <1>1, <1>2, NatSetInduction
<1> QED
  BY <1>3 DEF S

\* v is the int of the last of the lines 1 to n that give key, 0 if none does.
Told(lines, n, key, v) ==
  \/ v = 0 /\ \A j \in 1 .. n : ~readentry(lines[j], key)
  \/ \E k \in 1 .. n :
       /\ readentry(lines[k], key) /\ v = strtoint(lines[k].val)
       /\ \A j \in k + 1 .. n : ~readentry(lines[j], key)

LEMMA ToldNext ==
  ASSUME NEW lines, NEW n \in Nat, NEW key, NEW v, Told(lines, n, key, v),
         NEW w, w = IF readentry(lines[n + 1], key) THEN strtoint(lines[n + 1].val) ELSE v
  PROVE  Told(lines, n + 1, key, w)
<1>1. CASE readentry(lines[n + 1], key)
  <2>1. n + 1 \in 1 .. n + 1 /\ (n + 1) + 1 .. n + 1 = {}
    OBVIOUS
  <2>2. w = strtoint(lines[n + 1].val)
    BY <1>1
  <2> QED
    BY <1>1, <2>1, <2>2 DEF Told
<1>2. CASE ~readentry(lines[n + 1], key)
  <2>1. w = v
    BY <1>2
  <2>2. \A j \in 1 .. n + 1 : j \in 1 .. n \/ j = n + 1
    OBVIOUS
  <2>3. CASE v = 0 /\ \A j \in 1 .. n : ~readentry(lines[j], key)
    BY <1>2, <2>1, <2>2, <2>3 DEF Told
  <2>4. CASE \E k \in 1 .. n :
               /\ readentry(lines[k], key) /\ v = strtoint(lines[k].val)
               /\ \A j \in k + 1 .. n : ~readentry(lines[j], key)
    <3>1. PICK k \in 1 .. n :
               /\ readentry(lines[k], key) /\ v = strtoint(lines[k].val)
               /\ \A j \in k + 1 .. n : ~readentry(lines[j], key)
      BY <2>4
    <3>2. k \in 1 .. n + 1 /\ \A j \in k + 1 .. n + 1 : j \in k + 1 .. n \/ j = n + 1
      OBVIOUS
    <3>3. \A j \in k + 1 .. n + 1 : ~readentry(lines[j], key)
      BY <1>2, <3>1, <3>2
    <3> QED
      BY <2>1, <3>1, <3>2, <3>3 DEF Told
  <2> QED
    BY <2>3, <2>4 DEF Told
<1> QED
  BY <1>1, <1>2

\* The loop keeps, of each key, what its last line says.
LEMMA LinesRead ==
  ASSUME NEW lines \in Seq(TextLine), NEW f, Reading(lines, Len(lines), f)
  PROVE  LET c == f[Len(lines)] IN
         /\ c \in ConfRecord
         /\ Told(lines, Len(lines), "CBLKSIZE", c.cblksize)
         /\ Told(lines, Len(lines), "CACHESIZE", c.size)
         /\ Told(lines, Len(lines), "1CACHESIZE", c.size1)
<1> DEFINE Right(n) == /\ f[n] \in ConfRecord
                       /\ Told(lines, n, "CBLKSIZE", f[n].cblksize)
                       /\ Told(lines, n, "CACHESIZE", f[n].size)
                       /\ Told(lines, n, "1CACHESIZE", f[n].size1)
           S == {n \in Nat : n <= Len(lines) => Right(n)}
<1>1. 0 \in S
  <2>1. f[0] = Defaults
    BY DEF Reading
  <2>2. Defaults \in ConfRecord /\ Defaults.cblksize = 0 /\ Defaults.size = 0
          /\ Defaults.size1 = 0
    BY DEF Defaults, ConfRecord
  <2>3. Told(lines, 0, "CBLKSIZE", 0) /\ Told(lines, 0, "CACHESIZE", 0)
          /\ Told(lines, 0, "1CACHESIZE", 0)
    BY DEF Told
  <2> QED
    BY <2>1, <2>2, <2>3
<1>2. ASSUME NEW n \in Nat, n \in S
      PROVE  n + 1 \in S
  <2> SUFFICES ASSUME n + 1 <= Len(lines) PROVE Right(n + 1)
    OBVIOUS
  <2>1. Right(n)
    BY <1>2
  <2> HIDE DEF Right
  <2>2. n + 1 \in 1 .. Len(lines) /\ (n + 1) - 1 = n /\ n + 1 # 0 /\ n + 1 \in 0 .. Len(lines)
    OBVIOUS
  <2>3. lines[n + 1] \in TextLine
    BY <2>2
  <2>4. f[n + 1] = ConfWith(f[n], lines[n + 1])
    BY <2>2 DEF Reading
  <2>5. /\ f[n + 1] \in ConfRecord
        /\ f[n + 1].cblksize = IF readentry(lines[n + 1], "CBLKSIZE")
                               THEN strtoint(lines[n + 1].val) ELSE f[n].cblksize
        /\ f[n + 1].size = IF readentry(lines[n + 1], "CACHESIZE")
                           THEN strtoint(lines[n + 1].val) ELSE f[n].size
        /\ f[n + 1].size1 = IF readentry(lines[n + 1], "1CACHESIZE")
                            THEN strtoint(lines[n + 1].val) ELSE f[n].size1
    BY <2>1, <2>3, <2>4, OneLine DEF Right
  <2>6. Told(lines, n + 1, "CBLKSIZE", f[n + 1].cblksize)
    BY <2>1, <2>5, ToldNext DEF Right
  <2>7. Told(lines, n + 1, "CACHESIZE", f[n + 1].size)
    BY <2>1, <2>5, ToldNext DEF Right
  <2>8. Told(lines, n + 1, "1CACHESIZE", f[n + 1].size1)
    BY <2>1, <2>5, ToldNext DEF Right
  <2> QED
    BY <2>5, <2>6, <2>7, <2>8 DEF Right
<1> HIDE DEF S
<1>3. Nat \subseteq S
  BY <1>1, <1>2, NatSetInduction
<1>4. Len(lines) \in Nat
  OBVIOUS
<1>5. Len(lines) \in S
  BY <1>3, <1>4
<1>6. Right(Len(lines))
  BY <1>4, <1>5 DEF S
<1> QED
  BY <1>6

\* readLine returns the lines but for a last one that the end of the file cuts off.
LEMMA LinesOf ==
  ASSUME NEW text \in Text
  PROVE  /\ text.lines \in Seq(TextLine) /\ text.ended \in BOOLEAN
         /\ readLines(text) \in Seq(TextLine)
         /\ Len(readLines(text)) \in Nat
         /\ \/ readLines(text) = text.lines
               /\ (text.lines = <<>> \/ text.ended \/ text.lines[Len(text.lines)].hash # "no")
            \/ /\ text.lines # <<>> /\ ~text.ended
               /\ text.lines[Len(text.lines)].hash = "no"
               /\ Len(text.lines) \in Nat \ {0}
               /\ Len(readLines(text)) = Len(text.lines) - 1
               /\ \A j \in 1 .. Len(text.lines) - 1 : readLines(text)[j] = text.lines[j]
<1> DEFINE lines == text.lines
<1>1. lines \in Seq(TextLine) /\ text.ended \in BOOLEAN
  BY DEF Text, TextLine
<1> HIDE DEF lines
<1>2. Len(lines) \in Nat
  BY <1>1
<1>3. readLines(text) = IF lines = <<>> \/ text.ended \/ lines[Len(lines)].hash # "no"
                        THEN lines ELSE SubSeq(lines, 1, Len(lines) - 1)
  BY DEF readLines, Front, lines
<1>4. CASE lines = <<>> \/ text.ended \/ lines[Len(lines)].hash # "no"
  BY <1>1, <1>2, <1>3, <1>4 DEF lines
<1>5. CASE ~(lines = <<>> \/ text.ended \/ lines[Len(lines)].hash # "no")
  <2>1. Len(lines) # 0
    BY <1>1, <1>5, EmptySeq
  <2>2. readLines(text) = SubSeq(lines, 1, Len(lines) - 1)
    BY <1>3, <1>5
  <2>3. /\ SubSeq(lines, 1, Len(lines) - 1) \in Seq(TextLine)
        /\ Len(SubSeq(lines, 1, Len(lines) - 1)) = Len(lines) - 1
        /\ \A j \in 1 .. Len(lines) - 1 : SubSeq(lines, 1, Len(lines) - 1)[j] = lines[j]
    <3> DEFINE m == Len(lines) - 1
    <3>1. m \in Int /\ 1 \in Int /\ m \in Nat /\ \A i \in 1 .. m : lines[i] \in TextLine
      BY <1>1, <1>2, <2>1
    <3>2. (IF 1 <= m THEN m - 1 + 1 ELSE 0) = m /\ m - 1 + 1 = m
            /\ \A j \in 1 .. m : 1 + j - 1 = j
      <4> HIDE DEF m
      <4> QED
        BY <3>1
    <3> HIDE DEF m
    <3>3. SubSeq(lines, 1, m) \in Seq(TextLine) /\ Len(SubSeq(lines, 1, m)) = m
      BY <3>1, <3>2, SubSeqProperties
    <3>4. \A j \in 1 .. m : SubSeq(lines, 1, m)[j] = lines[j]
      <4>1. \A j \in 1 .. m - 1 + 1 : SubSeq(lines, 1, m)[j] = lines[1 + j - 1]
        BY <3>1, SubSeqProperties
      <4> QED
        BY <3>2, <4>1
    <3> QED
      BY <3>3, <3>4 DEF m
  <2>4. Len(lines) - 1 \in Nat
    BY <1>2, <2>1
  <2> QED
    BY <1>1, <1>2, <1>5, <2>1, <2>2, <2>3, <2>4 DEF lines
<1> QED
  BY <1>4, <1>5

LEMMA ConfRead ==
  ASSUME NEW text \in Text
  PROVE  LET c == readrscconf(text)
             lines == readLines(text) IN
         /\ c \in ConfRecord
         /\ Told(lines, Len(lines), "CBLKSIZE", c.cblksize)
         /\ Told(lines, Len(lines), "CACHESIZE", c.size)
         /\ Told(lines, Len(lines), "1CACHESIZE", c.size1)
<1> DEFINE lines == readLines(text)
           g == CHOOSE f : Reading(lines, Len(lines), f)
<1>1. lines \in Seq(TextLine) /\ Len(lines) \in Nat
  BY LinesOf
<1>2. readrscconf(text) = g[Len(lines)]
  BY Zenon DEF readrscconf, Reading
<1>3. Reading(lines, Len(lines), g)
  BY <1>1, ReadingExists
<1> HIDE DEF g, lines
<1>4. LET c == g[Len(lines)] IN
         /\ c \in ConfRecord
         /\ Told(lines, Len(lines), "CBLKSIZE", c.cblksize)
         /\ Told(lines, Len(lines), "CACHESIZE", c.size)
         /\ Told(lines, Len(lines), "1CACHESIZE", c.size1)
  BY <1>1, <1>3, LinesRead
<1> QED
  BY <1>2, <1>4 DEF lines

\* What the loop keeps of a key is what the reference says.
LEMMA ToldValue ==
  ASSUME NEW text \in Text, NEW key, NEW v,
         Told(readLines(text), Len(readLines(text)), key, v)
  PROVE  v = Value(text, key)
<1> DEFINE lines == readLines(text)
           n == Len(text.lines)
           whole == IF text.ended \/ (n > 0 /\ text.lines[n].hash = "after") THEN n ELSE n - 1
           at == {k \in 1 .. whole : text.lines[k].key = key /\ text.lines[k].hash # "before"}
           int == {x \in -(IntMax + 1) .. IntMax :
                at # {} /\ (x - text.lines[Max(at)].val) % (2 * (IntMax + 1)) = 0}
<1>1. Value(text, key) = IF at = {} THEN 0 ELSE CHOOSE x \in int : TRUE
  BY DEF Value
<1>2. at = {k \in 1 .. Len(lines) : readentry(lines[k], key)}
  <2>1. n \in Nat /\ (text.lines = <<>> => n = 0)
    BY LinesOf
  <2>2. CASE readLines(text) = text.lines
               /\ (text.lines = <<>> \/ text.ended \/ text.lines[n].hash # "no")
    <3>1. ASSUME NEW k, k \in 1 .. n, text.lines[k].hash # "before"
          PROVE  k \in 1 .. whole
      <4>1. CASE text.ended \/ (n > 0 /\ text.lines[n].hash = "after")
        BY <3>1, <4>1
      <4>2. CASE ~(text.ended \/ (n > 0 /\ text.lines[n].hash = "after"))
        <5>1. n > 0
          BY <2>1, <3>1
        <5>2. text.lines \in Seq(TextLine) /\ text.lines[n] \in TextLine
          BY <2>1, <5>1, LinesOf
        <5>3. text.lines[n].hash = "before"
          BY <2>1, <2>2, <4>2, <5>1, <5>2 DEF TextLine
        <5>4. k # n
          BY <3>1, <5>3
        <5> QED
          BY <2>1, <3>1, <4>2, <5>4
      <4> QED
        BY <4>1, <4>2
    <3>2. whole <= n /\ whole \in Int
      BY <2>1
    <3>3. \A k : k \in at <=> k \in 1 .. n /\ readentry(text.lines[k], key)
      <4> HIDE DEF whole
      <4> QED
        BY <2>1, <3>1, <3>2 DEF readentry
    <3> QED
      BY <2>2, <3>3
  <2>3. CASE /\ text.lines # <<>> /\ ~text.ended
             /\ text.lines[n].hash = "no"
             /\ n \in Nat \ {0}
             /\ Len(lines) = n - 1
             /\ \A j \in 1 .. n - 1 : lines[j] = text.lines[j]
    <3>1. whole = n - 1
      BY <2>3
    <3>2. \A k : k \in at <=> k \in 1 .. n - 1 /\ readentry(text.lines[k], key)
      BY <3>1 DEF readentry
    <3> HIDE DEF at, lines
    <3>3. \A k : k \in at <=> k \in 1 .. Len(lines) /\ readentry(lines[k], key)
      BY <2>3, <3>2
    <3> QED
      BY <3>3 DEF at
  <2> QED
    BY <2>2, <2>3, LinesOf
<1>3. CASE \A j \in 1 .. Len(lines) : ~readentry(lines[j], key)
  <2>1. at = {}
    BY <1>2, <1>3
  <2>2. v = 0
    BY <1>3 DEF Told
  <2> HIDE DEF at
  <2> QED
    BY <1>1, <2>1, <2>2
<1>4. CASE \E k \in 1 .. Len(lines) :
             /\ readentry(lines[k], key) /\ v = strtoint(lines[k].val)
             /\ \A j \in k + 1 .. Len(lines) : ~readentry(lines[j], key)
  <2>1. PICK k \in 1 .. Len(lines) :
             /\ readentry(lines[k], key) /\ v = strtoint(lines[k].val)
             /\ \A j \in k + 1 .. Len(lines) : ~readentry(lines[j], key)
    BY <1>4
  <2>2. Len(lines) \in Nat /\ lines[k] = text.lines[k]
    BY LinesOf
  <2>3. k \in at /\ \A j \in at : k >= j
    <3> HIDE DEF at, lines
    <3> QED
      BY <1>2, <2>1, <2>2
  <2>4. at \subseteq Int
    OBVIOUS
  <2>5. Max(at) = k
    <3> HIDE DEF at
    <3>1. \A j \in at : (\A i \in at : j >= i) => j = k
      BY <2>3, <2>4
    <3> QED
      BY <2>3, <3>1 DEF Max
  <2>6. text.lines[k].val \in Nat
    <3>1. lines \in Seq(TextLine)
      BY LinesOf
    <3>2. lines[k] \in TextLine
      BY <3>1
    <3> QED
      BY <2>2, <3>2 DEF TextLine
  <2>7. int = {v}
    <3>1. int = {x \in -(IntMax + 1) .. IntMax :
                  (x - text.lines[k].val) % (2 * (IntMax + 1)) = 0}
      <4> HIDE DEF at
      <4> QED
        BY <2>3, <2>5
    <3>2. v = strtoint(text.lines[k].val)
      BY <2>1, <2>2
    <3> HIDE DEF int
    <3> QED
      BY <2>6, <3>1, <3>2, StrToInt
  <2> HIDE DEF at, int
  <2> QED
    BY <1>1, <2>3, <2>7
<1> QED
  BY <1>3, <1>4 DEF Told

\* readrscconf (util.c) reads every text as the reference does.
THEOREM ConfAsReferenceAlways == Spec => []ConfAsReference
<1>1. ConfAsReference
  <2>1. ASSUME NEW text \in Texts
        PROVE  LET c == readrscconf(text) IN
               /\ c.cblksize = Value(text, "CBLKSIZE")
               /\ c.size = Value(text, "CACHESIZE")
               /\ c.size1 = Value(text, "1CACHESIZE")
    <3> DEFINE c == readrscconf(text)
    <3>1. text \in Text
      BY DataAssumption
    <3>2. LET lines == readLines(text) IN
          /\ Told(lines, Len(lines), "CBLKSIZE", c.cblksize)
          /\ Told(lines, Len(lines), "CACHESIZE", c.size)
          /\ Told(lines, Len(lines), "1CACHESIZE", c.size1)
      BY <3>1, ConfRead
    <3> HIDE DEF c
    <3>4. c.cblksize = Value(text, "CBLKSIZE")
      BY <3>1, <3>2, ToldValue
    <3>5. c.size = Value(text, "CACHESIZE")
      BY <3>1, <3>2, ToldValue
    <3>6. c.size1 = Value(text, "1CACHESIZE")
      BY <3>1, <3>2, ToldValue
    <3> QED
      BY <3>4, <3>5, <3>6 DEF c
  <2> QED
    BY <2>1 DEF ConfAsReference
<1> QED
  BY <1>1, PTL

-----------------------------------------------------------------------------
(* The free nodes in their order.                                          *)

LEMMA SeqSet ==
  ASSUME NEW S, NEW s \in Seq(S)
  PROVE  ToSet(s) = {s[k] : k \in 1 .. Len(s)} /\ ToSet(s) \subseteq S /\ DOMAIN s = 1 .. Len(s)
  BY DEF ToSet

LEMMA TakeFree ==
  ASSUME NEW S, NEW s \in Seq(S), IsInjective(s), s # <<>>
  PROVE  /\ Head(s) \in ToSet(s) /\ Head(s) \in S
         /\ Tail(s) \in Seq(S) /\ IsInjective(Tail(s))
         /\ ToSet(Tail(s)) = ToSet(s) \ {Head(s)}
<1> DEFINE t == Tail(s)
<1>1. /\ Head(s) \in S /\ t \in Seq(S) /\ Len(t) = Len(s) - 1
      /\ \A i \in 1 .. Len(t) : t[i] = s[i + 1]
  BY HeadTailProperties
<1>2. Len(s) \in Nat \ {0} /\ Head(s) = s[1]
  BY EmptySeq
<1>3. \A i, j \in 1 .. Len(s) : s[i] = s[j] => i = j
  BY DEF IsInjective
<1> HIDE DEF t
<1>4. IsInjective(t)
  <2>1. ASSUME NEW i \in 1 .. Len(t), NEW j \in 1 .. Len(t), t[i] = t[j]
        PROVE  i = j
    <3>1. s[i + 1] = s[j + 1] /\ i + 1 \in 1 .. Len(s) /\ j + 1 \in 1 .. Len(s)
      BY <1>1, <1>2, <2>1
    <3>2. i + 1 = j + 1
      BY <1>3, <3>1
    <3> QED
      BY <3>2
  <2>2. DOMAIN t = 1 .. Len(t)
    BY <1>1
  <2> QED
    BY <2>1, <2>2 DEF IsInjective
<1>5. ToSet(t) = ToSet(s) \ {Head(s)}
  <2>1. ToSet(t) = {t[k] : k \in 1 .. Len(t)} /\ ToSet(s) = {s[k] : k \in 1 .. Len(s)}
    BY <1>1, SeqSet
  <2>2. ASSUME NEW k \in 1 .. Len(t)
        PROVE  t[k] \in ToSet(s) /\ t[k] # Head(s)
    <3>1. t[k] = s[k + 1] /\ k + 1 \in 1 .. Len(s) /\ k + 1 # 1 /\ 1 \in 1 .. Len(s)
      BY <1>1, <1>2
    <3> QED
      BY <1>2, <1>3, <2>1, <3>1
  <2>3. ASSUME NEW k \in 1 .. Len(s), s[k] # Head(s)
        PROVE  s[k] \in ToSet(t)
    <3>1. k # 1
      BY <1>2, <2>3
    <3>2. k - 1 \in 1 .. Len(t) /\ (k - 1) + 1 = k
      BY <1>1, <1>2, <3>1
    <3>3. t[k - 1] = s[k]
      BY <1>1, <3>2
    <3> QED
      BY <2>1, <3>2, <3>3
  <2> QED
    BY <2>1, <2>2, <2>3
<1>6. Head(s) \in ToSet(s)
  <2>1. 1 \in 1 .. Len(s)
    BY <1>2
  <2> QED
    BY <1>2, <2>1, SeqSet
<1> QED
  BY <1>1, <1>4, <1>5, <1>6 DEF t

\* The nodes of a finite set in any order
LEMMA InOrder ==
  ASSUME NEW S, IsFiniteSet(S), NEW order \in SetToSeqs(S)
  PROVE  order \in Seq(S) /\ IsInjective(order) /\ ToSet(order) = S
<1> DEFINE n == Cardinality(S)
<1>1. n \in Nat
  BY FS_CardinalityType
<1>2. order \in [1 .. n -> S] /\ \A i, j \in 1 .. n : i # j => order[i] # order[j]
  BY DEF SetToSeqs
<1> HIDE DEF n
<1>3. order \in Injection(1 .. n, S)
  BY <1>2 DEF Injection, IsInjective
<1>4. Cardinality(1 .. n) = n
  <2>1. Cardinality(1 .. n) = IF 1 > n THEN 0 ELSE n - 1 + 1
    BY <1>1, FS_Interval
  <2> QED
    BY <1>1, <2>1
<1>5. order \in Surjection(1 .. n, S)
  BY <1>3, <1>4, FS_Injection DEF n
<1>6. order \in Seq(S)
  BY <1>1, <1>2
<1>7. ToSet(order) = S
  BY <1>2, <1>5 DEF Surjection, ToSet
<1> QED
  BY <1>3, <1>6, <1>7 DEF Injection

\* are put behind the free ones.
LEMMA PutFree ==
  ASSUME NEW S, NEW s \in Seq(S), NEW t \in Seq(S), IsInjective(s), IsInjective(t),
         ToSet(s) \cap ToSet(t) = {}
  PROVE  s \o t \in Seq(S) /\ IsInjective(s \o t) /\ ToSet(s \o t) = ToSet(s) \cup ToSet(t)
<1> DEFINE c == s \o t
<1>1. /\ c \in Seq(S) /\ Len(c) = Len(s) + Len(t)
      /\ \A i \in 1 .. Len(s) + Len(t) : c[i] = IF i <= Len(s) THEN s[i] ELSE t[i - Len(s)]
  BY ConcatProperties
<1>2. Len(s) \in Nat /\ Len(t) \in Nat
  OBVIOUS
<1>3. /\ ToSet(s) = {s[k] : k \in 1 .. Len(s)} /\ ToSet(t) = {t[k] : k \in 1 .. Len(t)}
      /\ ToSet(c) = {c[k] : k \in 1 .. Len(c)}
      /\ DOMAIN s = 1 .. Len(s) /\ DOMAIN t = 1 .. Len(t) /\ DOMAIN c = 1 .. Len(c)
  <2>1. c \in Seq(S)
    BY <1>1
  <2> HIDE DEF c
  <2> QED
    BY <2>1, SeqSet
<1> HIDE DEF c
<1>4. ASSUME NEW i \in 1 .. Len(c)
      PROVE  \/ i \in 1 .. Len(s) /\ c[i] = s[i]
             \/ i - Len(s) \in 1 .. Len(t) /\ c[i] = t[i - Len(s)]
  BY <1>1, <1>2
<1>5. IsInjective(c)
  <2>1. ASSUME NEW i \in 1 .. Len(c), NEW j \in 1 .. Len(c), c[i] = c[j]
        PROVE  i = j
    <3>1. CASE i \in 1 .. Len(s) /\ j \in 1 .. Len(s)
      <4>1. c[i] = s[i] /\ c[j] = s[j]
        BY <1>1, <1>2, <3>1
      <4> QED
        BY <1>3, <2>1, <3>1, <4>1 DEF IsInjective
    <3>2. CASE i \notin 1 .. Len(s) /\ j \notin 1 .. Len(s)
      <4>1. /\ i - Len(s) \in 1 .. Len(t) /\ c[i] = t[i - Len(s)]
            /\ j - Len(s) \in 1 .. Len(t) /\ c[j] = t[j - Len(s)]
        BY <1>4, <3>2
      <4>2. i - Len(s) = j - Len(s)
        BY <1>3, <2>1, <4>1 DEF IsInjective
      <4> QED
        BY <1>2, <4>2
    <3>3. CASE i \in 1 .. Len(s) /\ j \notin 1 .. Len(s)
      <4>1. c[i] = s[i] /\ j - Len(s) \in 1 .. Len(t) /\ c[j] = t[j - Len(s)]
        BY <1>1, <1>2, <1>4, <3>3
      <4> QED
        BY <1>3, <2>1, <3>3, <4>1
    <3>4. CASE i \notin 1 .. Len(s) /\ j \in 1 .. Len(s)
      <4>1. c[j] = s[j] /\ i - Len(s) \in 1 .. Len(t) /\ c[i] = t[i - Len(s)]
        BY <1>1, <1>2, <1>4, <3>4
      <4> QED
        BY <1>3, <2>1, <3>4, <4>1
    <3> QED
      BY <3>1, <3>2, <3>3, <3>4
  <2> QED
    BY <1>3, <2>1 DEF IsInjective
<1>6. ToSet(c) = ToSet(s) \cup ToSet(t)
  <2>1. ASSUME NEW k \in 1 .. Len(s)
        PROVE  s[k] \in ToSet(c)
    <3>1. k \in 1 .. Len(c) /\ c[k] = s[k]
      BY <1>1, <1>2
    <3> QED
      BY <1>3, <3>1
  <2>2. ASSUME NEW k \in 1 .. Len(t)
        PROVE  t[k] \in ToSet(c)
    <3>1. k + Len(s) \in 1 .. Len(c) /\ (k + Len(s)) - Len(s) = k /\ ~(k + Len(s) <= Len(s))
      BY <1>1, <1>2
    <3>2. c[k + Len(s)] = t[k]
      BY <1>1, <3>1
    <3> QED
      BY <1>3, <3>1, <3>2
  <2>3. \A i \in 1 .. Len(c) : c[i] \in ToSet(s) \cup ToSet(t)
    BY <1>3, <1>4
  <2> QED
    BY <1>3, <2>1, <2>2, <2>3
<1> QED
  BY <1>1, <1>5, <1>6 DEF c

-----------------------------------------------------------------------------
(* The invariant.                                                          *)

Block == [path : Paths, off : Nat]

\* The cache file that has the master block and sizes of f and these nodes, ...
With(f, node, free, len, size, bytes) ==
  [mb |-> f.mb, size |-> size, second |-> f.second, ncblk1 |-> f.ncblk1, ok |-> f.ok,
   node |-> node, free |-> free, len |-> len, bytes |-> bytes]

IsFile(f) == f = With(f, f.node, f.free, f.len, f.size, f.bytes)

\* The sections are where create_cmfile_with_data puts them for the nodes there
\* are, and the nodes hold blocks of files.
Shape(f) ==
  /\ f.mb.cblksize \in Nat \ {0}
  /\ \E n \in Nat, nf \in Nat :
       DOMAIN f.node = 0 .. n - 1 /\ f.mb = Layout(n, nf, f.mb.cblksize)
  /\ f.node \in [DOMAIN f.node -> Block \cup {None}]
  /\ f.free \in Seq(DOMAIN f.node)
  /\ f.len \in [Paths -> -1 .. MaxLen]

\* A node is free or used, for a block of a cached file that no other has.
FreeOK(f) ==
  /\ IsInjective(f.free)
  /\ ToSet(f.free) = {i \in DOMAIN f.node : f.node[i] = None}
  /\ \A i \in DOMAIN f.node : f.node[i] # None => f.len[f.node[i].path] # -1
  /\ \A i, j \in DOMAIN f.node : f.node[i] # None /\ f.node[i] = f.node[j] => i = j

Complete(f) ==
  /\ f.size \in Int /\ f.ok \in BOOLEAN
  /\ f.ok = TRUE /\ f.ncblk1 = 0 => f.size >= f.mb.capacity

\* Blocks of b bytes
Offsets(f, b) == \A i \in DOMAIN f.node : f.node[i] # None => f.node[i].off % b = 0
Aligned(f, b) ==
  /\ Offsets(f, b)
  /\ \A i \in DOMAIN f.node : f.node[i] # None => (i * f.mb.cblksize) % b = 0

\* The bytes that the NAS, whose lengths are l, has of the cached blocks of p
Whole(f, l, p, b) ==
  \A i \in DOMAIN f.node : \A k \in 0 .. b - 1 :
    f.node[i] # None /\ f.node[i].path = p /\ f.node[i].off + k < l[p] =>
      /\ (i * f.mb.cblksize) + k \in DOMAIN f.bytes
      /\ f.bytes[(i * f.mb.cblksize) + k] = <<p, f.node[i].off + k>>

\* The cached length of p is at or past the beginning of each block of p that is
\* cached, and past its end or the file's.
Reached(f, l, p, b) ==
  \A i \in DOMAIN f.node :
    f.node[i] # None /\ f.node[i].path = p =>
      /\ f.node[i].off <= f.len[p]
      /\ f.node[i].off + b <= f.len[p] \/ l[p] <= f.len[p]

\* The size of the blocks of the files that are not odd
Current(b) == IF run = "up" THEN b = blksz ELSE ran = {b}

Stops == {"line58", "line195", "line191", "line350", "line83", "line116"}

\* The assertions that stop a call half way
Halfway == {"line83", "line116"}

DTypes ==
  /\ nas \in [Paths -> 0 .. MaxLen] /\ odd \in [Paths -> {"no", "absent", "other"}]
  /\ run \in {"down", "up"} \cup Stops

FileInv ==
  /\ IsFile(cf) /\ Shape(cf) /\ Complete(cf)
  /\ \A p \in Paths : cf.len[p] <= nas[p]
  /\ run # "line116" => FreeOK(cf)
  /\ ran \subseteq Nat
  /\ ran = {} => \A i \in DOMAIN cf.node : cf.node[i] = None
  /\ ran \subseteq {cf.mb.cblksize} => Offsets(cf, cf.mb.cblksize)
  /\ run = "up" => blksz \in ran /\ blksz # 0 /\ Aligned(cf, blksz)
  /\ run \in Stops => ~(ran \subseteq {cf.mb.cblksize})
  /\ \A p \in Paths, b \in Nat :
       odd[p] = "no" /\ run \notin Halfway /\ Current(b) =>
         Whole(cf, nas, p, b) /\ Reached(cf, nas, p, b)

DInv == DTypes /\ ((cf = None /\ run = "down") \/ FileInv)

-----------------------------------------------------------------------------
(* Places.                                                                 *)

LEMMA WithFields ==
  ASSUME NEW f, NEW node, NEW free, NEW len, NEW size, NEW bytes
  PROVE  LET g == With(f, node, free, len, size, bytes) IN
         /\ IsFile(g) /\ g.mb = f.mb /\ g.ncblk1 = f.ncblk1 /\ g.ok = f.ok
         /\ g.node = node /\ g.free = free /\ g.len = len /\ g.size = size /\ g.bytes = bytes
  BY DEF With, IsFile

\* Block i begins at i times the block size, and its index is i if that is the
\* size to count with.
LEMMA Places ==
  ASSUME NEW f, Shape(f), NEW i \in DOMAIN f.node
  PROVE  /\ i \in Nat /\ i * f.mb.cblksize \in Nat /\ f.mb.cblksize \in Nat \ {0}
         /\ NodeMemloc(f.mb, Cardinality(DOMAIN f.node), i) \in Int
         /\ f.mb.block_section \in Int
         /\ NodeMemloc(f.mb, Cardinality(DOMAIN f.node), i) - f.mb.block_section
              = i * f.mb.cblksize
         /\ BLOCKHEADERINDEX(f.mb, NodeLoc(f.mb, i)) = i
<1> DEFINE c == f.mb.cblksize
<1>1. PICK n \in Nat, nf \in Nat : DOMAIN f.node = 0 .. n - 1 /\ f.mb = Layout(n, nf, c)
  BY DEF Shape
<1>2. c \in Nat \ {0} /\ i \in Nat /\ i \in Int
  BY <1>1 DEF Shape
<1> DEFINE s == f.mb.block_pointer_section
           t == i * NodeSize
           u == n * NodeSize
           a == i * c
           e == f.mb.block_section
<1>3. s = MbSize + HeaderSize * nf /\ e = s + NodeSize * (n - 1) + NodeSize
  BY <1>1 DEF Layout
<1>4. {MbSize, HeaderSize, NodeSize} \subseteq Nat \ {0}
  BY FormatAssumption
<1>5. s \in Int
  <2>1. HeaderSize * nf \in Int
    BY <1>4
  <2> QED
    BY <1>3, <1>4, <2>1
<1>6. t \in Int /\ u \in Int /\ a \in Nat /\ t \div NodeSize = i
  <2>1. a \in Nat
    BY <1>2
  <2>2. NodeSize \in Nat \ {0} /\ n \in Int
    BY <1>4
  <2>3. t \in Int /\ t \div NodeSize = i
    BY <1>2, <2>2, Multiple
  <2>4. u \in Int
    BY <2>2, Multiple
  <2> QED
    BY <2>1, <2>3, <2>4
<1>7. e = s + u /\ e \in Int
  <2>1. NodeSize * (n - 1) + NodeSize = u /\ NodeSize * (n - 1) \in Int
    BY <1>4, LastAdded
  <2> HIDE DEF s, e, u
  <2> QED
    BY <1>3, <1>4, <1>5, <1>6, <2>1
<1>8. Cardinality(DOMAIN f.node) = n
  <2>1. 0 \in Int /\ n - 1 \in Int
    OBVIOUS
  <2>2. Cardinality(0 .. n - 1) = IF 0 > n - 1 THEN 0 ELSE (n - 1) - 0 + 1
    BY <2>1, FS_Interval
  <2> QED
    BY <1>1, <2>2
<1> DEFINE l == NodeMemloc(f.mb, Cardinality(DOMAIN f.node), i)
<1>9. l = s + u + a
  BY <1>8 DEF NodeMemloc
<1>10. l \in Int /\ l - e = a
  <2> HIDE DEF l, e, s, u, a
  <2> QED
    BY <1>5, <1>6, <1>7, <1>9
<1>11. BLOCKHEADERINDEX(f.mb, NodeLoc(f.mb, i)) = i
  <2>1. (s + t) - s = t
    <3> HIDE DEF s, t
    <3> QED
      BY <1>5, <1>6
  <2>2. BLOCKHEADERINDEX(f.mb, NodeLoc(f.mb, i)) = ((s + t) - s) \div NodeSize
    BY Zenon DEF BLOCKHEADERINDEX, NodeLoc
  <2> QED
    BY <1>6, <2>1, <2>2
<1> QED
  BY <1>2, <1>6, <1>7, <1>10, <1>11

\* The blocks of two nodes, if they begin at multiples of b
LEMMA PlacesApart ==
  ASSUME NEW f, Shape(f), NEW i \in DOMAIN f.node, NEW j \in DOMAIN f.node, i < j,
         NEW b \in Nat \ {0},
         (i * f.mb.cblksize) % b = 0, (j * f.mb.cblksize) % b = 0
  PROVE  (i * f.mb.cblksize) + b <= j * f.mb.cblksize
<1> DEFINE c == f.mb.cblksize
<1>1. c \in Nat \ {0} /\ i \in Int /\ j \in Int /\ i * c \in Int /\ j * c \in Int
  BY Places
<1>2. i * c < j * c
  BY <1>1, MultiplesOrdered
<1> QED
  BY <1>1, <1>2, MultiplesApart

-----------------------------------------------------------------------------
(* Bytes.                                                                  *)

\* A write of len bytes from place a on leaves the others.
LEMMA Written ==
  ASSUME NEW bytes, NEW a \in Int, NEW p, NEW off \in Int, NEW len \in Int, NEW x \in Int
  PROVE  /\ x \in a .. a + len - 1 =>
              /\ x \in DOMAIN BytesWith(bytes, a, p, off, len)
              /\ BytesWith(bytes, a, p, off, len)[x] = <<p, off + x - a>>
         /\ x \in DOMAIN bytes /\ x \notin a .. a + len - 1 =>
              /\ x \in DOMAIN BytesWith(bytes, a, p, off, len)
              /\ BytesWith(bytes, a, p, off, len)[x] = bytes[x]
  BY DEF BytesWith

\* The NAS changes bytes of p; those of other files, and the rest of p, stay.
LEMMA OutdatedBytes ==
  ASSUME NEW f, IsFile(f), NEW p, NEW from, NEW to
  PROVE  LET g == Outdated(f, p, from, to) IN
         /\ g = With(f, f.node, f.free, f.len, f.size, g.bytes)
         /\ \A x \in DOMAIN f.bytes : \A q, o :
              f.bytes[x] = <<q, o>> /\ (q # p \/ o \notin from .. to - 1) =>
                x \in DOMAIN g.bytes /\ g.bytes[x] = <<q, o>>
<1> DEFINE new == [x \in DOMAIN f.bytes |->
                     IF f.bytes[x] # Old /\ f.bytes[x][1] = p /\ f.bytes[x][2] \in from .. to - 1
                     THEN Old ELSE f.bytes[x]]
           g == Outdated(f, p, from, to)
<1>1. g = [f EXCEPT !.bytes = new]
  BY DEF Outdated
<1>2. ASSUME NEW x \in DOMAIN f.bytes, NEW q, NEW o,
             f.bytes[x] = <<q, o>>, q # p \/ o \notin from .. to - 1
      PROVE  x \in DOMAIN new /\ new[x] = <<q, o>>
  <2>1. f.bytes[x][1] = q /\ f.bytes[x][2] = o
    BY <1>2
  <2>2. ~(f.bytes[x][1] = p /\ f.bytes[x][2] \in from .. to - 1)
    BY <1>2, <2>1
  <2>3. x \in DOMAIN new /\ new[x] = f.bytes[x]
    BY <2>2
  <2> QED
    BY <1>2, <2>3
<1> HIDE DEF new, g
<1>3. g = With(f, f.node, f.free, f.len, f.size, new)
  BY <1>1 DEF With, IsFile
<1>4. g.bytes = new
  BY <1>3, WithFields
<1> QED
  BY <1>2, <1>3, <1>4 DEF g

\* The bytes that the NAS still has, of files whose blocks are not written
LEMMA WholeOutdated ==
  ASSUME NEW f, IsFile(f), NEW p \in Paths, NEW from \in Int, NEW to \in Int,
         NEW l, NEW m, NEW q \in Paths, NEW b,
         Whole(f, l, q, b),
         \A o : o < m[q] => o < l[q] /\ (q # p \/ o \notin from .. to - 1)
  PROVE  Whole(Outdated(f, p, from, to), m, q, b)
<1> DEFINE g == Outdated(f, p, from, to)
<1>1. g.mb = f.mb /\ g.node = f.node
  BY OutdatedBytes, WithFields
<1>2. ASSUME NEW i \in DOMAIN f.node, NEW k \in 0 .. b - 1,
             f.node[i] # None, f.node[i].path = q, f.node[i].off + k < m[q]
      PROVE  /\ (i * f.mb.cblksize) + k \in DOMAIN g.bytes
             /\ g.bytes[(i * f.mb.cblksize) + k] = <<q, f.node[i].off + k>>
  <2> DEFINE o == f.node[i].off + k
             x == (i * f.mb.cblksize) + k
  <2>1. o < l[q] /\ (q # p \/ o \notin from .. to - 1)
    BY <1>2
  <2>2. x \in DOMAIN f.bytes /\ f.bytes[x] = <<q, o>>
    BY <1>2, <2>1 DEF Whole
  <2> HIDE DEF o, x, g
  <2>3. x \in DOMAIN g.bytes /\ g.bytes[x] = <<q, o>>
    BY <2>1, <2>2, OutdatedBytes DEF g
  <2> QED
    BY <2>3 DEF o, x
<1> HIDE DEF g
<1> QED
  BY <1>1, <1>2 DEF Whole, g

-----------------------------------------------------------------------------
(* What every step of the running program leaves.                          *)

LEMMA UpStep ==
  ASSUME DTypes, FileInv, run = "up", UNCHANGED <<blksz, ran>>, DTypes',
         IsFile(cf'), Shape(cf'), Complete(cf'), cf'.mb = cf.mb,
         \A p \in Paths : cf'.len[p] <= nas'[p],
         run' # "line116" => FreeOK(cf'),
         Aligned(cf', blksz),
         run' \in Stops => ~(ran \subseteq {cf.mb.cblksize}),
         run' \in Stops \cup {"up"},
         \A p \in Paths : odd'[p] = "no" /\ run' \notin Halfway =>
           Whole(cf', nas', p, blksz) /\ Reached(cf', nas', p, blksz)
  PROVE  FileInv'
<1>1. blksz \in ran /\ blksz # 0 /\ ran \subseteq Nat
  BY DEF FileInv
<1>2. ran' = ran /\ blksz' = blksz
  OBVIOUS
<1>3. ran \subseteq {cf'.mb.cblksize} => Offsets(cf', cf'.mb.cblksize)
  BY <1>1 DEF Aligned
<1>4. ran # {}
  BY <1>1
<1>5. ASSUME NEW p \in Paths, NEW b \in Nat, odd'[p] = "no", run' \notin Halfway,
             IF run' = "up" THEN b = blksz ELSE ran = {b}
      PROVE  Whole(cf', nas', p, b) /\ Reached(cf', nas', p, b)
  <2>1. b = blksz
    BY <1>1, <1>5
  <2> QED
    BY <1>5, <2>1
<1> QED
  BY <1>1, <1>2, <1>3, <1>4, <1>5 DEF FileInv, Current

\* No place is wrong for the block size of the cache file.
LEMMA FitsOwnSize ==
  ASSUME FileInv, NEW i \in Nodes, blksz = cf.mb.cblksize
  PROVE  /\ IndexFits(i) /\ (Memloc(i) - cf.mb.block_section) % blksz = 0
         /\ \A n \in 0 .. blksz : WriteFits(i, n)
<1>1. Shape(cf)
  BY DEF FileInv
<1> DEFINE c == cf.mb.cblksize
<1>2. /\ c \in Nat \ {0} /\ i \in Int
      /\ Memloc(i) - cf.mb.block_section = i * c
      /\ BLOCKHEADERINDEX(cf.mb, NodeLoc(cf.mb, i)) = i
  BY <1>1, Places DEF Memloc, Nodes
<1>3. (i * c) \div c = i /\ (i * c) % c = 0
  BY <1>2, Multiple
<1>4. BLOCKINDEX(cf.mb, Memloc(i), c) = i
  BY <1>2, <1>3 DEF BLOCKINDEX
<1>5. ASSUME NEW n \in 0 .. blksz PROVE WriteFits(i, n)
  <2>1. PICK m \in Nat, nf \in Nat : DOMAIN cf.node = 0 .. m - 1 /\ cf.mb = Layout(m, nf, c)
    BY <1>1 DEF Shape
  <2> DEFINE e == cf.mb.block_section
             a == i * c
             z == m * c
  <2>2. cf.mb.capacity = e + c * m
    BY <2>1 DEF Layout
  <2>3. a + c <= z
    <3>1. i < m /\ m \in Int
      BY <1>2, <2>1 DEF Nodes
    <3>2. a < z /\ a % c = 0 /\ z % c = 0 /\ a \in Int /\ z \in Int
      BY <1>2, <3>1, MultiplesOrdered, Multiple
    <3> HIDE DEF a, z
    <3> QED
      BY <1>2, <3>2, MultiplesApart
  <2>4. c * m = z /\ z \in Int /\ a \in Int /\ c \in Int
    BY <1>2, <2>1
  <2>5. e \in Int /\ Memloc(i) \in Int /\ Memloc(i) - e = a
    BY <1>1, <1>2, Places DEF Memloc, Nodes
  <2>6. n \in Int /\ n <= c
    BY <1>2
  <2>7. cf.mb.capacity = e + z
    BY <2>2, <2>4
  <2> HIDE DEF e, a, z, c
  <2>8. Memloc(i) + n <= e + z
    BY <2>3, <2>4, <2>5, <2>6
  <2> QED
    BY <2>7, <2>8 DEF WriteFits
<1> QED
  BY <1>2, <1>3, <1>4, <1>5 DEF IndexFits

\* So an assertion that fails has a file that another size was used for.
LEMMA StopsOnOther ==
  ASSUME FileInv, run = "up", NEW i \in Nodes, NEW n \in 0 .. blksz,
         \/ ~IndexFits(i) \/ (Memloc(i) - cf.mb.block_section) % blksz # 0
         \/ ~WriteFits(i, n)
  PROVE  ~(ran \subseteq {cf.mb.cblksize})
<1>1. blksz \in ran
  BY DEF FileInv
<1>2. blksz # cf.mb.cblksize
  BY FitsOwnSize
<1> QED
  BY <1>1, <1>2

\* The blocks of two nodes, whichever is the first
LEMMA OtherBlock ==
  ASSUME NEW f, Shape(f), NEW i \in DOMAIN f.node, NEW j \in DOMAIN f.node, i # j,
         NEW b \in Nat \ {0},
         (i * f.mb.cblksize) % b = 0, (j * f.mb.cblksize) % b = 0
  PROVE  \/ (i * f.mb.cblksize) + b <= j * f.mb.cblksize
         \/ (j * f.mb.cblksize) + b <= i * f.mb.cblksize
<1>1. i \in Nat /\ j \in Nat
  BY Places
<1>2. CASE i < j
  BY <1>2, PlacesApart
<1>3. CASE j < i
  BY <1>3, PlacesApart
<1>4. i < j \/ j < i
  BY <1>1
<1> QED
  BY <1>2, <1>3, <1>4

\* The cached length is raised to what a write needs.
LEMMA LenRaised ==
  ASSUME cf.len \in [Paths -> -1 .. MaxLen], NEW p \in Paths, NEW end \in 0 .. MaxLen
  PROVE  /\ LenWith(p, end) \in [Paths -> -1 .. MaxLen]
         /\ LenWith(p, end)[p] \in {cf.len[p], end} /\ LenWith(p, end)[p] # -1
         /\ LenWith(p, end)[p] >= cf.len[p] /\ LenWith(p, end)[p] >= end
         /\ \A q \in Paths : q # p => LenWith(p, end)[q] = cf.len[q]
<1>1. MaxLen \in Nat
  BY DataAssumption
<1>2. LenWith(p, end) = [cf.len EXCEPT ![p] = IF cf.len[p] < end THEN end ELSE cf.len[p]]
  BY DEF LenWith
<1>3. (IF cf.len[p] < end THEN end ELSE cf.len[p]) \in 0 .. MaxLen
  BY <1>1
<1>4. 0 .. MaxLen \subseteq -1 .. MaxLen /\ -1 \notin 0 .. MaxLen
  BY <1>1
<1> QED
  BY <1>2, <1>3, <1>4

\* Insert_RSC_table gets past its assertions, for the cache file or for what the
\* NAS has left of it.
CanInsert(f, p, off, len) ==
  /\ IsFile(f) /\ f.mb = cf.mb /\ f.node = cf.node /\ f.free = cf.free /\ f.len = cf.len
  /\ f.ok = cf.ok /\ f.ncblk1 = cf.ncblk1
  /\ p \in Paths /\ off \in Nat /\ len \in Nat \ {0} /\ len <= blksz /\ off + len <= MaxLen
  /\ Lookup(p, off) = {} /\ f.free # <<>> /\ InsertStop(f, len) = "up"

\* g is what becomes of it, when node i is taken.
InsertResult(f, p, off, len, g, i) ==
  /\ i \in Nodes /\ cf.node[i] = None /\ (i * cf.mb.cblksize) % blksz = 0
  /\ IsFile(g) /\ g.mb = cf.mb
  /\ g.node = [cf.node EXCEPT ![i] = [path |-> p, off |-> off - (off % blksz)]]
  /\ g.len = LenWith(p, (off - (off % blksz)) + len)
  /\ g.bytes = BytesWith(f.bytes, i * cf.mb.cblksize, p, off, len)
  /\ Shape(g) /\ Complete(g) /\ FreeOK(g) /\ Aligned(g, blksz)

\* A block that is not cached gets the first free node.
LEMMA Inserted ==
  ASSUME DTypes, FileInv, run = "up", NEW f, NEW p, NEW off, NEW len, CanInsert(f, p, off, len)
  PROVE  InsertResult(f, p, off, len, InsertBlock(f, p, off, len), Head(f.free))
<1> DEFINE g == InsertBlock(f, p, off, len)
           i == Head(f.free)
           begin == off - (off % blksz)
           c == cf.mb.cblksize
           blk == [path |-> p, off |-> begin]
           node == [cf.node EXCEPT ![i] = blk]
<1> USE DEF CanInsert
<1>1. Shape(cf) /\ FreeOK(cf) /\ Complete(cf) /\ Aligned(cf, blksz) /\ blksz \in Nat \ {0}
  BY DEF FileInv
<1>2. /\ i \in Nodes /\ i \in ToSet(cf.free) /\ Tail(cf.free) \in Seq(Nodes)
      /\ IsInjective(Tail(cf.free)) /\ ToSet(Tail(cf.free)) = ToSet(cf.free) \ {i}
  <2>1. cf.free \in Seq(Nodes) /\ IsInjective(cf.free) /\ cf.free # <<>>
    BY <1>1 DEF Shape, FreeOK, Nodes
  <2> QED
    BY <2>1, TakeFree
<1>3. cf.node[i] = None
  BY <1>1, <1>2 DEF FreeOK
<1>4. i \in Int /\ Memloc(i) \in Int /\ Memloc(i) - cf.mb.block_section = i * c
  BY <1>1, <1>2, Places DEF Nodes, Memloc
<1>5. (i * c) % blksz = 0
  <2>1. (Memloc(i) - cf.mb.block_section) % blksz = 0
    <3> HIDE DEF i
    <3>1. InsertStop(f, len) = IF ~IndexFits(i) THEN "line191"
              ELSE IF (Memloc(i) - f.mb.block_section) % blksz # 0 THEN "line350"
              ELSE IF ~WriteFits(i, len) THEN "line83" ELSE "up"
      BY DEF InsertStop, i
    <3> QED
      BY <3>1
  <2> QED
    BY <1>4, <2>1
<1>6. begin \in Nat /\ begin % blksz = 0 /\ begin <= off
  <2> DEFINE r == off % blksz
  <2>1. off - r \in Nat /\ (off - r) % blksz = 0 /\ r \in 0 .. blksz - 1
    BY <1>1, BlockBegin
  <2>2. off - r <= off
    <3> HIDE DEF r
    <3> QED
      BY <1>1, <2>1
  <2> QED
    BY <2>1, <2>2
<1>7. blk \in Block /\ blk # None /\ blk.path = p /\ blk.off = begin
  <2> HIDE DEF begin
  <2> QED
    BY <1>6, DataAssumption DEF Block
<1> HIDE DEF begin, i
<1>8. g = With(f, node, Tail(cf.free), LenWith(p, begin + len), SizeWith(i, len),
               BytesWith(f.bytes, i * c, p, off, len))
  <2>1. g = [f EXCEPT !.free = Tail(f.free), !.node[i] = blk, !.len = LenWith(p, begin + len),
                      !.size = SizeWith(i, len),
                      !.bytes = BytesWith(f.bytes, i * f.mb.cblksize, p, off, len)]
    BY DEF InsertBlock, Blockoff, i, begin
  <2> DEFINE lw == LenWith(p, begin + len)
             sw == SizeWith(i, len)
             bw == BytesWith(f.bytes, i * c, p, off, len)
  <2>2. g = [f EXCEPT !.free = Tail(f.free), !.node[i] = blk, !.len = lw,
                      !.size = sw, !.bytes = bw]
    BY <2>1
  <2> HIDE DEF lw, sw, bw, g, blk
  <2>3. g = With(f, [f.node EXCEPT ![i] = blk], Tail(f.free), lw, sw, bw)
    BY <2>2 DEF With, IsFile
  <2> QED
    BY <2>3 DEF lw, sw, bw
<1> HIDE DEF g, blk, node
<1>9. /\ IsFile(g) /\ g.mb = cf.mb /\ g.node = node /\ g.free = Tail(cf.free)
      /\ g.len = LenWith(p, begin + len) /\ g.size = SizeWith(i, len)
      /\ g.bytes = BytesWith(f.bytes, i * c, p, off, len)
      /\ g.ok = f.ok /\ g.ncblk1 = f.ncblk1
  BY <1>8, WithFields
<1>10. /\ node \in [Nodes -> Block \cup {None}] /\ node[i] = blk
       /\ \A j \in Nodes : j # i => node[j] = cf.node[j]
  BY <1>1, <1>2, <1>7 DEF node, Shape, Nodes
<1>11. DOMAIN g.node = Nodes
  BY <1>9, <1>10
<1>12. /\ g.len \in [Paths -> -1 .. MaxLen] /\ g.len[p] # -1
       /\ \A q \in Paths : q # p => g.len[q] = cf.len[q]
  <2>1. cf.len \in [Paths -> -1 .. MaxLen] /\ MaxLen \in Nat
    BY <1>1, DataAssumption DEF Shape
  <2>2. begin + len \in 0 .. MaxLen
    BY <1>6, <2>1
  <2> QED
    BY <1>9, <2>1, <2>2, LenRaised
<1>13. Shape(g)
  <2>1. \E n \in Nat, nf \in Nat :
           DOMAIN g.node = 0 .. n - 1 /\ g.mb = Layout(n, nf, g.mb.cblksize)
    BY <1>1, <1>9, <1>11 DEF Shape, Nodes
  <2>2. c \in Nat \ {0}
    BY <1>1 DEF Shape
  <2> QED
    BY <1>2, <1>9, <1>10, <1>11, <1>12, <2>1, <2>2 DEF Shape
<1>14. Complete(g)
  <2>1. cf.size \in Int /\ Memloc(i) + len \in Int
    BY <1>1, <1>4 DEF Complete
  <2>2. g.size \in Int /\ g.size >= cf.size
    BY <1>9, <2>1 DEF SizeWith
  <2>3. g.ok = cf.ok /\ g.ncblk1 = cf.ncblk1 /\ g.mb.capacity = cf.mb.capacity
    BY <1>9
  <2>4. cf.mb.capacity \in Int
    <3>1. PICK n \in Nat, nf \in Nat : cf.mb = Layout(n, nf, c)
      BY <1>1 DEF Shape
    <3>2. c \in Int
      BY <1>1 DEF Shape
    <3>3. NodeSize \in Int /\ HeaderSize \in Int /\ MbSize \in Int
      BY FormatAssumption
    <3>4. cf.mb.capacity = MbSize + HeaderSize * nf + NodeSize * (n - 1) + NodeSize + c * n
      BY <3>1 DEF Layout
    <3> DEFINE x == HeaderSize * nf
               y == NodeSize * (n - 1)
               z == c * n
    <3>5. x \in Int /\ y \in Int /\ z \in Int
      BY <3>2, <3>3
    <3>6. cf.mb.capacity = MbSize + x + y + NodeSize + z
      BY <3>4
    <3> HIDE DEF x, y, z
    <3> QED
      BY <3>3, <3>5, <3>6
  <2> QED
    BY <1>1, <2>1, <2>2, <2>3, <2>4 DEF Complete
<1>15. FreeOK(g)
  <2>1. ToSet(g.free) = {j \in Nodes : node[j] = None}
    BY <1>1, <1>2, <1>7, <1>9, <1>10 DEF FreeOK, Nodes
  <2>2. ASSUME NEW j \in Nodes, node[j] # None
        PROVE  g.len[node[j].path] # -1
    <3>1. CASE j = i
      BY <1>7, <1>10, <1>12, <3>1
    <3>2. CASE j # i
      <4>1. node[j] = cf.node[j] /\ cf.node[j] \in Block
        BY <1>1, <1>10, <2>2, <3>2 DEF Shape, Nodes
      <4>2. cf.len[node[j].path] # -1 /\ node[j].path \in Paths
        BY <1>1, <2>2, <4>1 DEF FreeOK, Nodes, Block
      <4> QED
        BY <1>12, <4>2
    <3> QED
      BY <3>1, <3>2
  <2>3. \A j \in Nodes : j # i => node[j] # blk
    <3> SUFFICES ASSUME NEW j \in Nodes, j # i, node[j] = blk PROVE FALSE
      OBVIOUS
    <3>1. cf.node[j] = blk
      BY <1>10
    <3>2. j \in Lookup(p, off)
      BY <1>7, <3>1 DEF Lookup, NodesOf, Blockoff, begin
    <3> QED
      BY <3>2
  <2>4. \A j, k \in Nodes : node[j] # None /\ node[j] = node[k] => j = k
    <3>1. \A j, k \in Nodes : cf.node[j] # None /\ cf.node[j] = cf.node[k] => j = k
      BY <1>1 DEF FreeOK, Nodes
    <3> QED
      BY <1>10, <2>3, <3>1
  <2> QED
    BY <1>2, <1>9, <1>11, <2>1, <2>2, <2>4 DEF FreeOK
<1>16. Aligned(g, blksz)
  <2>1. \A j \in Nodes : node[j] # None => node[j].off % blksz = 0 /\ (j * c) % blksz = 0
    BY <1>1, <1>5, <1>6, <1>7, <1>10 DEF Aligned, Offsets, Nodes
  <2> QED
    BY <1>9, <1>11, <2>1 DEF Aligned, Offsets
<1> QED
  BY <1>2, <1>3, <1>5, <1>9, <1>13, <1>14, <1>15, <1>16 DEF g, i, begin, node, blk, InsertResult

\* It has its bytes, and the others keep theirs.
LEMMA WholeInserted ==
  ASSUME DTypes, FileInv, run = "up", NEW f, NEW p, NEW off, NEW len, CanInsert(f, p, off, len),
         NEW l, NEW q \in Paths, Whole(f, l, q, blksz),
         q = p => off % blksz = 0 /\ \A k \in 0 .. blksz - 1 : off + k < l[p] => k < len
  PROVE  Whole(InsertBlock(f, p, off, len), l, q, blksz)
<1> DEFINE g == InsertBlock(f, p, off, len)
           i == Head(f.free)
           begin == off - (off % blksz)
           c == cf.mb.cblksize
           a == i * c
<1> USE DEF CanInsert
<1>1. /\ i \in Nodes /\ (i * c) % blksz = 0
      /\ g.mb = cf.mb /\ g.node = [cf.node EXCEPT ![i] = [path |-> p, off |-> begin]]
      /\ g.bytes = BytesWith(f.bytes, a, p, off, len)
  <2>1. InsertResult(f, p, off, len, g, i)
    BY Inserted
  <2> HIDE DEF g, i
  <2> QED
    BY <2>1 DEF InsertResult
<1>2. Shape(cf) /\ Aligned(cf, blksz) /\ blksz \in Nat \ {0}
  BY DEF FileInv
<1>3. a \in Int /\ \A j \in Nodes : j * c \in Int
  BY <1>1, <1>2, Places DEF Nodes
<1> HIDE DEF g, i, begin
<1> SUFFICES ASSUME NEW j \in Nodes, NEW k \in 0 .. blksz - 1,
                    g.node[j] # None, g.node[j].path = q, g.node[j].off + k < l[q]
             PROVE  /\ (j * c) + k \in DOMAIN g.bytes
                    /\ g.bytes[(j * c) + k] = <<q, g.node[j].off + k>>
  <2>1. DOMAIN g.node = Nodes
    BY <1>1 DEF Nodes
  <2> QED
    BY <1>1, <2>1 DEF Whole, g
<1>4. k \in Int /\ (j * c) + k \in Int
  BY <1>2, <1>3
<1>5. CASE j = i
  <2>1. g.node[j].path = p /\ g.node[j].off = begin
    BY <1>1, <1>5 DEF Nodes
  <2>2. off % blksz = 0
    BY <2>1
  <2>3. begin = off
    BY <2>2 DEF begin
  <2>4. k < len
    BY <2>1, <2>3
  <2> DEFINE x == a + k
  <2>5. x \in a .. a + len - 1 /\ x \in Int /\ x - a = k
    <3> HIDE DEF a
    <3> QED
      BY <1>2, <1>3, <2>4
  <2> HIDE DEF x, a
  <2>6. x \in DOMAIN g.bytes /\ g.bytes[x] = <<p, off + (x - a)>>
    BY <1>1, <1>3, <2>5, Written
  <2> QED
    BY <1>5, <2>1, <2>3, <2>5, <2>6 DEF x, a
<1>6. CASE j # i
  <2>1. g.node[j] = cf.node[j]
    BY <1>1, <1>6 DEF Nodes
  <2>2. (j * c) % blksz = 0
    BY <1>2, <2>1 DEF Aligned, Nodes
  <2> DEFINE v == j * c
  <2>3. v + k \notin a .. a + len - 1
    <3>1. a + blksz <= v \/ v + blksz <= a
      BY <1>1, <1>2, <1>6, <2>2, OtherBlock DEF Nodes
    <3>2. a \in Int /\ v \in Int
      BY <1>3
    <3> HIDE DEF a, v
    <3> QED
      BY <1>2, <3>1, <3>2
  <2>4. v + k \in DOMAIN f.bytes /\ f.bytes[v + k] = <<q, cf.node[j].off + k>>
    <3>1. /\ j \in DOMAIN f.node /\ f.node[j] # None /\ f.node[j].path = q
          /\ f.node[j].off + k < l[q]
      BY <2>1 DEF Nodes
    <3>2. v = j * f.mb.cblksize
      OBVIOUS
    <3> HIDE DEF v
    <3> QED
      BY <3>1, <3>2 DEF Whole
  <2>5. v + k \in Int
    BY <1>4
  <2> HIDE DEF a, v
  <2>6. v + k \in DOMAIN g.bytes /\ g.bytes[v + k] = f.bytes[v + k]
    BY <1>1, <1>3, <2>3, <2>4, <2>5, Written
  <2> QED
    BY <2>1, <2>4, <2>6 DEF v
<1> QED
  BY <1>5, <1>6

\* Nothing is to be reached for a file without blocks.
LEMMA ReachedWithout ==
  ASSUME NEW f, NEW l, NEW p, NEW b, \A i \in DOMAIN f.node : f.node[i] # None => f.node[i].path # p
  PROVE  Reached(f, l, p, b)
  BY DEF Reached

\* The cached length of a file grows with its blocks, and the file no further.
LEMMA ReachedRaised ==
  ASSUME NEW f, NEW g, NEW l, NEW m, NEW p, NEW b \in Nat, Reached(f, l, p, b),
         f.len[p] \in Int, g.len[p] \in Int, l[p] \in Int, m[p] \in Int,
         \A i \in DOMAIN f.node : f.node[i] # None => f.node[i].off \in Int,
         f.len[p] <= g.len[p], m[p] <= l[p] \/ m[p] <= g.len[p],
         \A i \in DOMAIN g.node : g.node[i] # None /\ g.node[i].path = p =>
           \/ i \in DOMAIN f.node /\ g.node[i] = f.node[i]
           \/ /\ g.node[i].off <= g.len[p]
              /\ g.node[i].off + b <= g.len[p] \/ m[p] <= g.len[p]
  PROVE  Reached(g, m, p, b)
<1> SUFFICES ASSUME NEW i \in DOMAIN g.node, g.node[i] # None, g.node[i].path = p,
                    i \in DOMAIN f.node, g.node[i] = f.node[i]
             PROVE  /\ g.node[i].off <= g.len[p]
                    /\ g.node[i].off + b <= g.len[p] \/ m[p] <= g.len[p]
  BY DEF Reached
<1>1. /\ f.node[i].off <= f.len[p] /\ f.node[i].off \in Int
      /\ f.node[i].off + b <= f.len[p] \/ l[p] <= f.len[p]
  BY DEF Reached
<1> DEFINE o == f.node[i].off
<1>2. g.node[i].off = o /\ o \in Int /\ o <= f.len[p] /\ (o + b <= f.len[p] \/ l[p] <= f.len[p])
  BY <1>1
<1> HIDE DEF o
<1> QED
  BY <1>2

\* Nothing of file p is changed.
LEMMA ReachedKept ==
  ASSUME NEW f, NEW g, NEW l, NEW m, NEW p, NEW b, Reached(f, l, p, b),
         g.len[p] = f.len[p], m[p] = l[p],
         \A i \in DOMAIN g.node : g.node[i] # None /\ g.node[i].path = p =>
           i \in DOMAIN f.node /\ g.node[i] = f.node[i]
  PROVE  Reached(g, m, p, b)
  BY DEF Reached

LEMMA FilesOf ==
  ASSUME FileInv, run = "up"
  PROVE  /\ \A i \in Nodes : cf.node[i] # None => cf.node[i] \in Block
         /\ \A p \in Paths : odd[p] = "no" =>
              Whole(cf, nas, p, blksz) /\ Reached(cf, nas, p, blksz)
         /\ \A p \in Paths : \A i \in NodesOf(p) : Cached(p)
         /\ IsFile(cf) /\ Shape(cf) /\ Complete(cf) /\ FreeOK(cf) /\ Aligned(cf, blksz)
         /\ blksz \in Nat \ {0} /\ \A p \in Paths : cf.len[p] <= nas[p]
<1>1. Shape(cf) /\ FreeOK(cf) /\ blksz \in Nat \ {0} /\ Current(blksz)
  BY DEF FileInv, Current
<1>2. \A i \in Nodes : cf.node[i] # None => cf.node[i] \in Block
  BY <1>1 DEF Shape, Nodes
<1>3. \A p \in Paths : \A i \in NodesOf(p) : Cached(p)
  BY <1>1 DEF FreeOK, NodesOf, Cached, Nodes
<1>4. \A p \in Paths : odd[p] = "no" =>
        Whole(cf, nas, p, blksz) /\ Reached(cf, nas, p, blksz)
  BY <1>1 DEF FileInv, Halfway
<1> QED
  BY <1>1, <1>2, <1>3, <1>4 DEF FileInv

\* Insert_RSC_table of a block that was read from the NAS
LEMMA InsertCurrentStep ==
  ASSUME DTypes, FileInv, run = "up", NEW p \in Paths, NEW off \in 0 .. MaxLen,
         InsertCurrent(p, off)
  PROVE  DTypes' /\ FileInv'
<1> DEFINE len == IF nas[p] - off < blksz THEN nas[p] - off ELSE blksz
<1>1. /\ off % blksz = 0 /\ off < nas[p] /\ Lookup(p, off) = {} /\ cf.free # <<>>
      /\ run' = InsertStop(cf, len)
      /\ cf' = IF run' = "up" THEN InsertBlock(cf, p, off, len) ELSE cf
      /\ UNCHANGED <<nas, blksz, starts, ran, odd>>
  BY Zenon DEF InsertCurrent
<1>2. /\ IsFile(cf) /\ Shape(cf) /\ Complete(cf) /\ FreeOK(cf) /\ Aligned(cf, blksz)
      /\ blksz \in Nat \ {0} /\ \A q \in Paths : cf.len[q] <= nas[q]
      /\ \A q \in Paths : odd[q] = "no" =>
           Whole(cf, nas, q, blksz) /\ Reached(cf, nas, q, blksz)
  BY FilesOf
<1>3. run' \in {"up", "line191", "line350", "line83"}
  BY <1>1 DEF InsertStop
<1>4. DTypes'
  BY <1>1, <1>3 DEF DTypes, Stops
<1>5. nas[p] \in 0 .. MaxLen /\ off \in Nat /\ MaxLen \in Nat
  BY DataAssumption DEF DTypes
<1>6. /\ len \in Nat \ {0} /\ len <= blksz /\ off + len <= nas[p] /\ off + len <= MaxLen
      /\ \A k \in 0 .. blksz - 1 : off + k < nas[p] => k < len
  BY <1>1, <1>2, <1>5
<1> HIDE DEF len
<1>7. CASE run' = "up"
  <2> DEFINE begin == off - (off % blksz)
  <2>1. begin = off
    BY <1>1, <1>5
  <2>2. cf' = InsertBlock(cf, p, off, len) /\ InsertStop(cf, len) = "up"
    BY <1>1, <1>7
  <2>3. CanInsert(cf, p, off, len)
    BY <1>1, <1>2, <1>5, <1>6, <2>2 DEF CanInsert
  <2> DEFINE g == InsertBlock(cf, p, off, len)
  <2>4. /\ IsFile(g) /\ g.mb = cf.mb /\ g.len = LenWith(p, begin + len)
        /\ g.node = [cf.node EXCEPT ![Head(cf.free)] = [path |-> p, off |-> begin]]
        /\ Shape(g) /\ Complete(g) /\ FreeOK(g) /\ Aligned(g, blksz)
    <3>1. InsertResult(cf, p, off, len, g, Head(cf.free))
      BY <2>3, Inserted
    <3> HIDE DEF g
    <3> QED
      BY <3>1 DEF InsertResult
  <2> HIDE DEF g
  <2>5. cf' = g
    BY <2>2 DEF g
  <2> HIDE DEF begin
  <2>6. \A q \in Paths : cf'.len[q] <= nas'[q]
    <3>1. cf.len \in [Paths -> -1 .. MaxLen] /\ off + len \in 0 .. MaxLen
      BY <1>2, <1>5, <1>6 DEF Shape
    <3>2. cf'.len = LenWith(p, off + len)
      BY <2>1, <2>4, <2>5
    <3>3. \A q \in Paths : cf'.len[q] \in {cf.len[q], off + len} /\ (q # p => cf'.len[q] = cf.len[q])
      BY <3>1, <3>2, LenRaised
    <3> QED
      BY <1>1, <1>2, <1>6, <3>3
  <2>7. ASSUME NEW q \in Paths, odd'[q] = "no"
        PROVE  Whole(cf', nas', q, blksz)
    <3>1. Whole(cf, nas, q, blksz) /\ nas' = nas
      BY <1>1, <1>2, <2>7
    <3>2. Whole(InsertBlock(cf, p, off, len), nas, q, blksz)
      BY <1>1, <1>6, <2>3, <3>1, WholeInserted
    <3> QED
      BY <2>2, <3>1, <3>2
  <2>8. ASSUME NEW q \in Paths, odd'[q] = "no"
        PROVE  Reached(cf', nas', q, blksz)
    <3>1. Reached(cf, nas, q, blksz) /\ nas' = nas
      BY <1>1, <1>2, <2>8
    <3>2. /\ cf.len \in [Paths -> -1 .. MaxLen] /\ off + len \in 0 .. MaxLen
          /\ nas[q] \in Int /\ nas[p] \in Int
      BY <1>2, <1>5, <1>6 DEF Shape, DTypes
    <3>3. /\ cf'.len[q] \in Int /\ cf.len[q] \in Int /\ cf'.len[q] >= cf.len[q]
          /\ cf'.len[p] >= off + len /\ cf'.len[p] \in Int
          /\ (q # p => cf'.len[q] = cf.len[q])
      BY <2>1, <2>4, <2>5, <3>2, LenRaised
    <3>4. \A i \in DOMAIN cf.node : cf.node[i] # None => cf.node[i].off \in Int
      BY FilesOf DEF Nodes, Block
    <3>5. len = blksz \/ off + len = nas[p]
      BY <1>2, <1>5, <3>2 DEF len
    <3>6. \A i \in DOMAIN cf'.node : cf'.node[i] # None /\ cf'.node[i].path = q =>
            \/ i \in DOMAIN cf.node /\ cf'.node[i] = cf.node[i]
            \/ q = p /\ cf'.node[i].off = off
      BY <2>1, <2>4, <2>5 DEF Nodes
    <3>7. off <= cf'.len[p] /\ (off + blksz <= cf'.len[p] \/ nas[p] <= cf'.len[p])
      BY <1>2, <1>5, <1>6, <3>2, <3>3, <3>5
    <3> QED
      BY <1>2, <3>1, <3>2, <3>3, <3>4, <3>6, <3>7, ReachedRaised
  <2> QED
    BY <1>1, <1>4, <1>7, <2>4, <2>5, <2>6, <2>7, <2>8, UpStep DEF Stops
<1>8. CASE run' # "up"
  <2>1. cf' = cf
    BY <1>1, <1>8
  <2>2. Head(cf.free) \in Nodes
    BY <1>1, <1>2, TakeFree DEF Shape, FreeOK, Nodes
  <2>3. ~(ran \subseteq {cf.mb.cblksize})
    <3>1. len \in 0 .. blksz
      BY <1>2, <1>6
    <3> QED
      BY <1>1, <1>8, <2>2, <3>1, StopsOnOther DEF InsertStop
  <2> QED
    BY <1>1, <1>2, <1>3, <1>4, <2>1, <2>3, UpStep DEF Stops
<1> QED
  BY <1>4, <1>7, <1>8

\* Nothing is to be right about a file without blocks.
LEMMA WholeWithout ==
  ASSUME NEW f, NEW l, NEW p, NEW b, \A i \in DOMAIN f.node : f.node[i] # None => f.node[i].path # p
  PROVE  Whole(f, l, p, b)
  BY DEF Whole

\* The cache file with other lengths, for blocks that stay cached
LEMMA SameNodes ==
  ASSUME NEW f, NEW g, Shape(f), FreeOK(f), Aligned(f, blksz), Complete(f),
         g.mb = f.mb, g.node = f.node, g.free = f.free, g.size = f.size,
         g.ok = f.ok, g.ncblk1 = f.ncblk1, g.len \in [Paths -> -1 .. MaxLen],
         \A p \in Paths : f.len[p] # -1 => g.len[p] # -1
  PROVE  Shape(g) /\ FreeOK(g) /\ Aligned(g, blksz) /\ Complete(g)
<1>1. Shape(g)
  BY DEF Shape
<1>2. FreeOK(g)
  <2>1. \A i \in DOMAIN f.node : f.node[i] # None => f.node[i].path \in Paths
    BY DEF Shape, Block
  <2> QED
    BY <2>1 DEF FreeOK
<1>3. Aligned(g, blksz) /\ Complete(g)
  BY DEF Aligned, Offsets, Complete
<1> QED
  BY <1>1, <1>2, <1>3

\* The nodes of gone are free, behind the others.
ReturnResult(f, gone, g) ==
  /\ IsFile(g) /\ g.mb = cf.mb /\ g.len = f.len /\ g.bytes = f.bytes
  /\ DOMAIN g.node = Nodes
  /\ \A i \in Nodes : g.node[i] = IF i \in gone THEN None ELSE cf.node[i]
  /\ Shape(g) /\ Complete(g) /\ FreeOK(g) /\ Aligned(g, blksz)

\* Return_file_block of the nodes of gone
LEMMA ReturnedNodes ==
  ASSUME DTypes, FileInv, run = "up", NEW f, IsFile(f), f.mb = cf.mb, f.node = cf.node,
         f.free = cf.free, f.size = cf.size, f.ok = cf.ok, f.ncblk1 = cf.ncblk1,
         f.len \in [Paths -> -1 .. MaxLen],
         NEW gone \in SUBSET Nodes, \A i \in gone : cf.node[i] # None,
         \A i \in Nodes \ gone : cf.node[i] # None => f.len[cf.node[i].path] # -1,
         NEW off, Return(f, gone, off)
  PROVE  \/ run' = "up" /\ ReturnResult(f, gone, cf')
         \/ run' = "line116" /\ cf' = f /\ ~(ran \subseteq {cf.mb.cblksize})
<1>1. Shape(cf) /\ FreeOK(cf) /\ Complete(cf) /\ Aligned(cf, blksz)
  BY FilesOf
<1>2. CASE ~(\A i \in gone : IndexFits(i))
  <2>1. run' = "line116" /\ cf' = f
    BY <1>2 DEF Return
  <2>2. PICK i \in gone : ~IndexFits(i)
    BY <1>2
  <2>3. ~(ran \subseteq {cf.mb.cblksize})
    <3>1. 0 \in 0 .. blksz
      BY FilesOf
    <3> QED
      BY <2>2, <3>1, StopsOnOther
  <2> QED
    BY <2>1, <2>3
<1>3. CASE \A i \in gone : IndexFits(i)
  <2>1. PICK order \in SetToSeqs(gone) : cf' = Returned(f, order)
    BY <1>3 DEF Return
  <2>2. run' = "up"
    BY <1>3 DEF Return
  <2>3. IsFiniteSet(gone)
    <3>1. PICK n \in Nat : Nodes = 0 .. n - 1
      BY <1>1 DEF Shape, Nodes
    <3>2. 0 \in Int /\ n - 1 \in Int
      OBVIOUS
    <3>3. IsFiniteSet(Nodes)
      BY <3>1, <3>2, FS_Interval
    <3> QED
      BY <3>3, FS_Subset
  <2>4. order \in Seq(gone) /\ IsInjective(order) /\ ToSet(order) = gone
    BY <2>1, <2>3, InOrder
  <2> DEFINE node == [i \in Nodes |-> IF i \in gone THEN None ELSE cf.node[i]]
             free == cf.free \o order
             g == Returned(f, order)
  <2>5. g = With(f, node, free, f.len, f.size, f.bytes)
    <3>1. g = [f EXCEPT !.node = node, !.free = free]
      BY <2>4 DEF Returned, Nodes
    <3> HIDE DEF g, node, free
    <3> QED
      BY <3>1 DEF With, IsFile
  <2> HIDE DEF g
  <2>6. /\ IsFile(g) /\ g.mb = f.mb /\ g.len = f.len /\ g.bytes = f.bytes /\ g.node = node
        /\ g.free = free /\ g.size = f.size /\ g.ok = f.ok /\ g.ncblk1 = f.ncblk1
    <3> HIDE DEF node, free
    <3> QED
      BY <2>5, WithFields
  <2>7. DOMAIN node = Nodes /\ \A i \in Nodes : node[i] = IF i \in gone THEN None ELSE cf.node[i]
    OBVIOUS
  <2>8. /\ cf.free \in Seq(Nodes) /\ order \in Seq(Nodes) /\ IsInjective(cf.free)
        /\ ToSet(cf.free) = {i \in Nodes : cf.node[i] = None}
    <3>1. order \in Seq(Nodes)
      BY <2>4
    <3> QED
      BY <1>1, <3>1 DEF Shape, FreeOK, Nodes
  <2>9. /\ free \in Seq(Nodes) /\ IsInjective(free)
        /\ ToSet(free) = ToSet(cf.free) \cup gone
    <3>1. ToSet(cf.free) \cap ToSet(order) = {}
      BY <2>4, <2>8
    <3> QED
      BY <2>4, <2>8, <3>1, PutFree
  <2> HIDE DEF node, free
  <2>10. Shape(g)
    <3>1. node \in [Nodes -> Block \cup {None}]
      <4>1. \A i \in Nodes : node[i] \in Block \cup {None}
        BY <1>1, <2>7 DEF Shape, Nodes
      <4>2. node = [i \in Nodes |-> node[i]]
        BY DEF node
      <4> QED
        BY <4>1, <4>2
    <3> QED
      BY <1>1, <2>6, <2>7, <2>9, <3>1 DEF Shape, Nodes
  <2>11. FreeOK(g)
    <3>1. ToSet(free) = {i \in Nodes : node[i] = None}
      BY <2>7, <2>8, <2>9
    <3>2. \A i \in Nodes : node[i] # None => g.len[node[i].path] # -1
      BY <2>6, <2>7
    <3>3. \A i, j \in Nodes : node[i] # None /\ node[i] = node[j] => i = j
      BY <1>1, <2>7 DEF FreeOK, Nodes
    <3> QED
      BY <2>6, <2>7, <2>9, <3>1, <3>2, <3>3 DEF FreeOK
  <2>12. Complete(g) /\ Aligned(g, blksz)
    BY <1>1, <2>6, <2>7 DEF Complete, Aligned, Offsets, Nodes
  <2> QED
    BY <2>1, <2>2, <2>6, <2>7, <2>10, <2>11, <2>12 DEF ReturnResult, g
<1> QED
  BY <1>2, <1>3

\* The blocks that stay keep their bytes.
LEMMA WholeReturned ==
  ASSUME NEW f, NEW gone, NEW g, ReturnResult(f, gone, g), f.mb = cf.mb, f.node = cf.node,
         NEW l, NEW p, NEW b, Whole(f, l, p, b)
  PROVE  Whole(g, l, p, b)
<1>1. g.mb = f.mb /\ g.bytes = f.bytes /\ DOMAIN g.node = DOMAIN f.node
  BY DEF ReturnResult, Nodes
<1>2. \A i \in DOMAIN f.node : g.node[i] # None => g.node[i] = f.node[i]
  BY DEF ReturnResult, Nodes
<1> QED
  BY <1>1, <1>2 DEF Whole

\* Outdated changes bytes only.
LEMMA OutdatedFields ==
  ASSUME NEW f, IsFile(f), NEW p, NEW from, NEW to
  PROVE  LET g == Outdated(f, p, from, to) IN
         /\ IsFile(g) /\ g.mb = f.mb /\ g.node = f.node /\ g.free = f.free /\ g.len = f.len
         /\ g.size = f.size /\ g.ok = f.ok /\ g.ncblk1 = f.ncblk1
<1> DEFINE g == Outdated(f, p, from, to)
<1>1. g = With(f, f.node, f.free, f.len, f.size, g.bytes)
  BY OutdatedBytes
<1> HIDE DEF g
<1> DEFINE bytes == g.bytes
<1>2. g = With(f, f.node, f.free, f.len, f.size, bytes)
  BY <1>1
<1> HIDE DEF bytes
<1> QED
  BY <1>2, WithFields DEF g

\* and so do the lengths.
LEMMA LenFields ==
  ASSUME NEW f, IsFile(f), NEW len
  PROVE  LET g == [f EXCEPT !.len = len] IN
         /\ IsFile(g) /\ g.mb = f.mb /\ g.node = f.node /\ g.free = f.free /\ g.len = len
         /\ g.size = f.size /\ g.ok = f.ok /\ g.ncblk1 = f.ncblk1 /\ g.bytes = f.bytes
<1> DEFINE g == [f EXCEPT !.len = len]
<1>1. g = With(f, f.node, f.free, len, f.size, f.bytes)
  BY DEF With, IsFile
<1> HIDE DEF g
<1> QED
  BY <1>1, WithFields DEF g

\* Rm_file_block_table
LEMMA RmStep ==
  ASSUME DTypes, FileInv, run = "up", NEW p \in Paths, Rm_file_block_table(p)
  PROVE  DTypes' /\ FileInv'
<1> DEFINE outdated == Outdated(cf, p, 0, MaxLen)
           len == [cf.len EXCEPT ![p] = -1]
           f == [outdated EXCEPT !.len = len]
           gone == NodesOf(p)
<1>1. /\ nas[p] > 0 /\ nas' = [nas EXCEPT ![p] = 0] /\ odd' = [odd EXCEPT ![p] = "no"]
      /\ Return(f, gone, 0) /\ UNCHANGED <<blksz, starts, ran>>
  <2>1. IsFile(cf)
    BY DEF FileInv
  <2>2. outdated.len = cf.len
    BY <2>1, OutdatedFields
  <2>3. [Outdated(cf, p, 0, MaxLen) EXCEPT !.len[p] = -1] = f
    BY <2>2
  <2> HIDE DEF f, gone
  <2>4. /\ nas[p] > 0 /\ nas' = [nas EXCEPT ![p] = 0] /\ odd' = [odd EXCEPT ![p] = "no"]
        /\ Return([Outdated(cf, p, 0, MaxLen) EXCEPT !.len[p] = -1], NodesOf(p), 0)
        /\ UNCHANGED <<blksz, starts, ran>>
    BY Zenon DEF Rm_file_block_table
  <2> QED
    BY <2>3, <2>4 DEF gone
<1>2. /\ IsFile(cf) /\ Shape(cf) /\ Complete(cf) /\ FreeOK(cf) /\ Aligned(cf, blksz)
      /\ blksz \in Nat \ {0} /\ \A q \in Paths : cf.len[q] <= nas[q]
      /\ \A q \in Paths : odd[q] = "no" =>
           Whole(cf, nas, q, blksz) /\ Reached(cf, nas, q, blksz)
  BY FilesOf
<1>3. cf.len \in [Paths -> -1 .. MaxLen] /\ nas \in [Paths -> 0 .. MaxLen] /\ MaxLen \in Nat
      /\ odd \in [Paths -> {"no", "absent", "other"}]
  BY <1>2, DataAssumption DEF Shape, DTypes
<1>4. /\ len \in [Paths -> -1 .. MaxLen] /\ len[p] = -1
      /\ \A q \in Paths : q # p => len[q] = cf.len[q]
  BY <1>3
<1>5. /\ nas' \in [Paths -> 0 .. MaxLen] /\ odd' \in [Paths -> {"no", "absent", "other"}]
      /\ nas'[p] = 0 /\ \A q \in Paths : q # p => nas'[q] = nas[q] /\ odd'[q] = odd[q]
  BY <1>1, <1>3
<1> HIDE DEF outdated, len
<1>6. /\ IsFile(outdated) /\ outdated.mb = cf.mb /\ outdated.node = cf.node
      /\ outdated.free = cf.free /\ outdated.size = cf.size
      /\ outdated.ok = cf.ok /\ outdated.ncblk1 = cf.ncblk1
  BY <1>2, OutdatedFields DEF outdated
<1>7. /\ IsFile(f) /\ f.mb = cf.mb /\ f.node = cf.node /\ f.free = cf.free /\ f.len = len
      /\ f.size = cf.size /\ f.ok = cf.ok /\ f.ncblk1 = cf.ncblk1 /\ f.bytes = outdated.bytes
  BY <1>6, LenFields
<1> HIDE DEF f
<1>8. /\ gone \in SUBSET Nodes /\ \A i \in gone : cf.node[i] # None
      /\ \A i \in Nodes \ gone : cf.node[i] # None => cf.node[i].path # p
  BY DEF NodesOf
<1>9. \A i \in Nodes \ gone : cf.node[i] # None => f.len[cf.node[i].path] # -1
  <2> SUFFICES ASSUME NEW i \in Nodes \ gone, cf.node[i] # None
               PROVE  f.len[cf.node[i].path] # -1
    OBVIOUS
  <2>1. cf.node[i].path # p /\ cf.node[i].path \in Paths /\ cf.len[cf.node[i].path] # -1
    BY <1>2, <1>8, FilesOf DEF FreeOK, Nodes, Block
  <2> QED
    BY <1>4, <1>7, <2>1
<1> HIDE DEF gone
<1>10. \/ run' = "up" /\ ReturnResult(f, gone, cf')
       \/ run' = "line116" /\ cf' = f /\ ~(ran \subseteq {cf.mb.cblksize})
  BY <1>1, <1>4, <1>7, <1>8, <1>9, ReturnedNodes
<1>11. DTypes'
  BY <1>5, <1>10 DEF DTypes, Stops
<1>12. \A q \in Paths : f.len[q] <= nas'[q]
  BY <1>2, <1>3, <1>4, <1>5, <1>7
<1>13. CASE run' = "up" /\ ReturnResult(f, gone, cf')
  <2>1. ASSUME NEW q \in Paths, odd'[q] = "no"
        PROVE  Whole(cf', nas', q, blksz)
    <3>1. CASE q = p
      <4>1. DOMAIN cf'.node = Nodes
            /\ \A i \in Nodes : cf'.node[i] # None => cf.node[i] = cf'.node[i] /\ i \notin gone
        BY <1>13 DEF ReturnResult
      <4>2. \A i \in Nodes : cf'.node[i] # None => cf'.node[i].path # p
        BY <1>8, <4>1
      <4> QED
        BY <3>1, <4>1, <4>2, WholeWithout
    <3>2. CASE q # p
      <4>1. Whole(cf, nas, q, blksz) /\ nas'[q] = nas[q]
        BY <1>2, <1>5, <2>1, <3>2
      <4>2. 0 \in Int /\ MaxLen \in Int
        BY <1>3
      <4>3. Whole(outdated, nas', q, blksz)
        BY <1>2, <3>2, <4>1, <4>2, WholeOutdated DEF outdated
      <4>4. Whole(f, nas', q, blksz)
        BY <1>6, <1>7, <4>3 DEF Whole
      <4> QED
        BY <1>7, <1>13, <4>4, WholeReturned
    <3> QED
      BY <3>1, <3>2
  <2>2. /\ IsFile(cf') /\ Shape(cf') /\ Complete(cf') /\ FreeOK(cf') /\ Aligned(cf', blksz)
        /\ cf'.mb = cf.mb /\ cf'.len = f.len
    BY <1>13 DEF ReturnResult
  <2>3. ASSUME NEW q \in Paths, odd'[q] = "no"
        PROVE  Reached(cf', nas', q, blksz)
    <3>1. DOMAIN cf'.node = Nodes
          /\ \A i \in Nodes : cf'.node[i] # None => cf.node[i] = cf'.node[i] /\ i \notin gone
      BY <1>13 DEF ReturnResult
    <3>2. CASE q = p
      <4>1. \A i \in Nodes : cf'.node[i] # None => cf'.node[i].path # p
        BY <1>8, <3>1
      <4> QED
        BY <3>1, <3>2, <4>1, ReachedWithout
    <3>3. CASE q # p
      <4>1. Reached(cf, nas, q, blksz) /\ nas'[q] = nas[q] /\ cf'.len[q] = cf.len[q]
        BY <1>2, <1>4, <1>5, <1>7, <2>2, <2>3, <3>3
      <4> QED
        BY <3>1, <4>1, ReachedKept DEF Nodes
    <3> QED
      BY <3>2, <3>3
  <2> QED
    BY <1>1, <1>11, <1>12, <1>13, <2>1, <2>2, <2>3, UpStep DEF Stops
<1>14. CASE run' = "line116" /\ cf' = f /\ ~(ran \subseteq {cf.mb.cblksize})
  <2>1. Shape(f)
    BY <1>2, <1>4, <1>7 DEF Shape
  <2>2. Complete(f) /\ Aligned(f, blksz)
    BY <1>2, <1>7 DEF Complete, Aligned, Offsets
  <2> QED
    BY <1>1, <1>7, <1>11, <1>12, <1>14, <2>1, <2>2, UpStep DEF Stops, Halfway
<1> QED
  BY <1>10, <1>11, <1>13, <1>14

\* Truncate_file_block_table
LEMMA TruncateStep ==
  ASSUME DTypes, FileInv, run = "up", NEW p \in Paths, NEW off \in 0 .. MaxLen,
         Truncate_file_block_table(p, off)
  PROVE  DTypes' /\ FileInv'
<1> DEFINE outdated == Outdated(cf, p, off, MaxLen)
           len == LenCut(p, off)
           f == [outdated EXCEPT !.len = len]
           gone == {i \in NodesOf(p) : cf.node[i].off > off}
<1>1. /\ 0 < off /\ off <= MaxLen
      /\ nas' = [nas EXCEPT ![p] = off]
      /\ odd' = [odd EXCEPT ![p] = IF Cached(p) /\ off > nas[p] THEN "other" ELSE odd[p]]
      /\ IF cf.len[p] < off THEN cf' = outdated /\ UNCHANGED run ELSE Return(f, gone, off)
      /\ UNCHANGED <<blksz, starts, ran>>
  BY Zenon DEF Truncate_file_block_table
<1>2. /\ IsFile(cf) /\ Shape(cf) /\ Complete(cf) /\ FreeOK(cf) /\ Aligned(cf, blksz)
      /\ blksz \in Nat \ {0} /\ \A q \in Paths : cf.len[q] <= nas[q]
      /\ \A q \in Paths : odd[q] = "no" =>
           Whole(cf, nas, q, blksz) /\ Reached(cf, nas, q, blksz)
  BY FilesOf
<1>3. cf.len \in [Paths -> -1 .. MaxLen] /\ nas \in [Paths -> 0 .. MaxLen] /\ MaxLen \in Nat
      /\ odd \in [Paths -> {"no", "absent", "other"}] /\ off \in Nat
  BY <1>2, DataAssumption DEF Shape, DTypes
<1>4. /\ len \in [Paths -> -1 .. MaxLen] /\ len[p] = off /\ off \in -1 .. MaxLen /\ off # -1
      /\ \A q \in Paths : q # p => len[q] = cf.len[q]
  BY <1>3 DEF LenCut
<1>5. /\ nas' \in [Paths -> 0 .. MaxLen] /\ odd' \in [Paths -> {"no", "absent", "other"}]
      /\ nas'[p] = off /\ \A q \in Paths : q # p => nas'[q] = nas[q] /\ odd'[q] = odd[q]
      /\ (odd'[p] = "no" => odd[p] = "no" /\ ~(Cached(p) /\ off > nas[p]))
  BY <1>1, <1>3
<1> HIDE DEF outdated, len
<1>6. /\ IsFile(outdated) /\ outdated.mb = cf.mb /\ outdated.node = cf.node
      /\ outdated.free = cf.free /\ outdated.len = cf.len /\ outdated.size = cf.size
      /\ outdated.ok = cf.ok /\ outdated.ncblk1 = cf.ncblk1
  BY <1>2, OutdatedFields DEF outdated
<1>7. /\ IsFile(f) /\ f.mb = cf.mb /\ f.node = cf.node /\ f.free = cf.free /\ f.len = len
      /\ f.size = cf.size /\ f.ok = cf.ok /\ f.ncblk1 = cf.ncblk1 /\ f.bytes = outdated.bytes
  BY <1>6, LenFields
<1> HIDE DEF f
<1>8. ASSUME NEW q \in Paths, odd'[q] = "no"
      PROVE  Whole(outdated, nas', q, blksz)
  <2>1. off \in Int /\ MaxLen \in Int
    BY <1>3
  <2>2. CASE q # p
    <3>1. Whole(cf, nas, q, blksz) /\ nas'[q] = nas[q]
      BY <1>2, <1>5, <1>8, <2>2
    <3> QED
      BY <1>2, <2>1, <2>2, <3>1, WholeOutdated DEF outdated
  <2>3. CASE q = p /\ ~Cached(p)
    <3>1. \A i \in Nodes : cf.node[i] # None => cf.node[i].path # p
      BY <2>3, FilesOf DEF NodesOf
    <3> QED
      BY <1>6, <2>3, <3>1, WholeWithout DEF Nodes
  <2>4. CASE q = p /\ Cached(p)
    <3>1. Whole(cf, nas, p, blksz) /\ off <= nas[p] /\ nas'[p] = off /\ nas[p] \in Int
      BY <1>2, <1>3, <1>5, <1>8, <2>4
    <3>2. \A i \in DOMAIN cf.node : cf.node[i] # None => cf.node[i].off \in Nat
      BY FilesOf DEF Block, Nodes
    <3>3. ASSUME NEW i \in DOMAIN cf.node, NEW k \in 0 .. blksz - 1,
                 cf.node[i] # None, cf.node[i].path = p, cf.node[i].off + k < off
          PROVE  /\ (i * cf.mb.cblksize) + k \in DOMAIN outdated.bytes
                 /\ outdated.bytes[(i * cf.mb.cblksize) + k] = <<p, cf.node[i].off + k>>
      <4> DEFINE x == (i * cf.mb.cblksize) + k
                 o == cf.node[i].off + k
      <4>1. o < nas[p] /\ o \notin off .. MaxLen - 1
        <5>1. cf.node[i].off \in Nat /\ k \in Int
          BY <1>2, <3>2, <3>3
        <5> QED
          BY <1>3, <3>1, <3>3, <5>1
      <4>2. x \in DOMAIN cf.bytes /\ cf.bytes[x] = <<p, o>>
        BY <3>1, <3>3, <4>1 DEF Whole
      <4> HIDE DEF x, o
      <4>3. x \in DOMAIN outdated.bytes /\ outdated.bytes[x] = <<p, o>>
        BY <1>2, <4>1, <4>2, OutdatedBytes DEF outdated
      <4> QED
        BY <4>3 DEF x, o
    <3> QED
      BY <1>6, <2>4, <3>1, <3>3 DEF Whole
  <2> QED
    BY <2>2, <2>3, <2>4
<1>11. ASSUME NEW q \in Paths, odd'[q] = "no", q # p,
              DOMAIN cf'.node = Nodes, cf'.len[q] = cf.len[q],
              \A i \in Nodes : cf'.node[i] # None => cf'.node[i] = cf.node[i]
       PROVE  Reached(cf', nas', q, blksz)
  <2>1. Reached(cf, nas, q, blksz) /\ nas'[q] = nas[q]
    BY <1>2, <1>5, <1>11
  <2> QED
    BY <1>11, <2>1, ReachedKept DEF Nodes
<1>9. CASE cf.len[p] < off
  <2>1. cf' = outdated /\ run' = "up"
    BY <1>1, <1>9
  <2>5. ASSUME NEW q \in Paths, odd'[q] = "no"
        PROVE  Reached(cf', nas', q, blksz)
    <3>1. CASE q # p
      BY <1>6, <1>11, <2>1, <2>5, <3>1 DEF Nodes
    <3>2. CASE q = p /\ ~Cached(p)
      <4>1. \A i \in Nodes : cf.node[i] # None => cf.node[i].path # p
        BY <3>2, FilesOf DEF NodesOf
      <4> QED
        BY <1>6, <2>1, <3>2, <4>1, ReachedWithout DEF Nodes
    <3>3. CASE q = p /\ Cached(p)
      <4>1. Reached(cf, nas, p, blksz) /\ off <= nas[p] /\ nas'[p] = off
        BY <1>2, <1>3, <1>5, <2>5, <3>3
      <4>2. \A i \in DOMAIN cf.node : cf.node[i] # None => cf.node[i].off \in Int
        BY FilesOf DEF Nodes, Block
      <4>3. nas[p] \in Int /\ cf.len[p] \in Int /\ off \in Int
        BY <1>3
      <4> QED
        BY <1>2, <1>6, <2>1, <3>3, <4>1, <4>2, <4>3, ReachedRaised
    <3> QED
      BY <3>1, <3>2, <3>3
  <2>2. DTypes'
    BY <1>5, <2>1 DEF DTypes
  <2>3. \A q \in Paths : cf'.len[q] <= nas'[q]
    BY <1>2, <1>3, <1>5, <1>6, <1>9, <2>1
  <2>4. Shape(outdated) /\ FreeOK(outdated) /\ Aligned(outdated, blksz) /\ Complete(outdated)
    BY <1>2, <1>3, <1>6, SameNodes
  <2> QED
    BY <1>1, <1>6, <1>8, <2>1, <2>2, <2>3, <2>4, <2>5, UpStep DEF Stops
<1>10. CASE ~(cf.len[p] < off)
  <2>1. Return(f, gone, off)
    BY <1>1, <1>10
  <2>2. gone \in SUBSET Nodes /\ \A i \in gone : cf.node[i] # None
    BY DEF NodesOf
  <2>3. \A i \in Nodes \ gone : cf.node[i] # None => f.len[cf.node[i].path] # -1
    <3> SUFFICES ASSUME NEW i \in Nodes, cf.node[i] # None
                 PROVE  f.len[cf.node[i].path] # -1
      OBVIOUS
    <3>1. cf.node[i].path \in Paths /\ cf.len[cf.node[i].path] # -1
      BY <1>2, FilesOf DEF FreeOK, Nodes, Block
    <3> QED
      BY <1>4, <1>7, <3>1
  <2> HIDE DEF gone
  <2>4. \/ run' = "up" /\ ReturnResult(f, gone, cf')
        \/ run' = "line116" /\ cf' = f /\ ~(ran \subseteq {cf.mb.cblksize})
    BY <1>4, <1>7, <2>1, <2>2, <2>3, ReturnedNodes
  <2>5. DTypes'
    BY <1>5, <2>4 DEF DTypes, Stops
  <2>6. \A q \in Paths : f.len[q] <= nas'[q]
    BY <1>2, <1>3, <1>4, <1>5, <1>7
  <2>7. CASE run' = "up" /\ ReturnResult(f, gone, cf')
    <3>1. ASSUME NEW q \in Paths, odd'[q] = "no"
          PROVE  Whole(cf', nas', q, blksz)
      <4>1. Whole(outdated, nas', q, blksz)
        BY <1>8, <3>1
      <4>2. Whole(f, nas', q, blksz)
        BY <1>6, <1>7, <4>1 DEF Whole
      <4> QED
        BY <1>7, <2>7, <4>2, WholeReturned
    <3>2. /\ IsFile(cf') /\ Shape(cf') /\ Complete(cf') /\ FreeOK(cf') /\ Aligned(cf', blksz)
          /\ cf'.mb = cf.mb /\ cf'.len = f.len
      BY <2>7 DEF ReturnResult
    <3>3. ASSUME NEW q \in Paths, odd'[q] = "no"
          PROVE  Reached(cf', nas', q, blksz)
      <4>1. DOMAIN cf'.node = Nodes
            /\ \A i \in Nodes : cf'.node[i] # None => cf'.node[i] = cf.node[i] /\ i \notin gone
        BY <2>7 DEF ReturnResult
      <4>2. CASE q # p
        BY <1>4, <1>7, <1>11, <3>2, <3>3, <4>1, <4>2
      <4>3. CASE q = p
        <5>1. cf'.len[p] = off /\ nas'[p] = off
          BY <1>4, <1>5, <1>7, <3>2
        <5>2. \A i \in Nodes : cf'.node[i] # None /\ cf'.node[i].path = p =>
                cf'.node[i].off \in Int /\ ~(cf'.node[i].off > off)
          BY <4>1, FilesOf DEF gone, NodesOf, Block
        <5>3. off \in Int /\ off <= off
          BY <1>3
        <5>4. \A i \in Nodes : cf'.node[i] # None /\ cf'.node[i].path = p =>
                cf'.node[i].off <= off
          BY <5>2, <5>3
        <5> QED
          BY <4>1, <4>3, <5>1, <5>3, <5>4 DEF Reached
      <4> QED
        BY <4>2, <4>3
    <3> QED
      BY <1>1, <2>5, <2>6, <2>7, <3>1, <3>2, <3>3, UpStep DEF Stops
  <2>8. CASE run' = "line116" /\ cf' = f /\ ~(ran \subseteq {cf.mb.cblksize})
    <3>1. Shape(f)
      BY <1>2, <1>4, <1>7 DEF Shape
    <3>2. Complete(f) /\ Aligned(f, blksz)
      BY <1>2, <1>7 DEF Complete, Aligned, Offsets
    <3> QED
      BY <1>1, <1>7, <2>5, <2>6, <2>8, <3>1, <3>2, UpStep DEF Stops, Halfway
  <2> QED
    BY <2>4, <2>5, <2>7, <2>8
<1> QED
  BY <1>9, <1>10

\* A block that is present is written where the data belong.
LEMMA WholeOverwritten ==
  ASSUME DTypes, FileInv, run = "up", NEW p \in Paths, NEW off \in Nat, NEW len \in Nat \ {0},
         Blockoff(off) + blksz >= off + len, NEW i \in Lookup(p, off),
         NEW g, g.mb = cf.mb, g.node = cf.node,
         g.bytes = BytesWith(Outdated(cf, p, off, off + len).bytes,
                             i * cf.mb.cblksize + (off % blksz), p, off, len),
         NEW m, NEW q \in Paths, Whole(cf, nas, q, blksz),
         q # p => m[q] = nas[q],
         q = p => off <= nas[p] /\ m[p] \in {nas[p], off + len}
  PROVE  Whole(g, m, q, blksz)
<1> DEFINE old == Outdated(cf, p, off, off + len)
           c == cf.mb.cblksize
           r == off % blksz
           begin == off - r
           u == i * c
           a == u + r
<1>1. /\ IsFile(cf) /\ Shape(cf) /\ Complete(cf) /\ FreeOK(cf) /\ Aligned(cf, blksz)
      /\ blksz \in Nat \ {0}
  BY FilesOf
<1>2. /\ i \in Nodes /\ cf.node[i] # None /\ cf.node[i].path = p /\ cf.node[i].off = begin
      /\ cf.node[i] \in Block
  BY FilesOf DEF Lookup, NodesOf, Blockoff
<1>3. /\ r \in 0 .. blksz - 1 /\ begin \in Nat /\ begin % blksz = 0 /\ begin + blksz >= off + len
  BY <1>1, BlockBegin DEF Blockoff
<1>4. g.bytes = BytesWith(old.bytes, a, p, off, len)
  OBVIOUS
<1>5. u \in Int /\ u % blksz = 0 /\ \A j \in Nodes : j * c \in Int
  BY <1>1, <1>2, Places DEF Nodes, Aligned
<1>6. off = begin + r
  <2>1. off \in Int /\ r \in Int
    BY <1>3, <1>1
  <2> HIDE DEF r
  <2> QED
    BY <2>1
<1> HIDE DEF old, r, begin
<1> SUFFICES ASSUME NEW j \in Nodes, NEW k \in 0 .. blksz - 1,
                    cf.node[j] # None, cf.node[j].path = q, cf.node[j].off + k < m[q]
             PROVE  /\ (j * c) + k \in DOMAIN g.bytes
                    /\ g.bytes[(j * c) + k] = <<q, cf.node[j].off + k>>
  BY DEF Whole, Nodes
<1> DEFINE v == j * c
           x == v + k
           o == cf.node[j].off + k
<1>7. /\ cf.node[j] \in Block /\ cf.node[j].off \in Nat /\ cf.node[j].off % blksz = 0
      /\ v % blksz = 0 /\ v \in Int /\ k \in Int
  BY <1>1, <1>5, FilesOf DEF Aligned, Offsets, Nodes, Block
<1>8. x \in Int /\ a \in Int
  <2> HIDE DEF v, u
  <2> QED
    BY <1>1, <1>3, <1>5, <1>7
<1>9. CASE q = p /\ o \in off .. off + len - 1
  <2>1. cf.node[j].off = begin
    <3> DEFINE e == cf.node[j].off
    <3>1. e \in Int /\ begin \in Int /\ e % blksz = 0
      BY <1>3, <1>7
    <3>2. e + k >= off /\ e + k <= off + len - 1
      BY <1>7, <1>9
    <3>3. CASE e < begin
      <4>1. e + blksz <= begin
        BY <1>1, <1>3, <3>1, <3>3, MultiplesApart
      <4> HIDE DEF e
      <4> QED
        BY <1>1, <1>3, <1>6, <3>1, <3>2, <4>1
    <3>4. CASE begin < e
      <4>1. begin + blksz <= e
        BY <1>1, <1>3, <3>1, <3>4, MultiplesApart
      <4> HIDE DEF e
      <4> QED
        BY <1>1, <1>3, <1>6, <3>1, <3>2, <4>1
    <3> QED
      BY <3>1, <3>3, <3>4
  <2>2. j = i
    <3>1. cf.node[j] = cf.node[i]
      BY <1>2, <1>7, <1>9, <2>1 DEF Block
    <3> QED
      BY <1>1, <1>2, <3>1 DEF FreeOK, Nodes
  <2>3. v = u
    BY <2>2
  <2>4. x \in a .. a + len - 1 /\ off + (x - a) = o
    <3>1. begin + k \in off .. off + len - 1 /\ o = begin + k
      BY <1>9, <2>1
    <3> HIDE DEF v, u, o
    <3> QED
      BY <1>1, <1>3, <1>5, <1>6, <1>7, <2>3, <3>1
  <2> HIDE DEF x, a, o
  <2>5. x \in DOMAIN g.bytes /\ g.bytes[x] = <<p, off + (x - a)>>
    BY <1>4, <1>8, <2>4, Written
  <2> QED
    BY <1>9, <2>4, <2>5 DEF x, o
<1>10. CASE ~(q = p /\ o \in off .. off + len - 1)
  <2>1. o < nas[q] /\ (q # p \/ o \notin off .. (off + len) - 1) /\ o \in Int
    <3>1. o \in Int /\ nas[q] \in Int /\ o < m[q]
      BY <1>7 DEF DTypes
    <3> HIDE DEF o
    <3> QED
      BY <1>10, <3>1
  <2>2. x \in DOMAIN cf.bytes /\ cf.bytes[x] = <<q, o>>
    BY <2>1 DEF Whole, Nodes
  <2> HIDE DEF x, o
  <2>3. x \in DOMAIN old.bytes /\ old.bytes[x] = <<q, o>>
    BY <1>1, <2>1, <2>2, OutdatedBytes DEF old
  <2>4. x \notin a .. a + len - 1
    <3>1. CASE j = i
      <4>1. q = p /\ o = begin + k /\ x = u + k
        BY <1>2, <3>1 DEF o, x
      <4> HIDE DEF u
      <4> QED
        BY <1>1, <1>3, <1>5, <1>6, <1>10, <4>1
    <3>2. CASE j # i
      <4>1. u + blksz <= v \/ v + blksz <= u
        BY <1>1, <1>2, <1>5, <1>7, <3>2, OtherBlock DEF Nodes
      <4>2. x = v + k
        BY DEF x
      <4> HIDE DEF u, v
      <4> QED
        BY <1>1, <1>3, <1>5, <1>6, <1>7, <4>1, <4>2
    <3> QED
      BY <3>1, <3>2
  <2> HIDE DEF a
  <2>5. x \in DOMAIN g.bytes /\ g.bytes[x] = old.bytes[x]
    BY <1>4, <1>8, <2>3, <2>4, Written
  <2> QED
    BY <2>3, <2>5 DEF x, o
<1> QED
  BY <1>9, <1>10

\* Insert_RSC_table of what a user writes
LEMMA WriteStep ==
  ASSUME DTypes, FileInv, run = "up", NEW p \in Paths, NEW off \in 0 .. MaxLen,
         NEW len \in 1 .. blksz, Write(p, off, len)
  PROVE  DTypes' /\ FileInv'
<1> DEFINE outdated == Outdated(cf, p, off, off + len)
<1>1. /\ off + len <= MaxLen
      /\ Blockoff(off) + blksz >= off + len
      /\ nas' = [nas EXCEPT ![p] = IF nas[p] < off + len THEN off + len ELSE nas[p]]
      /\ odd' = [odd EXCEPT ![p] = OddAfter(p, off)]
      /\ UNCHANGED <<blksz, starts, ran>>
      /\ \/ /\ ~Cached(p) \/ (Lookup(p, off) = {} /\ cf.free = <<>>)
            /\ cf' = outdated /\ UNCHANGED run
         \/ /\ Cached(p)
            /\ \E i \in Lookup(p, off) :
                 /\ run' = IF WriteFits(i, (off % blksz) + len) THEN "up" ELSE "line83"
                 /\ cf' = IF run' = "up" THEN Overwrite(p, i, off, len) ELSE outdated
         \/ /\ Cached(p) /\ Lookup(p, off) = {} /\ cf.free # <<>>
            /\ run' = InsertStop(cf, len)
            /\ cf' = IF run' = "up" THEN InsertBlock(outdated, p, off, len) ELSE outdated
  BY Zenon DEF Write
<1>2. /\ IsFile(cf) /\ Shape(cf) /\ Complete(cf) /\ FreeOK(cf) /\ Aligned(cf, blksz)
      /\ blksz \in Nat \ {0} /\ \A q \in Paths : cf.len[q] <= nas[q]
      /\ \A q \in Paths : odd[q] = "no" =>
           Whole(cf, nas, q, blksz) /\ Reached(cf, nas, q, blksz)
  BY FilesOf
<1>3. /\ cf.len \in [Paths -> -1 .. MaxLen] /\ nas \in [Paths -> 0 .. MaxLen] /\ MaxLen \in Nat
      /\ odd \in [Paths -> {"no", "absent", "other"}] /\ off \in Nat /\ len \in Nat \ {0}
      /\ len <= blksz /\ off + len \in 0 .. MaxLen
  <2>1. off + len <= MaxLen /\ MaxLen \in Nat
    BY <1>1, DataAssumption
  <2> QED
    BY <1>2, <2>1 DEF Shape, DTypes
<1>4. OddAfter(p, off) \in {"no", "absent", "other"}
  BY <1>3 DEF OddAfter
<1>5. /\ nas' \in [Paths -> 0 .. MaxLen] /\ odd' \in [Paths -> {"no", "absent", "other"}]
      /\ nas'[p] \in {nas[p], off + len} /\ nas'[p] >= nas[p] /\ nas'[p] >= off + len
      /\ odd'[p] = OddAfter(p, off)
      /\ \A q \in Paths : q # p => nas'[q] = nas[q] /\ odd'[q] = odd[q]
  <2> DEFINE to == off + len
  <2>1. to \in 0 .. MaxLen
    BY <1>3
  <2>2. nas' = [nas EXCEPT ![p] = IF nas[p] < to THEN to ELSE nas[p]]
    BY <1>1
  <2> HIDE DEF to
  <2>3. /\ nas' \in [Paths -> 0 .. MaxLen] /\ nas'[p] \in {nas[p], to}
        /\ nas'[p] >= nas[p] /\ nas'[p] >= to
        /\ \A q \in Paths : q # p => nas'[q] = nas[q]
    BY <1>3, <2>1, <2>2
  <2>4. /\ odd' \in [Paths -> {"no", "absent", "other"}] /\ odd'[p] = OddAfter(p, off)
        /\ \A q \in Paths : q # p => odd'[q] = odd[q]
    BY <1>1, <1>3, <1>4
  <2> QED
    BY <2>3, <2>4 DEF to
<1>6. \A q \in Paths : nas'[q] >= nas[q] /\ cf.len[q] <= nas'[q]
  <2>1. \A q \in Paths : nas[q] \in Int /\ cf.len[q] \in Int /\ nas'[q] \in Int
    BY <1>3, <1>5
  <2> QED
    BY <1>2, <1>5, <2>1
<1> HIDE DEF outdated
<1>7. /\ IsFile(outdated) /\ outdated.mb = cf.mb /\ outdated.node = cf.node
      /\ outdated.free = cf.free /\ outdated.len = cf.len /\ outdated.size = cf.size
      /\ outdated.ok = cf.ok /\ outdated.ncblk1 = cf.ncblk1
  BY <1>2, OutdatedFields DEF outdated
<1>8. Shape(outdated) /\ FreeOK(outdated) /\ Aligned(outdated, blksz) /\ Complete(outdated)
  BY <1>2, <1>3, <1>7, SameNodes
<1>9. ASSUME NEW q \in Paths, q # p, odd'[q] = "no"
      PROVE  /\ Whole(cf, nas, q, blksz) /\ Whole(outdated, nas', q, blksz)
             /\ Reached(cf, nas, q, blksz) /\ nas'[q] = nas[q]
  <2>1. Whole(cf, nas, q, blksz) /\ Reached(cf, nas, q, blksz) /\ nas'[q] = nas[q]
    BY <1>2, <1>5, <1>9
  <2>2. off \in Int /\ off + len \in Int
    BY <1>3
  <2> QED
    BY <1>2, <1>9, <2>1, <2>2, WholeOutdated DEF outdated
<1>13. ASSUME NEW q \in Paths, q # p, odd'[q] = "no"
       PROVE  Reached(outdated, nas', q, blksz)
  BY <1>7, <1>9, <1>13, ReachedKept
<1>10. CASE /\ ~Cached(p) \/ (Lookup(p, off) = {} /\ cf.free = <<>>)
            /\ cf' = outdated /\ UNCHANGED run
  <2>1. odd'[p] = "no" => ~Cached(p)
    BY <1>5, <1>10 DEF OddAfter
  <2>2. ASSUME NEW q \in Paths, odd'[q] = "no"
        PROVE  Whole(outdated, nas', q, blksz) /\ Reached(outdated, nas', q, blksz)
    <3>1. CASE q = p
      <4>1. \A i \in Nodes : cf.node[i] # None => cf.node[i].path # p
        BY <2>1, <2>2, <3>1, FilesOf DEF NodesOf
      <4> QED
        BY <1>7, <3>1, <4>1, WholeWithout, ReachedWithout DEF Nodes
    <3>2. CASE q # p
      BY <1>9, <1>13, <2>2, <3>2
    <3> QED
      BY <3>1, <3>2
  <2>3. DTypes'
    BY <1>5, <1>10 DEF DTypes
  <2>4. cf' = outdated /\ run' = "up"
    BY <1>10
  <2>5. \A q \in Paths : cf'.len[q] <= nas'[q]
    BY <1>6, <1>7, <2>4
  <2> QED
    BY <1>1, <1>7, <1>8, <2>2, <2>3, <2>4, <2>5, UpStep DEF Stops
<1>11. ASSUME Cached(p), NEW i \in Lookup(p, off), WriteFits(i, (off % blksz) + len),
              run' = "up", cf' = Overwrite(p, i, off, len)
       PROVE  DTypes' /\ FileInv'
  <2>1. cf' = Overwrite(p, i, off, len)
    BY <1>11
  <2> DEFINE bytes == BytesWith(outdated.bytes, i * cf.mb.cblksize + (off % blksz), p, off, len)
             lens == LenWith(p, off + len)
             g == [cf EXCEPT !.len = lens, !.bytes = bytes]
  <2>2. cf' = g
    BY <2>1 DEF Overwrite, outdated
  <2> HIDE DEF lens, bytes
  <2>3. /\ IsFile(g) /\ g.mb = cf.mb /\ g.node = cf.node /\ g.free = cf.free /\ g.len = lens
        /\ g.size = cf.size /\ g.ok = cf.ok /\ g.ncblk1 = cf.ncblk1 /\ g.bytes = bytes
    <3> DEFINE h == [cf EXCEPT !.len = lens]
    <3>1. g = [h EXCEPT !.bytes = bytes]
      OBVIOUS
    <3>2. /\ IsFile(h) /\ h.mb = cf.mb /\ h.node = cf.node /\ h.free = cf.free /\ h.len = lens
          /\ h.size = cf.size /\ h.ok = cf.ok /\ h.ncblk1 = cf.ncblk1
      BY <1>2, LenFields
    <3> HIDE DEF g, h
    <3>3. g = With(h, h.node, h.free, h.len, h.size, bytes)
      BY <3>1, <3>2 DEF With, IsFile
    <3> QED
      BY <3>2, <3>3, WithFields
  <2> HIDE DEF g
  <2>5. /\ lens \in [Paths -> -1 .. MaxLen] /\ lens[p] \in {cf.len[p], off + len} /\ lens[p] # -1
        /\ \A q \in Paths : q # p => lens[q] = cf.len[q]
    BY <1>3, LenRaised DEF lens
  <2>12. lens[p] >= cf.len[p] /\ lens[p] >= off + len /\ lens[p] \in Int
    BY <1>3, LenRaised DEF lens
  <2>6. Shape(g) /\ FreeOK(g) /\ Aligned(g, blksz) /\ Complete(g)
    BY <1>2, <2>3, <2>5, SameNodes
  <2>7. \A q \in Paths : g.len[q] <= nas'[q]
    BY <1>5, <1>6, <2>3, <2>5
  <2>8. odd'[p] = "no" => odd[p] = "no" /\ off <= cf.len[p]
    <3>1. odd'[p] = "no" => odd[p] = "no" /\ ~(off > cf.len[p])
      BY <1>5, <1>11 DEF OddAfter
    <3>2. cf.len[p] \in Int /\ off \in Int
      BY <1>3
    <3> QED
      BY <3>1, <3>2
  <2>9. ASSUME NEW q \in Paths, odd'[q] = "no"
        PROVE  Whole(g, nas', q, blksz)
    <3>1. Whole(cf, nas, q, blksz)
      BY <1>2, <1>5, <2>8, <2>9
    <3>2. q = p => off <= nas[p] /\ nas'[p] \in {nas[p], off + len}
      <4>1. cf.len[p] \in Int /\ nas[p] \in Int /\ off \in Int /\ cf.len[p] <= nas[p]
        BY <1>2, <1>3
      <4> QED
        BY <1>5, <2>8, <2>9, <4>1
    <3>3. q # p => nas'[q] = nas[q]
      BY <1>5
    <3>4. g.bytes = BytesWith(Outdated(cf, p, off, off + len).bytes,
                              i * cf.mb.cblksize + (off % blksz), p, off, len)
      BY <2>3 DEF bytes, outdated
    <3> QED
      BY <1>1, <1>3, <2>3, <3>1, <3>2, <3>3, <3>4, WholeOverwritten
  <2>10. DTypes'
    BY <1>5, <1>11 DEF DTypes
  <2>11. run' = "up"
    BY <1>11
  <2>13. ASSUME NEW q \in Paths, odd'[q] = "no"
         PROVE  Reached(g, nas', q, blksz)
    <3>1. CASE q # p
      <4>1. Reached(cf, nas, q, blksz) /\ nas'[q] = nas[q] /\ g.len[q] = cf.len[q]
        BY <1>9, <2>3, <2>5, <2>13, <3>1
      <4> QED
        BY <2>3, <4>1, ReachedKept
    <3>2. CASE q = p
      <4>1. Reached(cf, nas, p, blksz)
        BY <1>2, <2>8, <2>13, <3>2
      <4>2. \A j \in DOMAIN cf.node : cf.node[j] # None => cf.node[j].off \in Int
        BY FilesOf DEF Nodes, Block
      <4>3. /\ cf.len[p] \in Int /\ nas[p] \in Int /\ nas'[p] \in Int
            /\ g.len[p] >= cf.len[p] /\ g.len[p] >= off + len /\ g.len[p] \in Int
        BY <1>3, <1>5, <2>3, <2>12
      <4>4. nas'[p] <= nas[p] \/ nas'[p] <= g.len[p]
        BY <1>3, <1>5, <4>3
      <4> QED
        BY <1>2, <2>3, <3>2, <4>1, <4>2, <4>3, <4>4, ReachedRaised
    <3> QED
      BY <3>1, <3>2
  <2> QED
    BY <1>1, <2>2, <2>3, <2>6, <2>7, <2>9, <2>10, <2>11, <2>13, UpStep DEF Stops
<1>14. ASSUME Cached(p), NEW i \in Lookup(p, off), ~WriteFits(i, (off % blksz) + len),
              run' = "line83", cf' = outdated
       PROVE  DTypes' /\ FileInv'
  <2>1. ~(ran \subseteq {cf.mb.cblksize})
    <3> DEFINE r == off % blksz
    <3>1. i \in Nodes
      BY DEF Lookup, NodesOf
    <3>2. r \in 0 .. blksz - 1
      BY <1>2, <1>3, BlockBegin
    <3>3. off - r + blksz >= off + len
      BY <1>1 DEF Blockoff
    <3>4. ~WriteFits(i, r + len)
      BY <1>14
    <3> HIDE DEF r
    <3>5. r + len \in 0 .. blksz
      BY <1>2, <1>3, <3>2, <3>3
    <3> QED
      BY <3>1, <3>4, <3>5, StopsOnOther
  <2>2. DTypes'
    BY <1>5, <1>14 DEF DTypes, Stops
  <2>3. \A q \in Paths : cf'.len[q] <= nas'[q]
    BY <1>6, <1>7, <1>14
  <2> QED
    BY <1>1, <1>7, <1>8, <1>14, <2>1, <2>2, <2>3, UpStep DEF Stops, Halfway
<1>12. CASE /\ Cached(p) /\ Lookup(p, off) = {} /\ cf.free # <<>>
            /\ run' = InsertStop(cf, len)
            /\ cf' = IF run' = "up" THEN InsertBlock(outdated, p, off, len) ELSE outdated
  <2>1. run' \in {"up", "line191", "line350", "line83"}
    BY <1>12 DEF InsertStop
  <2>2. DTypes'
    BY <1>5, <2>1 DEF DTypes, Stops
  <2>3. odd'[p] # "no"
    BY <1>5, <1>12 DEF OddAfter
  <2>4. CASE run' = "up"
    <3> DEFINE g == InsertBlock(outdated, p, off, len)
               begin == off - (off % blksz)
    <3>1. InsertStop(outdated, len) = InsertStop(cf, len)
      BY <1>7 DEF InsertStop
    <3>2. CanInsert(outdated, p, off, len)
      BY <1>1, <1>3, <1>7, <1>12, <2>4, <3>1 DEF CanInsert
    <3>3. InsertResult(outdated, p, off, len, g, Head(outdated.free))
      BY <3>2, Inserted
    <3>4. cf' = g
      BY <1>12, <2>4
    <3> HIDE DEF g
    <3>5. /\ IsFile(g) /\ g.mb = cf.mb /\ g.len = LenWith(p, begin + len)
          /\ g.node = [cf.node EXCEPT ![Head(outdated.free)] = [path |-> p, off |-> begin]]
          /\ Shape(g) /\ Complete(g) /\ FreeOK(g) /\ Aligned(g, blksz)
      BY <3>3 DEF InsertResult
    <3>6. begin \in Nat /\ begin <= off
      <4> DEFINE r == off % blksz
      <4>1. off - r \in Nat /\ r \in 0 .. blksz - 1
        BY <1>2, <1>3, BlockBegin
      <4>2. off - r <= off
        <5> HIDE DEF r
        <5> QED
          BY <1>2, <1>3, <4>1
      <4> QED
        BY <4>1, <4>2
    <3> HIDE DEF begin
    <3>7. begin + len \in 0 .. MaxLen /\ begin + len <= off + len
      BY <1>3, <3>6
    <3>8. /\ g.len[p] \in {cf.len[p], begin + len}
          /\ \A q \in Paths : q # p => g.len[q] = cf.len[q]
      BY <1>3, <3>5, <3>7, LenRaised
    <3>9. \A q \in Paths : g.len[q] <= nas'[q]
      <4>1. nas'[p] \in Int
        BY <1>5
      <4>2. g.len[p] <= nas'[p]
        BY <1>3, <1>5, <1>6, <3>7, <3>8, <4>1
      <4> QED
        BY <1>6, <3>8, <4>2
    <3>10. ASSUME NEW q \in Paths, odd'[q] = "no"
           PROVE  Whole(g, nas', q, blksz) /\ Reached(g, nas', q, blksz)
      <4>1. q # p
        BY <2>3, <3>10
      <4>3. Reached(g, nas', q, blksz)
        <5>1. Reached(cf, nas, q, blksz) /\ nas'[q] = nas[q] /\ g.len[q] = cf.len[q]
          BY <1>9, <3>8, <3>10, <4>1
        <5>2. \A j \in DOMAIN g.node : g.node[j] # None /\ g.node[j].path = q =>
                j \in DOMAIN cf.node /\ g.node[j] = cf.node[j]
          BY <3>5, <4>1
        <5> QED
          BY <5>1, <5>2, ReachedKept
      <4>2. Whole(outdated, nas', q, blksz)
        BY <1>9, <3>10, <4>1
      <4> QED
        BY <3>2, <4>1, <4>2, <4>3, WholeInserted DEF g
    <3> QED
      BY <1>1, <2>2, <2>4, <3>4, <3>5, <3>9, <3>10, UpStep DEF Stops
  <2>5. CASE run' # "up"
    <3>1. cf' = outdated
      BY <1>12, <2>5
    <3>2. Head(cf.free) \in Nodes
      BY <1>2, <1>12, TakeFree DEF Shape, FreeOK, Nodes
    <3>3. ~(ran \subseteq {cf.mb.cblksize})
      <4>1. len \in 0 .. blksz
        BY <1>2, <1>3
      <4> QED
        BY <1>12, <2>5, <3>2, <4>1, StopsOnOther DEF InsertStop
    <3>4. \A q \in Paths : cf'.len[q] <= nas'[q]
      BY <1>6, <1>7, <3>1
    <3>5. \A q \in Paths : odd'[q] = "no" =>
            Whole(outdated, nas', q, blksz) /\ Reached(outdated, nas', q, blksz)
      BY <1>9, <1>13, <2>3
    <3> QED
      BY <1>1, <1>7, <1>8, <2>1, <2>2, <3>1, <3>3, <3>4, <3>5, UpStep DEF Stops
  <2> QED
    BY <2>2, <2>4, <2>5
<1>15. CASE /\ Cached(p)
            /\ \E i \in Lookup(p, off) :
                 /\ run' = IF WriteFits(i, (off % blksz) + len) THEN "up" ELSE "line83"
                 /\ cf' = IF run' = "up" THEN Overwrite(p, i, off, len) ELSE outdated
  BY <1>11, <1>14, <1>15
<1> QED
  BY <1>1, <1>10, <1>12, <1>15

-----------------------------------------------------------------------------
(* mkrcf, the start of the program and its end.                            *)

LEMMA ConfOfText ==
  ASSUME NEW text \in Confs
  PROVE  ConfOf[text] \in ConfRecord
<1>1. text \in Text
  BY DataAssumption
<1>2. ConfOf[text] = readrscconf(text)
  BY DEF ConfOf
<1> QED
  BY <1>1, <1>2, ConfRead

\* What create_cmfile_with_data makes, if mkrcf returns 0 when ok
FormattedAs(c, n0, n1, size, second, ok) ==
  [mb |-> Layout(n0 + n1, NumFilesFor(n0 + n1), c.cblksize),
   size |-> size, second |-> second, ncblk1 |-> n1, ok |-> ok,
   node |-> [i \in 0 .. n0 + n1 - 1 |-> None],
   free |-> [k \in 1 .. n0 + n1 |-> k - 1],
   len |-> [p \in Paths |-> -1],
   bytes |-> [a \in 0 .. (n0 + n1) * c.cblksize - 1 |-> Old]]

WithOk(f, ok) == [f EXCEPT !.ok = ok]

LEMMA FormattedFields ==
  ASSUME NEW c, NEW n0, NEW n1, NEW size, NEW second, NEW ok
  PROVE  /\ Formatted(c, n0, n1, size, second) = FormattedAs(c, n0, n1, size, second, TRUE)
         /\ WithOk(Formatted(c, n0, n1, size, second), ok)
              = FormattedAs(c, n0, n1, size, second, ok)
<1> DEFINE mb == Layout(n0 + n1, NumFilesFor(n0 + n1), c.cblksize)
           node == [i \in 0 .. n0 + n1 - 1 |-> None]
           free == [k \in 1 .. n0 + n1 |-> k - 1]
           len == [p \in Paths |-> -1]
           bytes == [a \in 0 .. (n0 + n1) * c.cblksize - 1 |-> Old]
           f == Formatted(c, n0, n1, size, second)
<1>1. f = FormattedAs(c, n0, n1, size, second, TRUE)
  BY Zenon DEF Formatted, FormattedAs
<1>2. f = [mb |-> mb, size |-> size, second |-> second, ncblk1 |-> n1, ok |-> TRUE,
           node |-> node, free |-> free, len |-> len, bytes |-> bytes]
  BY Zenon DEF Formatted
<1> HIDE DEF f
<1>3. WithOk(f, ok) = FormattedAs(c, n0, n1, size, second, ok)
  <2>1. FormattedAs(c, n0, n1, size, second, ok) =
          [mb |-> mb, size |-> size, second |-> second, ncblk1 |-> n1, ok |-> ok,
           node |-> node, free |-> free, len |-> len, bytes |-> bytes]
    BY Zenon DEF FormattedAs
  <2> HIDE DEF mb, node, free, len, bytes
  <2> QED
    BY <1>2, <2>1 DEF WithOk
<1> QED
  BY <1>1, <1>3 DEF f

\* A file in which nothing is cached
Fresh(g) ==
  /\ IsFile(g) /\ Shape(g) /\ Complete(g) /\ FreeOK(g)
  /\ \A p \in Paths : g.len[p] = -1
  /\ \A i \in DOMAIN g.node : g.node[i] = None

LEMMA FormattedFile ==
  ASSUME NEW c \in ConfRecord, isexp2[c.cblksize], NEW n0 \in Int, NEW n1 \in Int, n0 + n1 > 0,
         NEW size \in Int, NEW second, NEW ok \in BOOLEAN,
         ok = TRUE /\ n1 = 0 => size >= Layout(n0 + n1, NumFilesFor(n0 + n1), c.cblksize).capacity
  PROVE  Fresh(FormattedAs(c, n0, n1, size, second, ok))
<1> DEFINE g == FormattedAs(c, n0, n1, size, second, ok)
           n == n0 + n1
           nf == NumFilesFor(n)
           mb == Layout(n, nf, c.cblksize)
           node == [i \in 0 .. n - 1 |-> None]
           free == [k \in 1 .. n |-> k - 1]
           len == [p \in Paths |-> -1]
           bytes == [a \in 0 .. n * c.cblksize - 1 |-> Old]
<1>1. c.cblksize \in Int /\ c.cblksize >= 2
  BY Exp2 DEF ConfRecord
<1>2. n \in Nat \ {0}
  OBVIOUS
<1>3. nf \in Nat
  <2>1. n \div 10 \in Int /\ MinFiles \in Nat
    BY <1>2, FormatAssumption
  <2> QED
    BY <2>1 DEF NumFilesFor
<1>4. 0 .. n0 + n1 - 1 = 0 .. n - 1
  OBVIOUS
<1>5. g = [mb |-> mb, size |-> size, second |-> second, ncblk1 |-> n1, ok |-> ok,
           node |-> node, free |-> free, len |-> len, bytes |-> bytes]
  BY <1>4, Zenon DEF FormattedAs
<1> HIDE DEF node, free, len, bytes, mb, g
<1>6. /\ IsFile(g) /\ g.mb = mb /\ g.node = node /\ g.free = free /\ g.len = len
      /\ g.size = size /\ g.ok = ok /\ g.ncblk1 = n1
  <2>1. /\ g.mb = mb /\ g.node = node /\ g.free = free /\ g.len = len /\ g.bytes = bytes
        /\ g.size = size /\ g.ok = ok /\ g.ncblk1 = n1 /\ g.second = second
    BY <1>5
  <2>2. g = [mb |-> g.mb, size |-> g.size, second |-> g.second, ncblk1 |-> g.ncblk1,
             ok |-> g.ok, node |-> g.node, free |-> g.free, len |-> g.len, bytes |-> g.bytes]
    BY <1>5, <2>1, Zenon
  <2> QED
    BY <2>1, <2>2, Zenon DEF IsFile, With
<1>7. DOMAIN node = 0 .. n - 1 /\ \A i \in 0 .. n - 1 : node[i] = None
  BY DEF node
<1>8. free \in Seq(0 .. n - 1) /\ IsInjective(free) /\ ToSet(free) = 0 .. n - 1
  <2>1. DOMAIN free = 1 .. n /\ \A k \in 1 .. n : free[k] = k - 1
    BY DEF free
  <2>2. free \in [1 .. n -> 0 .. n - 1]
    <3>1. \A k \in 1 .. n : k - 1 \in 0 .. n - 1
      BY <1>2
    <3> QED
      BY <3>1 DEF free
  <2>3. free \in Seq(0 .. n - 1)
    BY <1>2, <2>2
  <2>4. IsInjective(free)
    BY <1>2, <2>1 DEF IsInjective
  <2>5. \A i \in 0 .. n - 1 : i + 1 \in 1 .. n /\ free[i + 1] = i
    BY <1>2, <2>1
  <2>6. ToSet(free) = 0 .. n - 1
    BY <1>2, <2>1, <2>2, <2>5 DEF ToSet
  <2> QED
    BY <2>3, <2>4, <2>6
<1>9. len \in [Paths -> -1 .. MaxLen] /\ \A p \in Paths : len[p] = -1
  <2>1. -1 \in -1 .. MaxLen
    BY DataAssumption
  <2> QED
    BY <2>1 DEF len
<1>10. mb.cblksize = c.cblksize
  BY DEF mb, Layout
<1>11. Shape(g)
  <2>1. \E k \in Nat, l \in Nat :
          DOMAIN g.node = 0 .. k - 1 /\ g.mb = Layout(k, l, g.mb.cblksize)
    BY <1>2, <1>3, <1>6, <1>7, <1>10 DEF mb
  <2>2. node \in [0 .. n - 1 -> Block \cup {None}]
    BY DEF node
  <2> QED
    BY <1>1, <1>6, <1>7, <1>8, <1>9, <1>10, <2>1, <2>2 DEF Shape
<1>12. FreeOK(g)
  BY <1>6, <1>7, <1>8 DEF FreeOK
<1>13. Complete(g)
  BY <1>6 DEF Complete, mb
<1> QED
  BY <1>6, <1>7, <1>9, <1>11, <1>12, <1>13 DEF Fresh, g

LEMMA MkrcfStep ==
  ASSUME DTypes, (cf = None /\ run = "down") \/ FileInv, run = "down",
         NEW text \in Confs, NEW flag, Mkrcf(text, flag)
  PROVE  DTypes' /\ FileInv'
<1> DEFINE c == ConfOf[text]
           n0 == NumBlocksFor(c.size, c.cblksize)
           n1 == NumBlocksFor(c.size1, c.cblksize)
           n == n0 + n1
           nf == NumFilesFor(n)
           mb == Layout(n, nf, c.cblksize)
           k == c.cblksize
<1>1. /\ isexp2[c.cblksize] /\ n0 + n1 > 0
      /\ cf' = IF flag = "-rh" THEN ReformattedHeads(c, n0, n1) ELSE FormattedWhole(c, n0, n1)
      /\ ran' = {} /\ odd' = [p \in Paths |-> "no"]
      /\ UNCHANGED <<nas, run, blksz, starts>>
  BY DEF Mkrcf
<1>2. c \in ConfRecord
  BY ConfOfText
<1> HIDE DEF c
<1>3. k \in Nat \ {0} /\ c.size \in Int /\ c.size1 \in Int
  BY <1>1, <1>2, Exp2 DEF ConfRecord
<1>4. n0 \in Int /\ n1 \in Int
  <2>1. Giga \in Int
    BY FormatAssumption
  <2>2. c.size * Giga \in Int /\ c.size1 * Giga \in Int
    BY <1>3, <2>1
  <2> QED
    BY <1>3, <2>2, Division DEF NumBlocksFor
<1> HIDE DEF n0, n1
<1>5. n \in Nat \ {0} /\ n \in Int
  BY <1>1, <1>4
<1>6. nf \in Nat
  <2>1. n \div 10 \in Int /\ MinFiles \in Nat
    BY <1>5, FormatAssumption
  <2> QED
    BY <2>1 DEF NumFilesFor
<1> HIDE DEF n
<1> DEFINE h == MbSize + HeaderSize * nf
           u == NodeSize * n
           u0 == n0 * NodeSize
<1>7. h \in Int /\ u \in Int /\ k * n \in Int /\ k * n0 \in Int /\ u0 \in Int
  <2>1. NodeSize \in Int /\ HeaderSize \in Int /\ MbSize \in Int
    BY FormatAssumption
  <2>2. HeaderSize * nf \in Int
    BY <1>6, <2>1
  <2> QED
    BY <1>3, <1>4, <1>5, <2>1, <2>2
<1>8. mb.capacity = h + u + k * n /\ mb.block_pointer_section = h
  <2>1. mb.capacity = h + NodeSize * (n - 1) + NodeSize + k * n
    BY DEF Layout
  <2>2. NodeSize \in Int
    BY FormatAssumption
  <2>3. NodeSize * (n - 1) + NodeSize = u /\ NodeSize * (n - 1) \in Int
    BY <1>5, <2>2, LastAdded
  <2> HIDE DEF h, u
  <2>4. mb.capacity = h + u + k * n
    BY <1>7, <2>1, <2>2, <2>3
  <2> QED
    BY <2>4 DEF Layout, h
<1>9. SectionsSize(n, nf) = h + u
  BY DEF SectionsSize
<1>10. n1 = 0 => n = n0 /\ u0 = u
  <2>1. n1 = 0 => n = n0
    BY <1>4 DEF n
  <2>2. NodeSize * n = n * NodeSize
    BY <1>5, FormatAssumption
  <2> QED
    BY <2>1, <2>2
<1>11. \A p \in Paths : nas[p] \in Nat
  BY DataAssumption DEF DTypes
<1>12. Fresh(cf')
  <2>1. CASE flag = "-rh"
    <3> DEFINE size == IF cf # None /\ cf.size > SectionsSize(n, nf)
                       THEN cf.size ELSE SectionsSize(n, nf)
               second == cf # None /\ cf.second
               ok == size = SizeWanted(mb, n0)
    <3>1. cf' = FormattedAs(c, n0, n1, size, second, ok)
      <4>1. cf' = [Formatted(c, n0, n1, size, second) EXCEPT !.ok = ok]
        BY <1>1, <2>1, Zenon DEF ReformattedHeads, n
      <4> HIDE DEF size, second, ok
      <4>2. cf' = WithOk(Formatted(c, n0, n1, size, second), ok)
        BY <4>1, Zenon DEF WithOk
      <4> QED
        BY <4>2, FormattedFields, Zenon
    <3>2. size \in Int
      <4>1. cf # None => cf.size \in Int
        BY DEF FileInv, Complete
      <4> HIDE DEF h, u
      <4> QED
        BY <1>7, <1>9, <4>1
    <3>3. ok \in BOOLEAN /\ (ok = TRUE /\ n1 = 0 => size >= mb.capacity)
      <4> SUFFICES ASSUME ok = TRUE, n1 = 0 PROVE size >= mb.capacity
        OBVIOUS
      <4>1. size = h + u0 + k * n0
        BY <1>8 DEF SizeWanted, Layout
      <4>2. size = mb.capacity
        BY <1>8, <1>10, <4>1
      <4> HIDE DEF size
      <4> QED
        BY <3>2, <4>2
    <3> HIDE DEF size, second, ok
    <3> QED
      <4>1. n0 + n1 > 0 /\ isexp2[c.cblksize] /\ ok \in BOOLEAN
        BY <1>1, <3>3
      <4>2. ok = TRUE /\ n1 = 0
              => size >= Layout(n0 + n1, NumFilesFor(n0 + n1), c.cblksize).capacity
        BY <3>3, Zenon DEF n
      <4> QED
        BY <1>2, <1>4, <3>1, <3>2, <4>1, <4>2, FormattedFile, Zenon
  <2>2. CASE flag # "-rh"
    <3> DEFINE size == SectionsSize(n, nf) + c.cblksize * n0
               second == n1 > 0 \/ (cf # None /\ cf.second)
    <3>1. cf' = FormattedAs(c, n0, n1, size, second, TRUE)
      <4>1. cf' = Formatted(c, n0, n1, size, second)
        BY <1>1, <2>2, Zenon DEF FormattedWhole, n
      <4> HIDE DEF size, second
      <4> QED
        BY <4>1, FormattedFields, Zenon
    <3>2. size \in Int
      <4> HIDE DEF h, u
      <4> QED
        BY <1>7, <1>9
    <3>3. TRUE \in BOOLEAN /\ (n1 = 0 => size >= mb.capacity)
      <4> SUFFICES ASSUME n1 = 0 PROVE size >= mb.capacity
        OBVIOUS
      <4>1. size = mb.capacity
        <5>1. size = h + u + k * n0 /\ n = n0
          BY <1>9, <1>10
        <5> QED
          BY <1>8, <5>1
      <4> HIDE DEF size
      <4> QED
        BY <3>2, <4>1
    <3> HIDE DEF size, second
    <3> QED
      <4>1. n0 + n1 > 0 /\ isexp2[c.cblksize] /\ TRUE \in BOOLEAN
        BY <1>1, <3>3
      <4>2. TRUE = TRUE /\ n1 = 0
              => size >= Layout(n0 + n1, NumFilesFor(n0 + n1), c.cblksize).capacity
        BY <3>3, Zenon DEF n
      <4> QED
        BY <1>2, <1>4, <3>1, <3>2, <4>1, <4>2, FormattedFile, Zenon
  <2> QED
    BY <2>1, <2>2
<1>13. \A p \in Paths : cf'.len[p] <= nas'[p]
  BY <1>1, <1>11, <1>12 DEF Fresh
<1>14. DTypes'
  BY <1>1 DEF DTypes
<1>15. run' = "down" /\ ran' = {}
  BY <1>1
<1>16. Offsets(cf', cf'.mb.cblksize)
  BY <1>12 DEF Offsets, Fresh
<1> QED
  BY <1>12, <1>13, <1>14, <1>15, <1>16 DEF FileInv, Current, Stops, Fresh

LEMMA InitRscStep ==
  ASSUME DTypes, FileInv, run = "down", NEW text \in Confs, Init_RSC_table_m(text)
  PROVE  DTypes' /\ FileInv'
<1> DEFINE b == ConfOf[text].cblksize
           c == cf.mb.cblksize
<1>1. /\ b >= 0 /\ blksz' = b /\ ran' = ran \cup {b} /\ UNCHANGED <<nas, cf>>
      /\ run' = IF b = 0 THEN "line58"
                ELSE IF \E i \in Nodes : cf.node[i] # None /\ ~NodeFits(i, b)
                THEN "line195" ELSE "up"
      /\ odd' = [p \in Paths |->
                   IF Cached(p) /\ ~(ran \subseteq {b}) THEN "other" ELSE odd[p]]
  BY DEF Init_RSC_table_m
<1>2. b \in Nat
  <2>1. b \in Int
    BY ConfOfText DEF ConfRecord
  <2> QED
    BY <1>1, <2>1
<1> HIDE DEF b
<1>3. IsFile(cf) /\ Shape(cf) /\ Complete(cf) /\ FreeOK(cf) /\ c \in Nat \ {0}
  BY DEF FileInv, Shape
<1>4. DTypes'
  <2>1. odd' \in [Paths -> {"no", "absent", "other"}]
    BY <1>1 DEF DTypes
  <2>2. run' \in {"down", "up"} \cup Stops
    BY <1>1 DEF Stops
  <2> QED
    BY <1>1, <2>1, <2>2 DEF DTypes
<1>5. run' # "line116" /\ run' # "down" /\ ran' # {} /\ ran' \subseteq Nat
  BY <1>1, <1>2 DEF FileInv
<1>6. ran' \subseteq {c} => b = c /\ Offsets(cf, c)
  BY <1>1 DEF FileInv
<1>7. \A i \in Nodes : NodeFits(i, b) <=> cf.node[i].off % b = 0 /\ (i * c) % b = 0
  <2>1. \A i \in Nodes : Memloc(i) - cf.mb.block_section = i * c
    BY <1>3, Places DEF Nodes, Memloc
  <2> QED
    BY <2>1 DEF NodeFits
<1>8. run' = "up" => blksz' \in ran' /\ blksz' # 0 /\ Aligned(cf, blksz')
  <2> SUFFICES ASSUME run' = "up" PROVE b \in ran' /\ b # 0 /\ Aligned(cf, b)
    BY <1>1
  <2>1. b # 0 /\ \A i \in Nodes : cf.node[i] # None => NodeFits(i, b)
    BY <1>1
  <2> QED
    BY <1>1, <1>7, <2>1 DEF Aligned, Offsets, Nodes
<1>9. run' \in Stops => ~(ran' \subseteq {c})
  <2> SUFFICES ASSUME run' \in Stops, ran' \subseteq {c} PROVE FALSE
    OBVIOUS
  <2>1. b = c /\ Offsets(cf, c)
    BY <1>6
  <2>2. run' = "line195"
    BY <1>1, <1>3, <2>1 DEF Stops
  <2>3. PICK i \in Nodes : cf.node[i] # None /\ ~NodeFits(i, b)
    BY <1>1, <2>2
  <2>4. (i * c) % c = 0
    <3>1. i \in Int
      BY <1>3, Places DEF Nodes
    <3> QED
      BY <1>3, <3>1, Multiple
  <2> QED
    BY <1>7, <2>1, <2>3, <2>4 DEF Offsets, Nodes
<1>10. ASSUME NEW p \in Paths, NEW d \in Nat, odd'[p] = "no", Current(d)'
       PROVE  Whole(cf, nas, p, d) /\ Reached(cf, nas, p, d)
  <2>1. d = b /\ (run' # "up" => ran \subseteq {b})
    BY <1>1, <1>10 DEF Current
  <2>2. odd[p] = "no" /\ (~Cached(p) \/ ran \subseteq {b})
    BY <1>1, <1>10
  <2>3. CASE ~Cached(p)
    <3>1. \A i \in Nodes : cf.node[i] # None => cf.node[i].path # p
      BY <1>3, <2>3 DEF FreeOK, Nodes, Cached
    <3> QED
      BY <3>1 DEF Whole, Reached, Nodes
  <2>4. CASE ran = {}
    <3>1. \A i \in Nodes : cf.node[i] = None
      BY <2>4 DEF FileInv, Nodes
    <3> QED
      BY <3>1 DEF Whole, Reached, Nodes
  <2>5. CASE ran = {b}
    <3>1. Current(b)
      BY <2>5 DEF Current
    <3> QED
      BY <1>2, <2>1, <2>2, <3>1 DEF FileInv, Halfway
  <2> QED
    BY <2>2, <2>3, <2>4, <2>5
<1>11. \A p \in Paths : cf'.len[p] <= nas'[p]
  BY <1>1 DEF FileInv
<1>12. IsFile(cf') /\ Shape(cf') /\ Complete(cf') /\ FreeOK(cf')
  BY <1>1, <1>3
<1> HIDE DEF c
<1>13. ran' \subseteq {cf'.mb.cblksize} => Offsets(cf', cf'.mb.cblksize)
  BY <1>1, <1>6 DEF c
<1>14. run' = "up" => blksz' \in ran' /\ blksz' # 0 /\ Aligned(cf', blksz')
  BY <1>1, <1>8
<1>15. run' \in Stops => ~(ran' \subseteq {cf'.mb.cblksize})
  BY <1>1, <1>9 DEF c
<1>16. \A p \in Paths, d \in Nat :
         odd'[p] = "no" /\ run' \notin Halfway /\ Current(d)' =>
           Whole(cf', nas', p, d) /\ Reached(cf', nas', p, d)
  BY <1>1, <1>10
<1> QED
  BY <1>4, <1>5, <1>11, <1>12, <1>13, <1>14, <1>15, <1>16 DEF FileInv, Stops

LEMMA DestoryStep ==
  ASSUME DTypes, (cf = None /\ run = "down") \/ FileInv, Destory_RSC_table_m
  PROVE  DTypes' /\ FileInv'
<1>1. /\ run \in {"up", "line58", "line195", "line191"} /\ run' = "down"
      /\ UNCHANGED <<nas, cf, ran, odd>>
  BY DEF Destory_RSC_table_m
<1>2. FileInv /\ run \notin Halfway
  BY <1>1 DEF Halfway
<1>3. \A d : Current(d)' => Current(d)
  BY <1>1, <1>2 DEF Current, FileInv
<1>4. \A p \in Paths, d \in Nat :
         odd'[p] = "no" /\ run' \notin Halfway /\ Current(d)' =>
           Whole(cf', nas', p, d) /\ Reached(cf', nas', p, d)
  BY <1>1, <1>2, <1>3 DEF FileInv
<1>5. DTypes'
  BY <1>1 DEF DTypes
<1> QED
  BY <1>1, <1>2, <1>4, <1>5 DEF FileInv, Stops

-----------------------------------------------------------------------------
(* The theorems.                                                           *)

LEMMA Starts == Init => DInv
<1> SUFFICES ASSUME Init PROVE DInv
  OBVIOUS
<1>1. \A p \in Paths : 0 \in 0 .. MaxLen
  BY DataAssumption
<1>2. nas \in [Paths -> 0 .. MaxLen] /\ odd \in [Paths -> {"no", "absent", "other"}]
  BY <1>1 DEF Init
<1> QED
  BY <1>2 DEF Init, DInv, DTypes

\* The calls of the file system, while the program runs
Call ==
  \E p \in Paths :
    \/ Rm_file_block_table(p)
    \/ \E off \in 0 .. MaxLen :
         \/ InsertCurrent(p, off)
         \/ \E len \in 1 .. blksz : Write(p, off, len)
         \/ Truncate_file_block_table(p, off)

LEMMA CallStep ==
  ASSUME DTypes, FileInv, run = "up", Call
  PROVE  DTypes' /\ FileInv'
<1>1. PICK p \in Paths :
        \/ Rm_file_block_table(p)
        \/ \E off \in 0 .. MaxLen :
             \/ InsertCurrent(p, off)
             \/ \E len \in 1 .. blksz : Write(p, off, len)
             \/ Truncate_file_block_table(p, off)
  BY DEF Call
<1>2. CASE Rm_file_block_table(p)
  BY <1>2, RmStep
<1>3. ASSUME NEW off \in 0 .. MaxLen, InsertCurrent(p, off)
      PROVE  DTypes' /\ FileInv'
  BY <1>3, InsertCurrentStep
<1>4. ASSUME NEW off \in 0 .. MaxLen, NEW len \in 1 .. blksz, Write(p, off, len)
      PROVE  DTypes' /\ FileInv'
  BY <1>4, WriteStep
<1>5. ASSUME NEW off \in 0 .. MaxLen, Truncate_file_block_table(p, off)
      PROVE  DTypes' /\ FileInv'
  BY <1>5, TruncateStep
<1> QED
  BY <1>1, <1>2, <1>3, <1>4, <1>5

LEMMA Steps == DInv /\ [Next]_vars => DInv'
<1> SUFFICES ASSUME DInv, [Next]_vars PROVE DInv'
  OBVIOUS
<1>1. DTypes /\ ((cf = None /\ run = "down") \/ FileInv)
  BY DEF DInv
<1> SUFFICES (DTypes' /\ FileInv') \/ UNCHANGED vars
  <2>1. UNCHANGED vars => DInv'
    BY DEF DInv, DTypes, FileInv, Current, vars
  <2> QED
    BY <2>1 DEF DInv
<1>2. ASSUME NEW text \in Confs, NEW flag, run = "down", Mkrcf(text, flag)
      PROVE  DTypes' /\ FileInv'
  BY <1>1, <1>2, MkrcfStep
<1>3. ASSUME NEW text \in Confs, run = "down", Init_RSC_table_m(text)
      PROVE  DTypes' /\ FileInv'
  <2>1. cf # None
    BY <1>3 DEF Init_RSC_table_m
  <2> QED
    BY <1>1, <1>3, <2>1, InitRscStep
<1>4. CASE Destory_RSC_table_m
  BY <1>1, <1>4, DestoryStep
<1>5. CASE run = "up" /\ Call
  BY <1>1, <1>5, CallStep
<1> QED
  BY <1>2, <1>3, <1>4, <1>5 DEF Next, Call

\* In every state the cache file is what DInv says (mkrcf.c, RSC_m.c, RSC.c): the
\* invariant that the theorems below follow from.
THEOREM DataInvariant == Spec => []DInv
  BY Starts, Steps, PTL DEF Spec

\* Every variable keeps its type, and a node is free or used for a cached file,
\* in every order of calls of the file system (RSC_m.c:281 to 423, 762 to 876).
THEOREM DataTypeOKAlways == Spec => []DataTypeOK
<1>1. DInv => DataTypeOK
  <2> SUFFICES ASSUME DTypes, FileInv, cf # None
               PROVE  /\ cf.len \in [Paths -> -1 .. MaxLen]
                      /\ run # "line116" =>
                           /\ IsInjective(cf.free)
                           /\ ToSet(cf.free) = {i \in Nodes : cf.node[i] = None}
                           /\ \A i \in Nodes : cf.node[i] # None => Cached(cf.node[i].path)
    BY DEF DInv, DTypes, DataTypeOK, Stops
  <2> QED
    BY DEF FileInv, Shape, FreeOK, Nodes, Cached
<1> QED
  BY <1>1, DataInvariant, PTL

\* The program stops at an assertion on a block's place, or on the end of what is
\* written to it, only if it was started with a block size that is not that of the
\* cache file (RSC_m.c:195, 217, 350, RSC.c:83, 116, 191), for every rsc.conf.
THEOREM StopsOnOtherBlockSizeAlways == Spec => []StopsOnOtherBlockSize
<1>1. DInv => StopsOnOtherBlockSize
  BY DEF DInv, DTypes, FileInv, StopsOnOtherBlockSize
<1> QED
  BY <1>1, DataInvariant, PTL

\* mkrcf returns 0 for one cache file only if it has all bytes up to the
\* capacity in its master block (mkrcf.c:145 to 160, 250), for every rsc.conf.
THEOREM FormatCompleteAlways == Spec => []FormatComplete
<1>1. DInv => FormatComplete
  BY DEF DInv, FileInv, Complete, FormatComplete
<1> QED
  BY <1>1, DataInvariant, PTL

\* The bytes that two used nodes name are apart, also with a block size that is
\* not that of the cache file (RSC.c:116, 191, RSC_m.c:195, 217).
THEOREM BlocksApartAlways == Spec => []BlocksApart
<1>1. DInv => BlocksApart
  <2> SUFFICES ASSUME FileInv, run = "up", NEW i \in Nodes, NEW j \in Nodes, i < j,
                      cf.node[i] # None, cf.node[j] # None
               PROVE  Memloc(i) + blksz <= Memloc(j)
    BY DEF DInv, BlocksApart
  <2> DEFINE c == cf.mb.cblksize
             u == i * c
             v == j * c
             e == cf.mb.block_section
  <2>1. Shape(cf) /\ blksz \in Nat \ {0} /\ Aligned(cf, blksz)
    BY DEF FileInv
  <2>2. /\ u \in Int /\ v \in Int /\ e \in Int /\ Memloc(i) \in Int /\ Memloc(j) \in Int
        /\ Memloc(i) - e = u /\ Memloc(j) - e = v
    BY <2>1, Places DEF Nodes, Memloc
  <2>3. u % blksz = 0 /\ v % blksz = 0
    BY <2>1 DEF Aligned, Nodes
  <2>4. u + blksz <= v
    BY <2>1, <2>3, PlacesApart DEF Nodes
  <2> HIDE DEF u, v, e
  <2> QED
    BY <2>1, <2>2, <2>4
<1> QED
  BY <1>1, DataInvariant, PTL

\* A read that the cache answers and that begins inside the file, or at its end,
\* ends where the block or the file does, whatever was inserted, written,
\* truncated and removed in whichever order (RSC_m.c:369, 399, 416, 589 to 613,
\* 809); files that are odd are excepted.
THEOREM ReadsFullLengthAlways == Spec => []ReadsFullLength
<1>1. DInv => ReadsFullLength
  <2> SUFFICES ASSUME DTypes, FileInv, run = "up", NEW p \in Paths, odd[p] = "no",
                      NEW off \in 0 .. nas[p], NEW len \in 1 .. blksz - (off % blksz),
                      NEW i \in Lookup(p, off)
               PROVE  ReadLen(p, off, len) = IF off + len > nas[p] THEN nas[p] - off ELSE len
    BY DEF DInv, ReadsFullLength
  <2> DEFINE r == off % blksz
             begin == off - r
             l == cf.len[p]
             n == nas[p]
  <2>1. blksz \in Nat \ {0} /\ Reached(cf, nas, p, blksz) /\ l <= n
    BY FilesOf
  <2>2. n \in Int /\ l \in Int
    <3>1. cf.len \in [Paths -> -1 .. MaxLen] /\ nas \in [Paths -> 0 .. MaxLen] /\ MaxLen \in Nat
      BY DataAssumption DEF FileInv, Shape, DTypes
    <3> QED
      BY <3>1
  <2>3. off \in Nat /\ off <= n
    BY <2>2
  <2>4. r \in 0 .. blksz - 1
    BY <2>1, <2>3, BlockBegin
  <2>5. i \in DOMAIN cf.node /\ cf.node[i] # None /\ cf.node[i].path = p /\ cf.node[i].off = begin
    BY DEF Lookup, NodesOf, Blockoff, Nodes
  <2>6. begin <= l /\ (begin + blksz <= l \/ n <= l)
    BY <2>1, <2>5 DEF Reached
  <2>7. ReadLen(p, off, len) = IF off <= l /\ off + len > l THEN l - off ELSE len
    BY DEF ReadLen
  <2>8. len \in 1 .. blksz - r
    OBVIOUS
  <2>9. begin = off - r
    OBVIOUS
  <2> HIDE DEF r, begin, l, n
  <2>10. (IF off <= l /\ off + len > l THEN l - off ELSE len)
            = IF off + len > n THEN n - off ELSE len
    BY <2>1, <2>2, <2>3, <2>4, <2>6, <2>8, <2>9
  <2> QED
    BY <2>7, <2>10 DEF n
<1> QED
  BY <1>1, DataInvariant, PTL

\* A read of a byte that the cache has, of a file that is not odd
LEMMA ReadsWhole ==
  ASSUME DTypes, FileInv, run = "up", NEW p \in Paths, Whole(cf, nas, p, blksz),
         NEW off \in 0 .. cf.len[p], NEW len \in 1 .. blksz - (off % blksz),
         NEW i \in Lookup(p, off), NEW a \in ReadFrom(p, i, off, len)
  PROVE  cf.bytes[a] = <<p, off + a - (i * cf.mb.cblksize + (off % blksz))>>
<1> DEFINE r == off % blksz
           begin == off - r
           u == i * cf.mb.cblksize
           k == a - u
           l == cf.len[p]
<1>1. /\ IsFile(cf) /\ Shape(cf) /\ blksz \in Nat \ {0} /\ l \in Int /\ nas[p] \in Int
      /\ l <= nas[p]
  <2>1. cf.len \in [Paths -> -1 .. MaxLen] /\ MaxLen \in Nat
    BY DataAssumption DEF FileInv, Shape
  <2>2. nas \in [Paths -> 0 .. MaxLen]
    BY DEF DTypes
  <2>3. l \in Int /\ nas[p] \in Int
    BY <2>1, <2>2
  <2> HIDE DEF l
  <2> QED
    BY <2>3 DEF FileInv, l
<1>2. off \in Nat /\ off <= l
  BY <1>1
<1>3. i \in Nodes /\ cf.node[i] # None /\ cf.node[i].path = p /\ cf.node[i].off = begin
  BY DEF Lookup, NodesOf, Blockoff
<1>4. u \in Int
  BY <1>1, <1>3, Places DEF Nodes
<1>5. r \in 0 .. blksz - 1
  BY <1>1, <1>2, BlockBegin
<1>6. a \in u + r .. u + r + ReadLen(p, off, len) - 1
  BY DEF ReadFrom
<1>7. ReadLen(p, off, len) = IF off <= l /\ off + len > l THEN l - off ELSE len
  BY DEF ReadLen
<1>8. len \in 1 .. blksz - r
  OBVIOUS
<1> HIDE DEF r, u, l
<1>9. /\ k \in 0 .. blksz - 1 /\ begin + k < nas[p] /\ u + k = a
      /\ begin + k = off + a - (u + r)
  BY <1>1, <1>2, <1>4, <1>5, <1>6, <1>7, <1>8
<1> HIDE DEF k, begin
<1>10. cf.bytes[u + k] = <<p, begin + k>>
  BY <1>3, <1>9 DEF Whole, Nodes, u
<1> QED
  BY <1>9, <1>10 DEF u, r

\* The cache answers reads with what the NAS has, unless the file is odd, in every
\* order of inserts, writes, truncations, removals, formats and starts of the
\* program (RSC_m.c:281 to 423, 560 to 617, 762 to 876).
THEOREM ReadsAgreeAlways == Spec => []ReadsAgree
<1>1. DInv => ReadsAgree
  <2> SUFFICES ASSUME DTypes, FileInv, run = "up", NEW p \in Paths, odd[p] = "no"
               PROVE  Agrees(p)
    BY DEF DInv, ReadsAgree
  <2>1. blksz \in Nat
    BY DEF FileInv
  <2>2. Current(blksz)
    BY DEF Current
  <2>3. Whole(cf, nas, p, blksz)
    BY <2>1, <2>2 DEF FileInv, Halfway
  <2> QED
    BY <2>3, ReadsWhole DEF Agrees
<1> QED
  BY <1>1, DataInvariant, PTL
=============================================================================
