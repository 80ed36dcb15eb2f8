---------------------------- MODULE RSCInduction ----------------------------
(***************************************************************************)
(* Induction on the natural numbers, stated with a set in place of a       *)
(* predicate, and what follows from it for the lists of this program: the  *)
(* free lists of the cache file, the stale list and the queues of the      *)
(* prefetch threads are all nodes that a pointer first begins and next     *)
(* continues, up to a NULL (none).  The specifications say what such a     *)
(* list holds with a recursive function that follows next; here is what it *)
(* computes, and what becomes of a list whose first node is taken, whose   *)
(* end gets a node or that loses one.                                      *)
(***************************************************************************)
EXTENDS Integers, FiniteSets, TLAPS, WellFoundedInduction, FiniteSetTheorems, FunctionTheorems

\* The pairs of numbers of which the first is less
NatBelow == {ss \in Nat \X Nat : ss[1] < ss[2]}

\* There is no endless descent among the numbers,
LEMMA NatBelowWellFounded == IsWellFoundedOn(NatBelow, Nat)
  BY NatLessThanWellFounded DEF OpToRel, NatBelow

\* so a set that has 0, and with each number the next one, has all of them.
LEMMA NatSetInduction ==
  ASSUME NEW S, 0 \in S, \A n \in Nat : n \in S => n + 1 \in S
  PROVE  Nat \subseteq S
<1> DEFINE T == Nat \ S
<1>1. SUFFICES ASSUME T # {} PROVE FALSE
  OBVIOUS
<1>2. PICK x \in T : \A y \in T : ~(<<y, x>> \in NatBelow)
  <2>1. T \subseteq Nat
    OBVIOUS
  <2> HIDE DEF T
  <2> QED
    BY <1>1, <2>1, NatBelowWellFounded, WFMin
<1>3. x \in Nat /\ x - 1 \in Nat /\ (x - 1) + 1 = x /\ x \notin S
  OBVIOUS
<1>4. x - 1 \in T
  BY <1>3
<1>5. <<x - 1, x>> \in NatBelow
  BY <1>3 DEF NatBelow
<1> QED
  BY <1>2, <1>4, <1>5

-----------------------------------------------------------------------------
(* Lists.                                                                  *)

\* The nodes of S are the n different ones that first begins, in the order c;
\* none ends the list.
Chained(none, S, first, next, n, c) ==
  /\ n \in Nat
  /\ \A i \in 1 .. n : c[i] \in S /\ c[i] # none
  /\ \A x \in S : \E i \in 1 .. n : x = c[i]
  /\ \A i, j \in 1 .. n : c[i] = c[j] => i = j
  /\ \A i \in 1 .. n : next[c[i]] = IF i = n THEN none ELSE c[i + 1]
  /\ first = IF n = 0 THEN none ELSE c[1]

\* What a walk of k steps along next has reached, for k up to m
Reaching(none, first, next, m, f) ==
  f = [k \in 0 .. m |->
         IF k = 0 THEN {first} \ {none}
         ELSE f[k - 1] \cup ({next[x] : x \in f[k - 1]} \ {none})]

\* A set with a list of n nodes has n elements at least.
LEMMA ChainedBound ==
  ASSUME NEW none, NEW S, NEW first, NEW next, NEW n, NEW c,
         Chained(none, S, first, next, n, c), NEW D, IsFiniteSet(D), S \subseteq D
  PROVE  n <= Cardinality(D)
<1> DEFINE g == [i \in 1 .. n |-> c[i]]
<1>1. g \in Injection(1 .. n, D)
  BY DEF Chained, Injection, IsInjective
<1>2. IsFiniteSet(1 .. n) /\ Cardinality(1 .. n) = n
  <2>1. n \in Nat /\ 1 \in Int /\ n \in Int
    BY DEF Chained
  <2>2. IsFiniteSet(1 .. n) /\ Cardinality(1 .. n) = IF 1 > n THEN 0 ELSE n - 1 + 1
    BY <2>1, FS_Interval
  <2> QED
    BY <2>1, <2>2
<1> QED
  BY <1>1, <1>2, FS_Injection

\* The nodes of the list that are reached in k steps
FirstNodes(n, c, k) == {c[i] : i \in {j \in 1 .. n : j <= k + 1}}

\* One step more reaches the next nodes of those reached,
LEMMA FirstNodesNext ==
  ASSUME NEW none, NEW S, NEW first, NEW next, NEW n, NEW c,
         Chained(none, S, first, next, n, c), NEW k \in Nat
  PROVE  FirstNodes(n, c, k + 1) = FirstNodes(n, c, k) \cup ({next[x] : x \in FirstNodes(n, c, k)} \ {none})
<1> DEFINE P == FirstNodes(n, c, k)
           Q == P \cup ({next[x] : x \in P} \ {none})
<1>1. n \in Nat /\ \A i \in 1 .. n : c[i] # none /\ next[c[i]] = IF i = n THEN none ELSE c[i + 1]
  BY DEF Chained
<1>2. ASSUME NEW y \in FirstNodes(n, c, k + 1)
      PROVE  y \in Q
  <2>1. PICK i \in 1 .. n : i <= k + 2 /\ y = c[i]
    BY DEF FirstNodes
  <2>2. CASE i <= k + 1
    BY <2>1, <2>2 DEF FirstNodes
  <2>3. CASE i = k + 2
    <3>1. i - 1 \in 1 .. n /\ i - 1 <= k + 1 /\ i - 1 # n /\ (i - 1) + 1 = i
      BY <1>1, <2>1, <2>3
    <3>2. c[i - 1] \in P /\ next[c[i - 1]] = y /\ y # none
      BY <1>1, <2>1, <3>1 DEF FirstNodes
    <3> QED
      BY <3>2
  <2> QED
    BY <1>1, <2>1, <2>2, <2>3
<1>3. ASSUME NEW y \in Q
      PROVE  y \in FirstNodes(n, c, k + 1)
  <2>1. CASE y \in P
    BY <1>1, <2>1 DEF FirstNodes
  <2>2. CASE y \notin P
    <3>1. PICK x \in P : y = next[x] /\ y # none
      BY <1>3, <2>2
    <3>2. PICK i \in 1 .. n : i <= k + 1 /\ x = c[i]
      BY DEF FirstNodes
    <3>3. i # n /\ y = c[i + 1] /\ i + 1 \in 1 .. n /\ i + 1 <= (k + 1) + 1
      BY <1>1, <3>1, <3>2
    <3> QED
      BY <3>3 DEF FirstNodes
  <2> QED
    BY <2>1, <2>2
<1> QED
  BY <1>2, <1>3

\* no step the first node, and as many as there are nodes the whole list.
LEMMA FirstNodesEnd ==
  ASSUME NEW none, NEW S, NEW first, NEW next, NEW n, NEW c,
         Chained(none, S, first, next, n, c), NEW m \in Nat, n <= m + 1
  PROVE  FirstNodes(n, c, 0) = {first} \ {none} /\ FirstNodes(n, c, m) = S
<1>1. n \in Nat
  BY DEF Chained
<1>2. FirstNodes(n, c, 0) = {first} \ {none}
  <2>1. CASE n = 0
    BY <2>1 DEF FirstNodes, Chained
  <2>2. CASE n # 0
    <3>1. 1 \in 1 .. n /\ \A j \in 1 .. n : j <= 0 + 1 <=> j = 1
      BY <1>1, <2>2
    <3> QED
      BY <2>2, <3>1 DEF FirstNodes, Chained
  <2> QED
    BY <2>1, <2>2
<1>3. \A j \in 1 .. n : j <= m + 1
  BY <1>1
<1> QED
  BY <1>2, <1>3 DEF FirstNodes, Chained

\* A walk that is long enough reaches the nodes of the list and no other.
LEMMA ReachingChained ==
  ASSUME NEW none, NEW S, NEW first, NEW next, NEW n, NEW c,
         Chained(none, S, first, next, n, c), NEW m \in Nat, n <= m + 1,
         NEW f, Reaching(none, first, next, m, f)
  PROVE  f[m] = S
<1> DEFINE T == {k \in Nat : k <= m => f[k] = FirstNodes(n, c, k)}
<1>1. 0 \in T
  BY FirstNodesEnd DEF Reaching
<1>2. ASSUME NEW k \in Nat, k \in T
      PROVE  k + 1 \in T
  <2> SUFFICES ASSUME k + 1 <= m
               PROVE  f[k + 1] = FirstNodes(n, c, k + 1)
    OBVIOUS
  <2>1. k + 1 \in 0 .. m /\ k + 1 # 0 /\ (k + 1) - 1 = k
    OBVIOUS
  <2>2. f[k + 1] = f[k] \cup ({next[x] : x \in f[k]} \ {none})
    BY <2>1 DEF Reaching
  <2>3. f[k] = FirstNodes(n, c, k)
    BY <1>2
  <2> QED
    BY <2>2, <2>3, FirstNodesNext
<1> HIDE DEF T
<1>3. m \in T
  BY <1>1, <1>2, NatSetInduction
<1> QED
  BY <1>3, FirstNodesEnd DEF T

\* Such a walk exists: the recursive definition of one defines it.
LEMMA ReachingExists ==
  ASSUME NEW none, NEW S, NEW first, NEW next, NEW n, NEW c,
         Chained(none, S, first, next, n, c), NEW m \in Nat
  PROVE  \E f : Reaching(none, first, next, m, f)
<1> DEFINE f == [k \in 0 .. m |-> FirstNodes(n, c, k)]
<1>1. ASSUME NEW k \in 0 .. m
      PROVE  f[k] = IF k = 0 THEN {first} \ {none}
                    ELSE f[k - 1] \cup ({next[x] : x \in f[k - 1]} \ {none})
  <2>1. CASE k = 0
    <3>1. n <= n + 1 /\ n \in Nat
      BY DEF Chained
    <3> QED
      BY <2>1, <3>1, FirstNodesEnd
  <2>2. CASE k # 0
    <3>1. k - 1 \in Nat /\ k - 1 \in 0 .. m /\ (k - 1) + 1 = k
      BY <2>2
    <3>2. f[k] = FirstNodes(n, c, k) /\ f[k - 1] = FirstNodes(n, c, k - 1)
      BY <3>1
    <3> HIDE DEF f
    <3>3. FirstNodes(n, c, (k - 1) + 1)
            = FirstNodes(n, c, k - 1) \cup ({next[x] : x \in FirstNodes(n, c, k - 1)} \ {none})
      BY <3>1, FirstNodesNext
    <3> QED
      BY <2>2, <3>1, <3>2, <3>3
  <2> QED
    BY <2>1, <2>2
<1>2. f = [k \in 0 .. m |-> f[k]]
  OBVIOUS
<1> HIDE DEF f
<1>3. f = [k \in 0 .. m |-> IF k = 0 THEN {first} \ {none}
                            ELSE f[k - 1] \cup ({next[x] : x \in f[k - 1]} \ {none})]
  BY <1>1, <1>2
<1> QED
  BY <1>3 DEF Reaching

\* As many steps as there are nodes are enough: so the function that a recursive
\* definition of the walk chooses finds the list.
LEMMA WalkFinds ==
  ASSUME NEW none, NEW S, NEW first, NEW next, NEW D, IsFiniteSet(D), S \subseteq D,
         \E n, c : Chained(none, S, first, next, n, c)
  PROVE  (CHOOSE f : Reaching(none, first, next, Cardinality(D), f))[Cardinality(D)] = S
<1> DEFINE m == Cardinality(D)
           g == CHOOSE f : Reaching(none, first, next, m, f)
<1>1. PICK n, c : Chained(none, S, first, next, n, c)
  OBVIOUS
<1>2. m \in Nat
  BY FS_CardinalityType
<1>3. n <= m /\ n \in Nat
  <2>1. n <= m
    BY <1>1, ChainedBound
  <2> QED
    BY <1>1, <2>1 DEF Chained
<1> HIDE DEF m
<1>4. \E f : Reaching(none, first, next, m, f)
  BY <1>1, <1>2, ReachingExists
<1>5. Reaching(none, first, next, m, g)
  BY <1>4
<1> HIDE DEF g
<1>6. g[m] = S
  BY <1>1, <1>2, <1>3, <1>5, ReachingChained
<1> QED
  BY <1>6 DEF g, m

-----------------------------------------------------------------------------
(* Lists that change.                                                      *)

\* A list is what its own pointers say.
LEMMA ChainedSame ==
  ASSUME NEW none, NEW S, NEW first, NEW next, NEW next2, NEW n, NEW c,
         Chained(none, S, first, next, n, c), \A x \in S : next2[x] = next[x]
  PROVE  Chained(none, S, first, next2, n, c)
  BY DEF Chained

\* No node at all is a list,
LEMMA ChainedEmpty ==
  ASSUME NEW none, NEW next
  PROVE  \E n, c : Chained(none, {}, none, next, n, c)
<1>1. Chained(none, {}, none, next, 0, <<>>)
  BY DEF Chained
<1> QED
  BY <1>1

\* and a list without a first node has none.
LEMMA ChainedFirst ==
  ASSUME NEW none, NEW S, NEW first, NEW next, NEW n, NEW c, Chained(none, S, first, next, n, c)
  PROVE  /\ none \notin S
         /\ first = none <=> S = {}
         /\ first # none => first \in S
<1>1. n # 0 => 1 \in 1 .. n
  BY DEF Chained
<1> QED
  BY <1>1 DEF Chained

\* Only the last node has no next one.
LEMMA ChainedLast ==
  ASSUME NEW none, NEW S, NEW first, NEW next, NEW n, NEW c,
         Chained(none, S, first, next, n, c), S # {}
  PROVE  n \in 1 .. n /\ c[n] \in S /\ \A x \in S : next[x] = none <=> x = c[n]
<1>1. n \in Nat /\ n \in 1 .. n
  BY DEF Chained
<1>2. ASSUME NEW i \in 1 .. n, i # n
      PROVE  next[c[i]] # none /\ c[i] # c[n]
  <2>1. i + 1 \in 1 .. n
    BY <1>1, <1>2
  <2> QED
    BY <1>1, <1>2, <2>1 DEF Chained
<1> QED
  BY <1>1, <1>2 DEF Chained

\* Without its first node it is a list still, which nothing leads back from.
LEMMA ChainedTake ==
  ASSUME NEW none, NEW S, NEW first, NEW next, NEW n, NEW c,
         Chained(none, S, first, next, n, c), first # none
  PROVE  /\ \E m, d : Chained(none, S \ {first}, next[first], next, m, d)
         /\ \A x \in S : next[x] # first
<1> DEFINE d == [i \in 1 .. (n - 1) |-> c[i + 1]]
<1>1. n \in Nat /\ n # 0 /\ first = c[1] /\ 1 \in 1 .. n /\ n - 1 \in Nat
  BY DEF Chained
<1>2. \A i \in 1 .. (n - 1) : i + 1 \in 1 .. n /\ d[i] = c[i + 1] /\ i + 1 # 1
  BY <1>1
<1>3. \A i \in 1 .. n : i = 1 \/ (i - 1 \in 1 .. (n - 1) /\ d[i - 1] = c[i])
  BY <1>1
<1> HIDE DEF d
<1>4. \A i \in 1 .. (n - 1) : d[i] \in S \ {first} /\ d[i] # none
  BY <1>1, <1>2 DEF Chained
<1>5. \A x \in S \ {first} : \E i \in 1 .. (n - 1) : x = d[i]
  BY <1>1, <1>3 DEF Chained
<1>6. \A i, j \in 1 .. (n - 1) : d[i] = d[j] => i = j
  BY <1>1, <1>2 DEF Chained
<1>7. \A i \in 1 .. (n - 1) : next[d[i]] = IF i = n - 1 THEN none ELSE d[i + 1]
  <2> SUFFICES ASSUME NEW i \in 1 .. (n - 1)
               PROVE  next[d[i]] = IF i = n - 1 THEN none ELSE d[i + 1]
    OBVIOUS
  <2>1. next[c[i + 1]] = IF i + 1 = n THEN none ELSE c[i + 1 + 1]
    BY <1>2 DEF Chained
  <2>2. i # n - 1 => i + 1 \in 1 .. (n - 1)
    BY <1>1
  <2> QED
    BY <1>1, <1>2, <2>1, <2>2
<1>8. next[first] = IF n - 1 = 0 THEN none ELSE d[1]
  <2>1. n - 1 # 0 => 1 \in 1 .. (n - 1)
    BY <1>1
  <2> QED
    BY <1>1, <1>2, <2>1 DEF Chained
<1>9. ASSUME NEW x \in S
      PROVE  next[x] # first
  <2>1. PICK i \in 1 .. n : x = c[i]
    BY DEF Chained
  <2>2. i # n => i + 1 \in 1 .. n /\ i + 1 # 1
    BY <1>1
  <2> QED
    BY <1>1, <2>1, <2>2 DEF Chained
<1>10. Chained(none, S \ {first}, next[first], next, n - 1, d)
  BY ONLY <1>1, <1>4, <1>5, <1>6, <1>7, <1>8 DEF Chained
<1> QED
  BY <1>9, <1>10

\* A node is put at the end: the last one, if there is one, gets it as its next.
LEMMA ChainedPut ==
  ASSUME NEW none, NEW S, NEW first, NEW next, NEW n, NEW c,
         Chained(none, S, first, next, n, c),
         NEW x, x \notin S, x # none,
         NEW next2, next2[x] = none,
         \A y \in S : next2[y] = IF next[y] = none THEN x ELSE next[y]
  PROVE  \E m, d : Chained(none, S \cup {x}, IF S = {} THEN x ELSE first, next2, m, d)
<1> DEFINE d == [i \in 1 .. (n + 1) |-> IF i = n + 1 THEN x ELSE c[i]]
<1>1. n \in Nat /\ n + 1 \in Nat /\ n + 1 \in 1 .. (n + 1)
  BY DEF Chained
<1>2. \A i \in 1 .. n : i \in 1 .. (n + 1) /\ i # n + 1 /\ d[i] = c[i]
  BY <1>1
<1>3. d[n + 1] = x /\ \A i \in 1 .. (n + 1) : i = n + 1 \/ i \in 1 .. n
  BY <1>1
<1> HIDE DEF d
<1>4. \A i \in 1 .. (n + 1) : d[i] \in S \cup {x} /\ d[i] # none
  BY <1>2, <1>3 DEF Chained
<1>5. \A y \in S \cup {x} : \E i \in 1 .. (n + 1) : y = d[i]
  BY <1>1, <1>2, <1>3 DEF Chained
<1>6. \A i \in 1 .. n : d[i] \in S
  BY <1>2 DEF Chained
<1>7. \A i, j \in 1 .. (n + 1) : d[i] = d[j] => i = j
  <2> SUFFICES ASSUME NEW i \in 1 .. (n + 1), NEW j \in 1 .. (n + 1), d[i] = d[j]
               PROVE  i = j
    OBVIOUS
  <2>1. CASE i \in 1 .. n /\ j \in 1 .. n
    BY <1>2, <2>1 DEF Chained
  <2>2. CASE i = n + 1 \/ j = n + 1
    BY <1>3, <1>6, <2>2
  <2> QED
    BY <1>3, <2>1, <2>2
<1>8. \A i \in 1 .. (n + 1) : next2[d[i]] = IF i = n + 1 THEN none ELSE d[i + 1]
  <2> SUFFICES ASSUME NEW i \in 1 .. n
               PROVE  next2[d[i]] = d[i + 1]
    BY <1>2, <1>3
  <2>1. CASE i = n
    BY <1>2, <1>3, <1>6, <2>1 DEF Chained
  <2>2. CASE i # n
    <3>1. i + 1 \in 1 .. n
      BY <1>1, <2>2
    <3>2. next[c[i]] = c[i + 1] /\ c[i + 1] # none
      BY <2>2, <3>1 DEF Chained
    <3> QED
      BY <1>2, <1>6, <3>1, <3>2
  <2> QED
    BY <2>1, <2>2
<1>9. (IF S = {} THEN x ELSE first) = d[1]
  <2>1. CASE n = 0
    BY <1>3, <2>1 DEF Chained
  <2>2. CASE n # 0
    <3>1. 1 \in 1 .. n
      BY <1>1, <2>2
    <3> QED
      BY <1>2, <2>2, <3>1 DEF Chained
  <2> QED
    BY <2>1, <2>2
<1>10. Chained(none, S \cup {x}, IF S = {} THEN x ELSE first, next2, n + 1, d)
  BY ONLY <1>1, <1>4, <1>5, <1>7, <1>8, <1>9 DEF Chained
<1> QED
  BY <1>10

\* A node is taken out: the one before it, or the first pointer, gets its next.
LEMMA ChainedRemove ==
  ASSUME NEW none, NEW S, NEW first, NEW next, NEW n, NEW c,
         Chained(none, S, first, next, n, c), NEW x \in S,
         NEW next2, \A y \in S \ {x} : next2[y] = IF next[y] = x THEN next[x] ELSE next[y]
  PROVE  \E m, d : Chained(none, S \ {x}, IF first = x THEN next[x] ELSE first, next2, m, d)
<1>1. PICK k \in 1 .. n : x = c[k]
  BY DEF Chained
<1> DEFINE d == [i \in 1 .. (n - 1) |-> IF i < k THEN c[i] ELSE c[i + 1]]
<1>2. n \in Nat /\ n - 1 \in Nat /\ k \in Int
  BY <1>1 DEF Chained
<1>3. \A i \in 1 .. (n - 1) :
        /\ i < k => i \in 1 .. n /\ i # k /\ d[i] = c[i]
        /\ ~(i < k) => i + 1 \in 1 .. n /\ i + 1 # k /\ d[i] = c[i + 1]
  BY <1>1, <1>2
<1>4. \A i \in 1 .. n : \/ i = k
                        \/ i < k /\ i \in 1 .. (n - 1) /\ d[i] = c[i]
                        \/ i > k /\ i - 1 \in 1 .. (n - 1) /\ ~(i - 1 < k) /\ d[i - 1] = c[i]
  BY <1>1, <1>2
<1> HIDE DEF d
<1>5. \A i, j \in 1 .. n : c[i] = c[j] => i = j
  BY DEF Chained
<1>6. \A i \in 1 .. (n - 1) : d[i] \in S \ {x} /\ d[i] # none
  BY <1>1, <1>3, <1>5 DEF Chained
<1>7. \A y \in S \ {x} : \E i \in 1 .. (n - 1) : y = d[i]
  <2> SUFFICES ASSUME NEW y \in S \ {x}
               PROVE  \E i \in 1 .. (n - 1) : y = d[i]
    OBVIOUS
  <2>1. PICK i \in 1 .. n : y = c[i]
    BY DEF Chained
  <2> QED
    BY <1>1, <1>4, <2>1
<1>8. \A i, j \in 1 .. (n - 1) : d[i] = d[j] => i = j
  <2> SUFFICES ASSUME NEW i \in 1 .. (n - 1), NEW j \in 1 .. (n - 1), d[i] = d[j]
               PROVE  i = j
    OBVIOUS
  <2> QED
    BY <1>1, <1>2, <1>3, <1>5
<1>9. \A i \in 1 .. (n - 1) : next2[d[i]] = IF i = n - 1 THEN none ELSE d[i + 1]
  <2> SUFFICES ASSUME NEW i \in 1 .. (n - 1)
               PROVE  next2[d[i]] = IF i = n - 1 THEN none ELSE d[i + 1]
    OBVIOUS
  <2>1. \A j \in 1 .. n : next[c[j]] = IF j = n THEN none ELSE c[j + 1]
    BY DEF Chained
  <2>2. i # n - 1 => i + 1 \in 1 .. (n - 1)
    BY <1>2
  <2>3. next2[d[i]] = IF next[d[i]] = x THEN next[x] ELSE next[d[i]]
    BY <1>6
  <2>4. x # none
    BY <1>1 DEF Chained
  <2>5. CASE i + 1 < k
    <3>1. d[i] = c[i] /\ i \in 1 .. n /\ i # n /\ i # n - 1 /\ i + 1 \in 1 .. n /\ i + 1 # k
      BY <1>1, <1>2, <1>3, <2>5
    <3>2. next[d[i]] = c[i + 1] /\ c[i + 1] # x /\ d[i + 1] = c[i + 1]
      BY <1>1, <1>3, <1>5, <2>1, <2>2, <2>5, <3>1
    <3> QED
      BY <2>3, <3>1, <3>2
  <2>6. CASE i + 1 = k
    <3>1. d[i] = c[i] /\ i \in 1 .. n /\ i # n /\ next[d[i]] = x
      BY <1>1, <1>2, <1>3, <2>1, <2>6
    <3>2. next2[d[i]] = IF k = n THEN none ELSE c[k + 1]
      BY <1>1, <2>1, <2>3, <3>1
    <3>3. i # n - 1 => d[i + 1] = c[k + 1]
      BY <1>2, <1>3, <2>2, <2>6
    <3> QED
      BY <1>2, <2>6, <3>2, <3>3
  <2>7. CASE ~(i < k)
    <3>1. d[i] = c[i + 1] /\ i + 1 \in 1 .. n /\ i + 1 # k
      BY <1>3, <2>7
    <3>2. next[d[i]] = IF i + 1 = n THEN none ELSE c[i + 1 + 1]
      BY <2>1, <3>1
    <3>3. i + 1 # n => i + 1 + 1 \in 1 .. n /\ i + 1 + 1 # k
      BY <1>1, <1>2, <2>7, <3>1
    <3>4. next[d[i]] # x
      BY <1>1, <1>5, <2>4, <3>2, <3>3
    <3>5. i # n - 1 => d[i + 1] = c[i + 1 + 1]
      BY <1>1, <1>2, <1>3, <2>2, <2>7
    <3> QED
      BY <1>2, <2>3, <3>2, <3>4, <3>5
  <2> QED
    BY <1>1, <1>2, <2>5, <2>6, <2>7
<1>10. (IF first = x THEN next[x] ELSE first) = IF n - 1 = 0 THEN none ELSE d[1]
  <2>1. first = c[1] /\ 1 \in 1 .. n /\ \A j \in 1 .. n : next[c[j]] = IF j = n THEN none ELSE c[j + 1]
    BY <1>1, <1>2 DEF Chained
  <2>2. n - 1 # 0 => 1 \in 1 .. (n - 1)
    BY <1>2
  <2>3. CASE k = 1
    BY <1>1, <1>2, <1>3, <2>1, <2>2, <2>3
  <2>4. CASE k # 1
    <3>1. first # x /\ 1 < k /\ n - 1 # 0
      BY <1>1, <1>2, <1>5, <2>1, <2>4
    <3> QED
      BY <1>3, <2>1, <2>2, <3>1
  <2> QED
    BY <2>3, <2>4
<1>11. Chained(none, S \ {x}, IF first = x THEN next[x] ELSE first, next2, n - 1, d)
  BY ONLY <1>2, <1>6, <1>7, <1>8, <1>9, <1>10 DEF Chained
<1> QED
  BY <1>11

\* When pre undoes next, pre makes the same list from its other end.
LEMMA ChainedReverse ==
  ASSUME NEW none, NEW S, NEW first, NEW next, NEW n, NEW c,
         Chained(none, S, first, next, n, c),
         NEW last, IF S = {} THEN last = none ELSE last \in S /\ next[last] = none,
         NEW pre, first # none => pre[first] = none,
         \A y \in S : next[y] # none => pre[next[y]] = y
  PROVE  \E d : Chained(none, S, last, pre, n, d)
<1> DEFINE d == [i \in 1 .. n |-> c[n + 1 - i]]
<1>1. n \in Nat
  BY DEF Chained
<1>2. \A i \in 1 .. n : n + 1 - i \in 1 .. n /\ d[i] = c[n + 1 - i] /\ n + 1 - (n + 1 - i) = i
  BY <1>1
<1> HIDE DEF d
<1>3. \A i \in 1 .. n : d[i] \in S /\ d[i] # none
  BY <1>2 DEF Chained
<1>4. \A x \in S : \E i \in 1 .. n : x = d[i]
  <2> SUFFICES ASSUME NEW x \in S
               PROVE  \E i \in 1 .. n : x = d[i]
    OBVIOUS
  <2>1. PICK j \in 1 .. n : x = c[j]
    BY DEF Chained
  <2>2. n + 1 - j \in 1 .. n /\ d[n + 1 - j] = c[j]
    BY <1>2
  <2> QED
    BY <2>1, <2>2
<1>5. \A i, j \in 1 .. n : d[i] = d[j] => i = j
  <2> SUFFICES ASSUME NEW i \in 1 .. n, NEW j \in 1 .. n, d[i] = d[j]
               PROVE  i = j
    OBVIOUS
  <2>1. n + 1 - i = n + 1 - j
    BY <1>2 DEF Chained
  <2> QED
    BY <1>1, <2>1
<1>6. \A i \in 1 .. n : pre[d[i]] = IF i = n THEN none ELSE d[i + 1]
  <2> SUFFICES ASSUME NEW i \in 1 .. n
               PROVE  pre[d[i]] = IF i = n THEN none ELSE d[i + 1]
    OBVIOUS
  <2>1. CASE i = n
    <3>1. d[i] = c[1] /\ n # 0
      BY <1>1, <1>2, <2>1
    <3>2. first = c[1] /\ c[1] # none
      BY <1>1, <3>1 DEF Chained
    <3> QED
      BY <2>1, <3>1, <3>2
  <2>2. CASE i # n
    <3>1. i + 1 \in 1 .. n /\ n + 1 - (i + 1) = n - i /\ n + 1 - i = (n - i) + 1 /\ n - i # n /\ n - i \in 1 .. n
      BY <1>1, <2>2
    <3>2. d[i] = c[(n - i) + 1] /\ d[i + 1] = c[n - i]
      BY <1>2, <3>1
    <3>3. next[c[n - i]] = c[(n - i) + 1] /\ c[n - i] \in S
      BY <3>1 DEF Chained
    <3>4. next[c[n - i]] # none
      BY <1>3, <3>2, <3>3
    <3> QED
      BY <2>2, <3>2, <3>3, <3>4
  <2> QED
    BY <2>1, <2>2
<1>7. last = IF n = 0 THEN none ELSE d[1]
  <2>1. CASE n = 0
    BY <2>1 DEF Chained
  <2>2. CASE n # 0
    <3>1. 1 \in 1 .. n /\ d[1] = c[n] /\ n + 1 - 1 = n /\ S # {}
      BY <1>1, <1>2, <2>2 DEF Chained
    <3>2. last = c[n]
      BY <3>1, ChainedLast
    <3> QED
      BY <2>2, <3>1, <3>2
  <2> QED
    BY <2>1, <2>2
<1>8. Chained(none, S, last, pre, n, d)
  BY ONLY <1>1, <1>3, <1>4, <1>5, <1>6, <1>7 DEF Chained
<1> QED
  BY <1>8

=============================================================================
