----------------------------- MODULE BasicLemmas ------------------------------
(***************************************************************************)
(* What the proofs of several components rest on: induction over the       *)
(* numbers and over finite sets, where a set of the instances that an      *)
(* argument holds for takes the place of a predicate; what it shows of the *)
(* sum over a function; and sequences, item by item.                       *)
(***************************************************************************)
EXTENDS Integers, FiniteSetTheorems, Functions, SequenceTheorems, WellFoundedInduction, TLAPS

LEMMA Least ==
    ASSUME NEW T \in SUBSET Nat, T # {}
    PROVE  \E x \in T : \A y \in T : x <= y
<1>1. PICK x \in T : \A y \in T : ~ (<<y, x>> \in OpToRel(<, Nat))
  BY NatLessThanWellFounded, WFMin
<1>2. \A y \in T : ~(y < x)
  BY <1>1 DEF OpToRel
<1> QED
  BY <1>2

LEMMA Induct ==
    ASSUME NEW S, 0 \in S, \A n \in Nat : n \in S => n + 1 \in S
    PROVE  Nat \subseteq S
<1> SUFFICES ASSUME Nat \ S # {} PROVE FALSE
  OBVIOUS
<1>1. PICK x \in Nat \ S : \A y \in Nat \ S : x <= y
  BY Least
<1>2. x # 0 /\ x - 1 \in Nat /\ x - 1 \in S
  BY <1>1
<1> QED
  BY <1>2, (x - 1) + 1 = x

(* What holds of a set if it does of the set without any one element. *)
LEMMA FiniteInduct ==
    ASSUME NEW S, IsFiniteSet(S), NEW P, {} \in P,
           \A T \in SUBSET S : T # {} /\ (\A x \in T : T \ {x} \in P) => T \in P
    PROVE  \A T \in SUBSET S : T \in P
<1> DEFINE Sized(n) == \A T \in SUBSET S : Cardinality(T) = n => T \in P
           Good == {n \in Nat : Sized(n)}
<1>1. \A T \in SUBSET S : IsFiniteSet(T) /\ Cardinality(T) \in Nat
  BY FS_Subset, FS_CardinalityType
<1>2. 0 \in Good
  BY <1>1, FS_EmptySet
<1>3. ASSUME NEW n \in Nat, Sized(n)
      PROVE  Sized(n + 1)
  <2> SUFFICES ASSUME NEW T \in SUBSET S, Cardinality(T) = n + 1 PROVE T \in P
    OBVIOUS
  <2>1. T # {}
    BY <1>1, FS_EmptySet
  <2>2. ASSUME NEW x \in T PROVE T \ {x} \in P
    <3>1. Cardinality(T \ {x}) = Cardinality(T) - 1
      BY <1>1, FS_RemoveElement
    <3> QED
      BY <1>3, <3>1
  <2> QED
    BY <2>1, <2>2
<1>4. \A n \in Nat : n \in Good => n + 1 \in Good
  BY <1>3
<1>5. Nat \subseteq Good
  <2> HIDE DEF Good
  <2> QED
    BY <1>2, <1>4, Induct
<1> QED
  BY <1>1, <1>5

-----------------------------------------------------------------------------
(* The sums over the parts of a function's domain: the table that            *)
(* SumFunction looks the whole domain up in.                                 *)

Adds(t, F) ==
    t = [s \in SUBSET DOMAIN F |->
           IF s = {} THEN 0 ELSE F[CHOOSE x \in s : TRUE] + t[s \ {CHOOSE x \in s : TRUE}]]

SumTable(F) == CHOOSE t : Adds(t, F)

LEMMA SumIsInTable == \A F : SumFunction(F) = SumTable(F)[DOMAIN F]
BY DEF SumFunction, SumFunctionOnSet, FoldFunctionOnSet, MapThenFoldSet, SumTable, Adds

LEMMA SumTableAdds ==
    ASSUME NEW F, IsFiniteSet(DOMAIN F)
    PROVE  Adds(SumTable(F), F)
<1> DEFINE D == DOMAIN F
           Pick(s) == CHOOSE x \in s : TRUE
           Body(t, s) == IF s = {} THEN 0 ELSE F[Pick(s)] + t[s \ {Pick(s)}]
           Small(n) == {s \in SUBSET D : Cardinality(s) <= n}
           Good == {n \in Nat : \E t : t = [s \in Small(n) |-> Body(t, s)]}
<1>1. \A s \in SUBSET D : IsFiniteSet(s) /\ Cardinality(s) \in Nat /\ (Cardinality(s) = 0 <=> s = {})
  BY FS_Subset, FS_CardinalityType, FS_EmptySet
<1>2. \A s \in SUBSET D : s # {} =>
         Pick(s) \in s /\ s \ {Pick(s)} \in SUBSET D /\ Cardinality(s \ {Pick(s)}) = Cardinality(s) - 1
  BY <1>1, FS_RemoveElement
<1> HIDE DEF Pick
<1>3. 0 \in Good
  <2> DEFINE t == [s \in Small(0) |-> 0]
  <2>1. \A s \in Small(0) : Body(t, s) = 0
    BY <1>1
  <2>2. t = [s \in Small(0) |-> Body(t, s)]
    BY <2>1
  <2> QED
    BY <2>2
<1>4. ASSUME NEW n \in Nat, NEW u, u = [s \in Small(n) |-> Body(u, s)]
      PROVE  \E t : t = [s \in Small(n + 1) |-> Body(t, s)]
  <2> DEFINE t == [s \in Small(n + 1) |-> Body(u, s)]
  <2>1. \A s \in Small(n) : t[s] = u[s]
    <3> SUFFICES ASSUME NEW s \in Small(n) PROVE t[s] = u[s]
      OBVIOUS
    <3>1. s \in Small(n + 1)
      BY <1>1
    <3>2. u[s] = Body(u, s)
      BY <1>4
    <3> QED
      BY <3>1, <3>2
  <2>2. \A s \in Small(n + 1) : s # {} => s \ {Pick(s)} \in Small(n)
    BY <1>1, <1>2
  <2>3. \A s \in Small(n + 1) : Body(t, s) = Body(u, s)
    <3> HIDE DEF t, Small
    <3> QED
      BY <2>1, <2>2
  <2>4. t = [s \in Small(n + 1) |-> Body(t, s)]
    <3> DEFINE b == [s \in Small(n + 1) |-> Body(t, s)]
    <3>1. t = b
      BY <2>3
    <3> QED
      BY <3>1
  <2> QED
    BY <2>4
<1>5. Nat \subseteq Good
  <2>1. ASSUME NEW n \in Nat, n \in Good PROVE n + 1 \in Good
    <3>1. PICK u : u = [s \in Small(n) |-> Body(u, s)]
      BY <2>1
    <3>2. \E t : t = [s \in Small(n + 1) |-> Body(t, s)]
      BY <1>4, <3>1
    <3> HIDE DEF Small, Body
    <3> QED
      BY <3>2
  <2> HIDE DEF Good
  <2> QED
    BY <1>3, <2>1, Induct
<1>6. \E t : Adds(t, F)
  <2>1. Cardinality(D) \in Good
    BY <1>1, <1>5
  <2>2. \A s \in SUBSET D : Cardinality(s) <= Cardinality(D)
    BY FS_Subset
  <2>3. Small(Cardinality(D)) = SUBSET D
    BY <2>2
  <2> QED
    BY <2>1, <2>3 DEF Adds, Pick
<1> QED
  BY <1>6 DEF SumTable

(* A sum grows by what one of its numbers does. *)
LEMMA SumGrows ==
    ASSUME NEW D, IsFiniteSet(D), NEW F \in [D -> Nat], NEW G \in [D -> Nat],
           NEW d \in D, NEW k \in Nat, G[d] <= F[d] + k, \A x \in D \ {d} : G[x] <= F[x]
    PROVE  /\ SumFunction(F) \in Nat /\ SumFunction(G) \in Nat
           /\ SumFunction(G) <= SumFunction(F) + k
<1> DEFINE f == SumTable(F)
           g == SumTable(G)
           Pick(s) == CHOOSE x \in s : TRUE
           Bounded(s) == /\ f[s] \in Nat /\ g[s] \in Nat
                         /\ g[s] <= f[s] + (IF d \in s THEN k ELSE 0)
           P == {s \in SUBSET D : Bounded(s)}
<1>1. /\ f = [s \in SUBSET D |-> IF s = {} THEN 0 ELSE F[Pick(s)] + f[s \ {Pick(s)}]]
      /\ g = [s \in SUBSET D |-> IF s = {} THEN 0 ELSE G[Pick(s)] + g[s \ {Pick(s)}]]
  BY SumTableAdds DEF Adds
<1>2. \A s \in SUBSET D : s # {} => Pick(s) \in s
  OBVIOUS
<1> HIDE DEF f, g, Pick
<1>3. {} \in P
  <2>1. f[{}] = 0 /\ g[{}] = 0
    BY <1>1
  <2> QED
    BY <2>1
<1>4. ASSUME NEW s \in SUBSET D, s # {}, \A x \in s : s \ {x} \in P
      PROVE  s \in P
  <2> DEFINE x == Pick(s)
  <2>1. x \in s /\ f[s] = F[x] + f[s \ {x}] /\ g[s] = G[x] + g[s \ {x}]
    BY <1>1, <1>2, <1>4
  <2>2. Bounded(s \ {x})
    BY <1>4, <2>1
  <2> HIDE DEF x
  <2>3. F[x] \in Nat /\ G[x] \in Nat
    BY <2>1
  <2>4. CASE x = d
    <3>1. d \notin s \ {x} /\ d \in s /\ G[x] <= F[x] + k
      BY <2>1, <2>4
    <3> QED
      BY <2>1, <2>2, <2>3, <3>1
  <2>5. CASE x # d
    <3>1. (d \in s \ {x} <=> d \in s) /\ G[x] <= F[x]
      BY <2>1, <2>5
    <3> QED
      BY <2>1, <2>2, <2>3, <3>1
  <2> QED
    BY <2>4, <2>5
<1>5. D \in P
  <2> HIDE DEF P
  <2> QED
    BY <1>3, <1>4, FiniteInduct
<1>6. SumFunction(F) = f[D] /\ SumFunction(G) = g[D]
  BY SumIsInTable DEF f, g
<1> QED
  BY <1>5, <1>6

LEMMA SumOfZeros ==
    ASSUME NEW D, IsFiniteSet(D)
    PROVE  SumFunction([x \in D |-> 0]) = 0
<1> DEFINE F == [x \in D |-> 0]
           f == SumTable(F)
           Pick(s) == CHOOSE x \in s : TRUE
           P == {s \in SUBSET D : f[s] = 0}
<1>1. f = [s \in SUBSET D |-> IF s = {} THEN 0 ELSE F[Pick(s)] + f[s \ {Pick(s)}]]
  BY SumTableAdds DEF Adds
<1>2. \A s \in SUBSET D : s # {} => Pick(s) \in s
  OBVIOUS
<1> HIDE DEF f, Pick
<1>3. {} \in P
  BY <1>1
<1>4. ASSUME NEW s \in SUBSET D, s # {}, \A x \in s : s \ {x} \in P
      PROVE  s \in P
  <2> DEFINE x == Pick(s)
  <2>1. x \in s /\ f[s] = F[x] + f[s \ {x}]
    BY <1>1, <1>2, <1>4
  <2>2. f[s \ {x}] = 0
    BY <1>4, <2>1
  <2> QED
    BY <2>1, <2>2
<1>5. D \in P
  <2> HIDE DEF P
  <2> QED
    BY <1>3, <1>4, FiniteInduct
<1> QED
  BY <1>5, SumIsInTable DEF f

-----------------------------------------------------------------------------
(* Sequences, item by item. *)

LEMMA SameItems ==
    ASSUME NEW S, NEW s \in Seq(S), NEW k, Len(s) = k, NEW f, f = [j \in 1..k |-> f[j]],
           \A j \in 1..k : s[j] = f[j]
    PROVE  s = f
<1>1. s = [j \in 1..k |-> s[j]]
  <2>1. s \in [1..k -> S]
    BY LenProperties
  <2> QED
    BY <2>1
<1> QED
  BY <1>1

LEMMA Joined ==
    ASSUME NEW S, NEW a \in Seq(S), NEW b \in Seq(S), NEW p, NEW q, Len(a) = p, Len(b) = q
    PROVE  /\ p \in Nat /\ q \in Nat
           /\ a \o b \in Seq(S) /\ Len(a \o b) = p + q
           /\ \A j \in 1..(p + q) : (a \o b)[j] = IF j <= p THEN a[j] ELSE b[j - p]
BY ConcatProperties, LenProperties

(* The run of v items behind the b-th of a sequence.                         *)
LEMMA Prefix ==
    ASSUME NEW S, NEW s \in Seq(S), NEW b \in Nat, NEW v \in Nat, b + v <= Len(s),
           NEW l \in Int, l = b + 1, NEW r \in Int, r = b + v
    PROVE  /\ SubSeq(s, l, r) \in Seq(S) /\ Len(SubSeq(s, l, r)) = v
           /\ \A j \in 1..v : SubSeq(s, l, r)[j] = s[b + j]
<1>1. \A j \in l..r : s[j] \in S
  OBVIOUS
<1>2. l \in Int /\ r \in Int /\ r - l + 1 = v /\ (~(l <= r) => v = 0)
  OBVIOUS
<1>3. \A j \in 1..v : l + j - 1 = b + j
  OBVIOUS
<1>4. /\ SubSeq(s, l, r) \in Seq(S)
      /\ Len(SubSeq(s, l, r)) = IF l <= r THEN r - l + 1 ELSE 0
      /\ \A j \in 1..(r - l + 1) : SubSeq(s, l, r)[j] = s[l + j - 1]
  BY <1>1, SubSeqProperties
<1> QED
  BY <1>2, <1>3, <1>4

(* A run of one item.                                                        *)
LEMMA OneItem ==
    ASSUME NEW S, NEW s \in Seq(S), NEW k \in Int, 1 <= k, k <= Len(s), NEW q, q = k + 1
    PROVE  SubSeq(s, k, q - 1) = <<s[k]>>
<1>1. q - 1 = k /\ k - k + 1 = 1 /\ k + 1 - 1 = k
  OBVIOUS
<1>2. \A j \in k..k : s[j] \in S
  BY LenProperties
<1>3. SubSeq(s, k, k) \in Seq(S) /\ Len(SubSeq(s, k, k)) = 1 /\ SubSeq(s, k, k)[1] = s[k]
  <2>1. /\ SubSeq(s, k, k) \in Seq(S)
        /\ Len(SubSeq(s, k, k)) = IF k <= k THEN k - k + 1 ELSE 0
        /\ \A j \in 1..(k - k + 1) : SubSeq(s, k, k)[j] = s[k + j - 1]
    BY <1>2, SubSeqProperties
  <2> QED
    BY <1>1, <2>1
<1>4. PICK t \in Seq(S) : t = SubSeq(s, k, k)
  BY <1>3
<1>5. t = <<s[k]>>
  <2>1. PICK x : x = s[k]
    OBVIOUS
  <2>2. PICK f : f = [j \in 1..1 |-> x]
    OBVIOUS
  <2>3. Len(t) = 1 /\ f = [j \in 1..1 |-> f[j]] /\ \A j \in 1..1 : t[j] = f[j]
    BY <1>3, <1>4, <2>1, <2>2
  <2>4. t = f
    BY <2>3, SameItems
  <2>5. <<x>> = f
    BY <2>2
  <2> QED
    BY <2>1, <2>4, <2>5
<1> QED
  BY <1>1, <1>4, <1>5

(* A run of two items.                                                       *)
LEMMA TwoItems ==
    ASSUME NEW S, NEW s \in Seq(S), NEW o \in Nat, NEW l \in Int, l = o + 1,
           NEW r \in Int, r = o + 2, r <= Len(s), NEW x, NEW y, SubSeq(s, l, r) = <<x, y>>
    PROVE  s[l] = x /\ s[r] = y
<1>1. \A j \in l..r : s[j] \in S
  OBVIOUS
<1>2. \A j \in 1..(r - l + 1) : SubSeq(s, l, r)[j] = s[l + j - 1]
  BY <1>1, SubSeqProperties
<1>3. 1 \in 1..(r - l + 1) /\ 2 \in 1..(r - l + 1) /\ l + 1 - 1 = l /\ l + 2 - 1 = r
  OBVIOUS
<1>4. <<x, y>>[1] = x /\ <<x, y>>[2] = y
  OBVIOUS
<1> QED
  BY <1>2, <1>3, <1>4

(* The positions of one item more.                                           *)
LEMMA LastItem ==
    ASSUME NEW m \in Nat
    PROVE  \A j \in 1..(m + 1) : (j <= m => j \in 1..m) /\ (~(j <= m) => j - m = 1 /\ j = m + 1)
  OBVIOUS

(* What holds of the first of a list of values and is kept from each to the *)
(* next holds of all.                                                        *)
LEMMA StaysIn ==
    ASSUME NEW P, NEW n \in Nat, NEW f, f[0] \in P,
           \A i \in 1..n : f[i - 1] \in P => f[i] \in P
    PROVE  \A i \in 0..n : f[i] \in P
<1> DEFINE Good == {i \in Nat : i <= n => f[i] \in P}
<1>1. \A i \in Nat : i \in Good => i + 1 \in Good
  <2> SUFFICES ASSUME NEW i \in Nat, i \in Good, i + 1 <= n PROVE f[i + 1] \in P
    OBVIOUS
  <2>1. i + 1 \in 1..n /\ (i + 1) - 1 = i /\ f[i] \in P
    OBVIOUS
  <2> QED
    BY <2>1
<1>2. 0 \in Good
  OBVIOUS
<1> HIDE DEF Good
<1>3. Nat \subseteq Good
  BY <1>1, <1>2, Induct
<1> QED
  BY <1>3 DEF Good

(* A recursive definition on the numbers up to n has a meaning.              *)
Recurs(f, n, x, step) ==
    f = [i \in 0..n |-> IF i = 0 THEN x ELSE step[<<f[i - 1], i>>]]

LEMMA Recursion ==
    ASSUME NEW X, NEW x \in X, NEW n \in Nat, NEW step \in [X \X Nat -> X]
    PROVE  \E f \in [0..n -> X] : Recurs(f, n, x, step)
<1> DEFINE Steps(m, f) == f = [i \in 0..m |-> IF i = 0 THEN x ELSE step[<<f[i - 1], i>>]]
           Good == {m \in Nat : \E f \in [0..m -> X] : Steps(m, f)}
<1>1. 0 \in Good
  <2> DEFINE f == [i \in 0..0 |-> x]
  <2>1. f \in [0..0 -> X] /\ Steps(0, f)
    OBVIOUS
  <2> QED
    BY <2>1
<1>2. \A m \in Nat : m \in Good => m + 1 \in Good
  <2> SUFFICES ASSUME NEW m \in Nat, NEW f \in [0..m -> X], Steps(m, f)
               PROVE  m + 1 \in Good
    OBVIOUS
  <2> DEFINE g == [i \in 0..(m + 1) |-> IF i <= m THEN f[i] ELSE step[<<f[m], m + 1>>]]
  <2>1. f[m] \in X /\ step[<<f[m], m + 1>>] \in X
    OBVIOUS
  <2>2. g \in [0..(m + 1) -> X]
    BY <2>1
  <2>3. \A i \in 0..(m + 1) : g[i] = IF i = 0 THEN x ELSE step[<<g[i - 1], i>>]
    <3> TAKE i \in 0..(m + 1)
    <3>1. CASE i = 0
      <4>1. f[0] = x
        OBVIOUS
      <4> QED
        BY <3>1, <4>1
    <3>2. CASE i \in 1..m
      <4>1. f[i] = step[<<f[i - 1], i>>]
        BY <3>2
      <4> QED
        BY <3>2, <4>1
    <3>3. CASE i = m + 1
      BY <3>3
    <3> QED
      BY <3>1, <3>2, <3>3
  <2> HIDE DEF g
  <2>4. g = [i \in 0..(m + 1) |-> g[i]]
    BY <2>2
  <2>5. Steps(m + 1, g)
    BY <2>3, <2>4
  <2>6. \E h \in [0..(m + 1) -> X] : Steps(m + 1, h)
    BY <2>2, <2>5
  <2> HIDE DEF Steps
  <2> QED
    BY <2>6
<1> HIDE DEF Good
<1>3. n \in Good
  BY <1>1, <1>2, Induct
<1> QED
  BY <1>3 DEF Good, Recurs
=============================================================================
