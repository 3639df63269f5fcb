----------------------------- MODULE DmapProofs -----------------------------
(***************************************************************************)
(* What the recursive functions of Dmap do for all data: the metadata a    *)
(* source sends of a tree is printed without a panic                       *)
(* (`PrintsWithoutPanic'), and if its entries fit the format it can be     *)
(* read, and tells the tree (`PrintsTheTree').                             *)
(*                                                                         *)
(* Induction is by a least counterexample: `Least' is a fact about sets of *)
(* numbers, and `FixedPoint' about functionals, which are functions here,  *)
(* so neither has an operator as a parameter.                              *)
(***************************************************************************)
EXTENDS Dmap, SequenceTheorems, FiniteSetTheorems, WellFoundedInduction, TLAPS

-----------------------------------------------------------------------------
(***************************************************************************)
(* Recursion and induction                                                 *)
(***************************************************************************)

\* A set of natural numbers that is not empty has a least one.
LEMMA Least ==
  ASSUME NEW A \in SUBSET Nat, A # {}
  PROVE  \E m \in A : \A k \in A : m <= k
<1>1. IsWellFoundedOn(OpToRel(<, Nat), Nat)
  BY NatLessThanWellFounded
<1>2. PICK m \in A : \A k \in A : ~ (<<k, m>> \in OpToRel(<, Nat))
  BY <1>1, WFMin
<1>3. \A k \in A : ~ (k < m)
  BY <1>2 DEF OpToRel
<1>. QED  BY <1>3

\* B[g][s] depends on what g is for smaller arguments only.
IsRecursion(S, T, size, B) ==
  /\ T # {} /\ size \in [S -> Nat] /\ B \in [[S -> T] -> [S -> T]]
  /\ \A g, h \in [S -> T], s \in S :
       (\A r \in S : size[r] < size[s] => g[r] = h[r]) => B[g][s] = B[h][s]

HasFixedPoint(S, T, B) == \E f \in [S -> T] : f = B[f]

\* A recursion on a size has a function that satisfies it.
LEMMA FixedPoint ==
  ASSUME NEW S, NEW T, NEW size, NEW B, IsRecursion(S, T, size, B)
  PROVE  HasFixedPoint(S, T, B)
<1>0. /\ T # {} /\ size \in [S -> Nat] /\ B \in [[S -> T] -> [S -> T]]
      /\ \A g, h \in [S -> T], s \in S :
           (\A r \in S : size[r] < size[s] => g[r] = h[r]) => B[g][s] = B[h][s]
  BY DEF IsRecursion
<1>. USE <1>0
<1>. DEFINE Agrees(f, n) == \A s \in S : size[s] < n => f[s] = B[f][s]
<1>1. \A n \in Nat : \E f \in [S -> T] : Agrees(f, n)
  <2>. DEFINE A == {n \in Nat : ~ \E f \in [S -> T] : Agrees(f, n)}
  <2>1. SUFFICES ASSUME A # {} PROVE FALSE
    OBVIOUS
  <2>2. PICK m \in A : \A k \in A : m <= k
    BY <2>1, Least
  <2>3. m # 0
    <3>1. PICK any \in T : TRUE
      OBVIOUS
    <3>2. [s \in S |-> any] \in [S -> T]
      OBVIOUS
    <3>3. Agrees([s \in S |-> any], 0)
      OBVIOUS
    <3>. QED  BY <3>2, <3>3
  <2>4. PICK f \in [S -> T] : Agrees(f, m - 1)
    BY <2>2, <2>3
  <2>. DEFINE g == B[f]
  <2>5. g \in [S -> T]
    OBVIOUS
  <2>6. ASSUME NEW s \in S, size[s] < m
        PROVE  g[s] = B[g][s]
    <3>1. \A r \in S : size[r] < size[s] => f[r] = B[f][r]
      BY <2>4, <2>6, <2>2
    <3>. QED  BY <3>1, <2>5
  <2>. QED  BY <2>2, <2>5, <2>6
<1>2. ASSUME NEW f \in [S -> T], NEW g \in [S -> T], NEW n \in Nat, Agrees(f, n), Agrees(g, n)
      PROVE  \A s \in S : size[s] < n => f[s] = g[s]
  <2>. DEFINE A == {k \in Nat : \E s \in S : size[s] = k /\ k < n /\ f[s] # g[s]}
  <2>1. SUFFICES ASSUME A # {} PROVE FALSE
    OBVIOUS
  <2>2. PICK m \in A : \A k \in A : m <= k
    BY <2>1, Least
  <2>3. PICK s \in S : size[s] = m /\ m < n /\ f[s] # g[s]
    BY <2>2
  <2>4. \A r \in S : size[r] < size[s] => f[r] = g[r]
    BY <2>2, <2>3
  <2>5. B[f][s] = B[g][s]
    BY <2>4
  <2>. QED  BY <2>3, <2>5, <1>2
<1>. DEFINE F(n) == CHOOSE f \in [S -> T] : Agrees(f, n)
            fix == [s \in S |-> F(size[s] + 1)[s]]
<1>3. \A n \in Nat : F(n) \in [S -> T] /\ Agrees(F(n), n)
  BY <1>1
<1>. HIDE DEF F
<1>4. fix \in [S -> T]
  BY <1>3
<1>5. ASSUME NEW s \in S PROVE fix[s] = B[fix][s]
  <2>. DEFINE n == size[s] + 1
  <2>1. \A r \in S : size[r] < n => fix[r] = F(n)[r]
    <3>. TAKE r \in S
    <3>1. HAVE size[r] < n
    <3>2. Agrees(F(n), size[r] + 1)
      BY <1>3, <3>1
    <3>3. /\ F(n) \in [S -> T] /\ F(size[r] + 1) \in [S -> T]
          /\ Agrees(F(size[r] + 1), size[r] + 1)
      BY <1>3
    <3>. HIDE DEF Agrees
    <3>4. \A q \in S : size[q] < size[r] + 1 => F(n)[q] = F(size[r] + 1)[q]
      BY <1>2, <3>2, <3>3
    <3>. QED  BY <3>4
  <2>2. F(n) \in [S -> T] /\ F(n)[s] = B[F(n)][s]
    BY <1>3
  <2>3. B[fix][s] = B[F(n)][s]
    <3>1. \A r \in S : size[r] < size[s] => fix[r] = F(n)[r]
      BY <2>1
    <3>. HIDE DEF fix, n
    <3>. QED  BY <3>1, <2>2, <1>4
  <2>. QED  BY <2>1, <2>2, <2>3
<1>. QED
  <2>1. fix = B[fix]
    BY <1>4, <1>5
  <2>. QED  BY <1>4, <2>1 DEF HasFixedPoint

-----------------------------------------------------------------------------
(***************************************************************************)
(* Sequences                                                               *)
(***************************************************************************)

\* The three parts of <<h>> \o a \o b.
LEMMA Parts ==
  ASSUME NEW S, NEW h \in S, NEW a \in Seq(S), NEW b \in Seq(S)
  PROVE  LET s == <<h>> \o a \o b
         IN  /\ s \in Seq(S) /\ Len(s) = 1 + Len(a) + Len(b)
             /\ s[1] = h
             /\ SubSeq(s, 2, Len(a) + 1) = a
             /\ SubSeq(s, Len(a) + 2, Len(s)) = b
<1>. DEFINE s == <<h>> \o a \o b
<1>1. /\ s \in Seq(S) /\ Len(s) = 1 + Len(a) + Len(b)
      /\ \A i \in 1 .. Len(s) : s[i] = IF i = 1 THEN h ELSE IF i <= Len(a) + 1 THEN a[i - 1]
                                       ELSE b[i - 1 - Len(a)]
  OBVIOUS
<1>. HIDE DEF s
<1>2. Len(a) \in Nat /\ Len(b) \in Nat
  OBVIOUS
<1>3. /\ SubSeq(s, 2, Len(a) + 1) \in Seq(S) /\ Len(SubSeq(s, 2, Len(a) + 1)) = Len(a)
      /\ \A i \in 1 .. Len(a) : SubSeq(s, 2, Len(a) + 1)[i] = a[i]
  <2>1. 2 \in Int /\ Len(a) + 1 \in Int /\ \A i \in 2 .. Len(a) + 1 : s[i] \in S
    BY <1>1, <1>2
  <2>2. Len(SubSeq(s, 2, Len(a) + 1)) = IF 2 <= Len(a) + 1 THEN Len(a) + 1 - 2 + 1 ELSE 0
    BY <2>1, SubSeqProperties
  <2>3. \A i \in 1 .. Len(a) + 1 - 2 + 1 : SubSeq(s, 2, Len(a) + 1)[i] = s[2 + i - 1]
    BY <2>1, SubSeqProperties
  <2>4. SubSeq(s, 2, Len(a) + 1) \in Seq(S)
    BY <2>1, SubSeqProperties
  <2>5. \A i \in 1 .. Len(a) : s[2 + i - 1] = a[i]
    BY <1>1, <1>2
  <2>. QED  BY <1>2, <2>2, <2>3, <2>4, <2>5
<1>4. SubSeq(s, 2, Len(a) + 1) = a
  BY <1>3, SeqEqual
<1>5. /\ SubSeq(s, Len(a) + 2, Len(s)) \in Seq(S)
      /\ Len(SubSeq(s, Len(a) + 2, Len(s))) = Len(b)
      /\ \A i \in 1 .. Len(b) : SubSeq(s, Len(a) + 2, Len(s))[i] = b[i]
  <2>. DEFINE m == Len(a) + 2
              n == Len(s)
              t == SubSeq(s, m, n)
  <2>1. m \in Int /\ n \in Int /\ n - m + 1 = Len(b)
    BY <1>1, <1>2
  <2>2. \A i \in m .. n : s[i] \in S
    BY <1>1, <1>2
  <2>. HIDE DEF m, n
  <2>3. /\ t \in Seq(S) /\ Len(t) = IF m <= n THEN n - m + 1 ELSE 0
        /\ \A i \in 1 .. n - m + 1 : t[i] = s[m + i - 1]
    BY <2>1, <2>2, SubSeqProperties
  <2>4. ASSUME NEW i \in 1 .. Len(b)
        PROVE  s[m + i - 1] = b[i]
    <3>. DEFINE k == m + i - 1
    <3>1. /\ k \in 1 .. Len(s) /\ k # 1 /\ ~ (k <= Len(a) + 1)
          /\ k - 1 - Len(a) = i
      BY <1>1, <1>2 DEF m
    <3>. HIDE DEF k
    <3>2. s[k] = b[k - 1 - Len(a)]
      BY <1>1, <3>1
    <3>. QED  BY <3>1, <3>2 DEF k
  <2>. QED  BY <1>2, <2>1, <2>3, <2>4 DEF m, n
<1>6. SubSeq(s, Len(a) + 2, Len(s)) = b
  BY <1>5, SeqEqual
<1>. QED  BY <1>1, <1>2, <1>4, <1>6 DEF s

\* How long two sequences are, one behind the other.
LEMMA LengthOfTwo ==
  ASSUME NEW S, NEW a \in Seq(S), NEW b \in Seq(S)
  PROVE  Len(a \o b) = Len(a) + Len(b) /\ Len(a) \in Nat /\ Len(b) \in Nat
BY ConcatProperties

\* Where they begin and end.
LEMMA LastOfTwo ==
  ASSUME NEW S, NEW a \in Seq(S), NEW b \in Seq(S), a # <<>>
  PROVE  /\ a \o b \in Seq(S) /\ a \o b # <<>> /\ (a \o b)[1] = a[1]
         /\ (a \o b)[Len(a \o b)] = IF b = <<>> THEN a[Len(a)] ELSE b[Len(b)]
<1>1. Len(a) \in Nat \ {0} /\ Len(b) \in Nat /\ (b # <<>> => Len(b) # 0)
  BY EmptySeq
<1>2. /\ a \o b \in Seq(S) /\ Len(a \o b) = Len(a) + Len(b)
      /\ \A i \in 1 .. Len(a) + Len(b) :
           (a \o b)[i] = IF i <= Len(a) THEN a[i] ELSE b[i - Len(a)]
  BY ConcatProperties
<1>3. b = <<>> => Len(b) = 0
  OBVIOUS
<1>. QED  BY <1>1, <1>2, <1>3

-----------------------------------------------------------------------------
(***************************************************************************)
(* Forests                                                                 *)
(***************************************************************************)

\* The first entry has an end.
LEMMA ExtentFits ==
  ASSUME NEW f \in Seq(Item), f # <<>>
  PROVE  Extent(f) \in 1 .. Len(f) /\ IsExtent(f, Extent(f))
<1>. DEFINE A == {n \in Nat : n \in 1 .. Len(f) /\ (n < Len(f) => f[n + 1].depth = 1)}
<1>1. Len(f) \in Nat \ {0}
  BY EmptySeq
<1>2. Len(f) \in A
  BY <1>1
<1>3. PICK m \in A : \A k \in A : m <= k
  BY <1>2, Least
<1>4. \A i \in 2 .. m : f[i].depth > 1
  <2>. TAKE i \in 2 .. m
  <2>0. m \in 1 .. Len(f) /\ m \in Nat
    BY <1>3
  <2>1. i - 1 \in Nat /\ i - 1 \in 1 .. Len(f) /\ i - 1 < Len(f) /\ i - 1 < m /\ i - 1 + 1 = i
    BY <1>1, <2>0
  <2>2. i - 1 \notin A
    BY <1>3, <2>0, <2>1
  <2>3. f[i].depth # 1
    BY <2>1, <2>2
  <2>4. f[i] \in Item
    BY <1>1, <2>1
  <2>5. f[i].depth \in Nat \ {0}
    BY <2>4 DEF Item
  <2>. QED  BY <2>3, <2>5
<1>5. m \in 1 .. Len(f) /\ IsExtent(f, m)
  BY <1>3, <1>4 DEF IsExtent
<1>. QED  BY <1>5 DEF Extent

\* What is in the first entry, and what is behind it, are fewer entries.
LEMMA Smaller ==
  ASSUME NEW f \in Seq(Item), f # <<>>
  PROVE  /\ Inside(f) \in Seq(Item) /\ Len(Inside(f)) = Extent(f) - 1
         /\ \A i \in 1 .. Extent(f) - 1 :
              /\ Inside(f)[i].depth = f[i + 1].depth - 1
              /\ Inside(f)[i].tag = f[i + 1].tag /\ Inside(f)[i].content = f[i + 1].content
         /\ After(f) \in Seq(Item) /\ Len(After(f)) = Len(f) - Extent(f)
         /\ \A i \in 1 .. Len(f) - Extent(f) : After(f)[i] = f[Extent(f) + i]
         /\ f[1] \in Item /\ Len(f) \in Nat \ {0}
<1>1. Len(f) \in Nat \ {0} /\ f[1] \in Item
  BY EmptySeq
<1>. DEFINE n == Extent(f)
<1>2. n \in 1 .. Len(f) /\ \A i \in 2 .. n : f[i].depth > 1
  BY ExtentFits DEF IsExtent
<1>. HIDE DEF n
<1>3. ASSUME NEW i \in 1 .. n - 1
      PROVE  /\ Raised(f[i + 1]) \in Item
             /\ Raised(f[i + 1]).depth = f[i + 1].depth - 1
             /\ Raised(f[i + 1]).tag = f[i + 1].tag
             /\ Raised(f[i + 1]).content = f[i + 1].content
  <2>1. i + 1 \in 2 .. n /\ i + 1 \in 1 .. Len(f)
    BY <1>1, <1>2
  <2>2. f[i + 1].depth > 1 /\ f[i + 1] \in Item
    BY <1>2, <2>1
  <2>3. f[i + 1].depth \in Nat \ {0} /\ f[i + 1].tag \in Tags /\ f[i + 1].content \in Seq(Nat)
    BY <2>2 DEF Item
  <2>. QED  BY <2>2, <2>3 DEF Item, Raised
<1>4. Inside(f) = [i \in 1 .. n - 1 |-> Raised(f[i + 1])]
  BY DEF Inside, n
<1>5. n - 1 \in Nat
  BY <1>1, <1>2
<1>6. Inside(f) \in Seq(Item) /\ Len(Inside(f)) = n - 1
  BY <1>3, <1>4, <1>5
<1>7. After(f) \in Seq(Item) /\ Len(After(f)) = Len(f) - n
      /\ \A i \in 1 .. Len(f) - n : After(f)[i] = f[n + i]
  BY <1>1, <1>2 DEF After, n
<1>. QED  BY <1>1, <1>3, <1>4, <1>6, <1>7 DEF n

\* Forests are made of forests.
LEMMA ForestParts ==
  ASSUME NEW f \in Seq(Item), f # <<>>, IsForest(f)
  PROVE  /\ IsForest(Inside(f)) /\ IsForest(After(f))
         /\ ~Holds(f[1]) => Inside(f) = <<>>
         /\ Holds(f[1]) => f[1].content = <<>>
         /\ f[1].depth = 1
<1>1. /\ Extent(f) \in 1 .. Len(f) /\ Len(f) \in Nat \ {0}
      /\ \A i \in 2 .. Extent(f) : f[i].depth > 1
      /\ Extent(f) < Len(f) => f[Extent(f) + 1].depth = 1
  BY ExtentFits, Smaller DEF IsExtent
<1>2. /\ Inside(f) \in Seq(Item) /\ Len(Inside(f)) = Extent(f) - 1
      /\ \A i \in 1 .. Extent(f) - 1 :
           /\ Inside(f)[i].depth = f[i + 1].depth - 1
           /\ Inside(f)[i].tag = f[i + 1].tag /\ Inside(f)[i].content = f[i + 1].content
      /\ After(f) \in Seq(Item) /\ Len(After(f)) = Len(f) - Extent(f)
      /\ \A i \in 1 .. Len(f) - Extent(f) : After(f)[i] = f[Extent(f) + i]
  BY Smaller
<1>3. /\ f[1].depth = 1
      /\ \A i \in 1 .. Len(f) : Holds(f[i]) => f[i].content = <<>>
      /\ \A i \in 1 .. Len(f) - 1 :
           f[i + 1].depth <= f[i].depth + IF Holds(f[i]) THEN 1 ELSE 0
  BY DEF IsForest
<1>4. \A i \in 1 .. Len(f) : f[i].depth \in Nat \ {0}
  <2>. TAKE i \in 1 .. Len(f)
  <2>1. f[i] \in Item
    OBVIOUS
  <2>. QED  BY <2>1 DEF Item
<1>. DEFINE n == Extent(f)
<1>5. n > 1 => Holds(f[1]) /\ f[2].depth = 2
  <2>. HAVE n > 1
  <2>1. f[2].depth > 1 /\ f[2].depth <= f[1].depth + IF Holds(f[1]) THEN 1 ELSE 0
    BY <1>1, <1>3
  <2>2. f[2].depth \in Nat
    BY <1>1, <1>4
  <2>. QED  BY <1>3, <2>1, <2>2
<1>6. IsForest(Inside(f))
  <2>. DEFINE g == Inside(f)
  <2>1. g # <<>> => g[1].depth = 1
    <3>. HAVE g # <<>>
    <3>1. n > 1
      BY <1>1, <1>2
    <3>. QED  BY <1>1, <1>2, <1>5, <3>1
  <2>2. ASSUME NEW i \in DOMAIN g
        PROVE  Holds(g[i]) => g[i].content = <<>>
    <3>1. i \in 1 .. n - 1 /\ i + 1 \in 1 .. Len(f)
      BY <1>1, <1>2
    <3>. QED  BY <1>2, <1>3, <3>1 DEF Holds
  <2>3. ASSUME NEW i \in 1 .. Len(g) - 1
        PROVE  g[i + 1].depth <= g[i].depth + IF Holds(g[i]) THEN 1 ELSE 0
    <3>1. /\ i \in 1 .. n - 1 /\ i + 1 \in 1 .. n - 1 /\ i + 1 \in 1 .. Len(f) - 1
          /\ i + 1 \in 1 .. Len(f) /\ i + 1 + 1 \in 1 .. Len(f)
      BY <1>1, <1>2
    <3>2. Holds(g[i]) <=> Holds(f[i + 1])
      BY <1>2, <3>1 DEF Holds
    <3>3. f[i + 1].depth \in Nat /\ f[i + 1 + 1].depth \in Nat
      BY <1>4, <3>1
    <3>4. f[i + 1 + 1].depth <= f[i + 1].depth + IF Holds(f[i + 1]) THEN 1 ELSE 0
      BY <1>3, <3>1
    <3>5. g[i].depth = f[i + 1].depth - 1 /\ g[i + 1].depth = f[i + 1 + 1].depth - 1
      BY <1>2, <3>1
    <3>. DEFINE more == IF Holds(f[i + 1]) THEN 1 ELSE 0
                x == f[i + 1].depth
                y == f[i + 1 + 1].depth
                p == g[i].depth
                q == g[i + 1].depth
    <3>6. more = (IF Holds(g[i]) THEN 1 ELSE 0) /\ more \in Int
      BY <3>2
    <3>7. x \in Nat /\ y \in Nat /\ y <= x + more /\ p = x - 1 /\ q = y - 1
      BY <3>3, <3>4, <3>5
    <3>. HIDE DEF more, x, y, p, q
    <3>8. q <= p + more
      BY <3>6, <3>7
    <3>. QED  BY <3>6, <3>8 DEF p, q
  <2>. QED  BY <2>1, <2>2, <2>3 DEF IsForest
<1>7. IsForest(After(f))
  <2>. DEFINE g == After(f)
  <2>1. g # <<>> => g[1].depth = 1
    <3>. HAVE g # <<>>
    <3>1. n < Len(f)
      BY <1>1, <1>2
    <3>. QED  BY <1>1, <1>2, <3>1
  <2>2. ASSUME NEW i \in DOMAIN g
        PROVE  Holds(g[i]) => g[i].content = <<>>
    <3>1. i \in 1 .. Len(f) - n /\ n + i \in 1 .. Len(f)
      BY <1>1, <1>2
    <3>. QED  BY <1>2, <1>3, <3>1
  <2>3. ASSUME NEW i \in 1 .. Len(g) - 1
        PROVE  g[i + 1].depth <= g[i].depth + IF Holds(g[i]) THEN 1 ELSE 0
    <3>0. Len(g) = Len(f) - n /\ n \in Nat /\ Len(f) \in Nat
      BY <1>1, <1>2
    <3>. HIDE DEF n, g
    <3>1. /\ i \in 1 .. Len(f) - n /\ i + 1 \in 1 .. Len(f) - n /\ n + i \in 1 .. Len(f) - 1
          /\ n + (i + 1) = n + i + 1
      BY <3>0
    <3>. USE DEF n, g
    <3>2. g[i] = f[n + i] /\ g[i + 1] = f[n + i + 1]
      BY <1>2, <3>1
    <3>. QED  BY <1>3, <3>1, <3>2
  <2>. QED  BY <2>1, <2>2, <2>3 DEF IsForest
<1>8. n = 1 => Inside(f) = <<>>
  BY <1>2
<1>. QED  BY <1>1, <1>3, <1>5, <1>6, <1>7, <1>8

\* Content is sent as cells, one for each byte.
LEMMA BytesAreCells ==
  ASSUME NEW content \in Seq(Nat)
  PROVE  Bytes(content) \in Seq(Cell) /\ Len(Bytes(content)) = Len(content)
<1>1. \A i \in 1 .. Len(content) : [tag |-> Byte, n |-> content[i]] \in Cell
  BY DEF Cell
<1>. QED  BY <1>1 DEF Bytes

-----------------------------------------------------------------------------
(***************************************************************************)
(* The recursive functions are what they are defined to be                 *)
(***************************************************************************)

DataContent(g, f) == Bytes(f[1].content) \o g[Inside(f)]
DataOf(g, f) ==
  IF f = <<>> THEN <<>>
  ELSE <<[tag |-> f[1].tag, n |-> Len(DataContent(g, f))]>> \o DataContent(g, f) \o g[After(f)]

\* A step of the recursion of Data gives cells.
LEMMA DataOfType ==
  ASSUME NEW g \in [Seq(Item) -> Seq(Cell)], NEW f \in Seq(Item)
  PROVE  DataOf(g, f) \in Seq(Cell)
<1>1. CASE f = <<>>
  BY <1>1 DEF DataOf
<1>2. CASE f # <<>>
  <2>1. f[1].tag \in Tags /\ f[1].content \in Seq(Nat)
    BY <1>2, Smaller DEF Item
  <2>2. g[Inside(f)] \in Seq(Cell) /\ g[After(f)] \in Seq(Cell)
    BY <1>2, Smaller
  <2>. DEFINE a == Bytes(f[1].content)
              b == g[Inside(f)]
  <2>3. DataContent(g, f) \in Seq(Cell) /\ Len(DataContent(g, f)) \in Nat
    <3>1. a \in Seq(Cell) /\ b \in Seq(Cell) /\ DataContent(g, f) = a \o b
      BY <2>1, <2>2, BytesAreCells DEF DataContent
    <3>. HIDE DEF a, b
    <3>. QED  BY <3>1
  <2>4. [tag |-> f[1].tag, n |-> Len(DataContent(g, f))] \in Cell
    BY <2>1, <2>3 DEF Cell
  <2>5. DataOf(g, f) = <<[tag |-> f[1].tag, n |-> Len(DataContent(g, f))]>>
                         \o DataContent(g, f) \o g[After(f)]
    BY <1>2 DEF DataOf
  <2>. QED  BY <2>2, <2>3, <2>4, <2>5
<1>. QED  BY <1>1, <1>2

\* It uses shorter lists of entries only.
LEMMA DataOfShorter ==
  ASSUME NEW g, NEW h, NEW f \in Seq(Item),
         \A r \in Seq(Item) : Len(r) < Len(f) => g[r] = h[r]
  PROVE  DataOf(g, f) = DataOf(h, f)
<1>1. CASE f = <<>>
  BY <1>1 DEF DataOf
<1>2. CASE f # <<>>
  <2>1. Extent(f) \in 1 .. Len(f) /\ Len(f) \in Nat \ {0}
    BY <1>2, ExtentFits, Smaller
  <2>2. Len(Inside(f)) < Len(f) /\ Len(After(f)) < Len(f)
    BY <1>2, <2>1, Smaller
  <2>3. g[Inside(f)] = h[Inside(f)] /\ g[After(f)] = h[After(f)]
    BY <1>2, <2>2, Smaller
  <2>. QED  BY <2>3 DEF DataOf, DataContent
<1>. QED  BY <1>1, <1>2

\* Data is the function its recursion describes.
LEMMA DataIs ==
  Data \in [Seq(Item) -> Seq(Cell)] /\ \A f \in Seq(Item) : Data[f] = DataOf(Data, f)
<1>. DEFINE S == Seq(Item)
            T == Seq(Cell)
            B == [g \in [S -> T] |-> [f \in S |-> DataOf(g, f)]]
            size == [f \in S |-> Len(f)]
<1>1. B \in [[S -> T] -> [S -> T]]
  BY DataOfType
<1>2. size \in [S -> Nat] /\ T # {}
  <2>1. <<>> \in T
    OBVIOUS
  <2>2. \A f \in S : Len(f) \in Nat
    OBVIOUS
  <2>. QED  BY <2>1, <2>2
<1>3. \A g, h \in [S -> T], s \in S :
        (\A r \in S : size[r] < size[s] => g[r] = h[r]) => B[g][s] = B[h][s]
  <2>. SUFFICES ASSUME NEW g \in [S -> T], NEW h \in [S -> T], NEW s \in S,
                       \A r \in S : size[r] < size[s] => g[r] = h[r]
                PROVE  B[g][s] = B[h][s]
    OBVIOUS
  <2>1. DataOf(g, s) = DataOf(h, s)
    BY DataOfShorter
  <2>. QED  BY <2>1
<1>4. \E f \in [S -> T] : f = B[f]
  <2>. HIDE DEF S, T, B, size
  <2>1. IsRecursion(S, T, size, B)
    BY <1>1, <1>2, <1>3 DEF IsRecursion
  <2>2. HasFixedPoint(S, T, B)
    BY <2>1, FixedPoint
  <2>. QED  BY <2>2 DEF HasFixedPoint
<1>5. PICK d \in [S -> T] : d = [f \in S |-> DataOf(d, f)]
  BY <1>4
<1>6. Data = CHOOSE g : g = [f \in S |-> DataOf(g, f)]
  BY DEF Data, DataOf, DataContent
<1>7. Data = [f \in S |-> DataOf(Data, f)]
  <2>. HIDE DEF S
  <2>. QED  BY <1>5, <1>6, Zenon
<1>8. \A f \in S : Data[f] = d[f]
  <2>. DEFINE A == {n \in Nat : \E f \in S : Len(f) = n /\ Data[f] # d[f]}
  <2>1. SUFFICES ASSUME A # {} PROVE FALSE
    OBVIOUS
  <2>2. PICK m \in A : \A k \in A : m <= k
    BY <2>1, Least
  <2>3. PICK f \in S : Len(f) = m /\ Data[f] # d[f]
    BY <2>2
  <2>4. \A r \in Seq(Item) : Len(r) < Len(f) => Data[r] = d[r]
    BY <2>2, <2>3
  <2>5. DataOf(Data, f) = DataOf(d, f)
    BY <2>4, DataOfShorter
  <2>. QED  BY <1>5, <1>7, <2>3, <2>5
<1>9. Data = d
  BY <1>5, <1>7, <1>8
<1>. QED  BY <1>5, <1>9

EntriesOf(g, json, data) ==
  IF data = <<>> THEN <<>>
  ELSE LET head == data[1]
           content == SubSeq(data, 2, head.n + 1)
           rest == SubSeq(data, head.n + 2, Len(data))
           value == IF Printer(head.tag) = "Dict" THEN Braces(json, g[content])
                    ELSE Text(json, head.tag, content)
       IN  IF head.tag = Byte \/ head.n > Len(data) - 1 THEN <<Panic>>
           ELSE Entry(json, head.tag, value) \o (IF rest = <<>> THEN <<>> ELSE Infix(json))
                  \o g[rest]

\* What is printed: the tokens of entries, and what stands for a panic.
Printed == {Panic, OpenBrace, CloseBrace, Comma, Quote} \union {Raw(n) : n \in Nat}
             \union {Name(tag) : tag \in Tags \union {Byte}}
             \union {End(tag) : tag \in Tags \union {Byte}}
             \union {Value(tag, data) : tag \in Tags \union {Byte}, data \in Seq(Cell)}

\* The entry data begins with, when it is not cut off: its content, and the rest.
LEMMA Split ==
  ASSUME NEW data \in Seq(Cell), data # <<>>, ~ (data[1].n > Len(data) - 1)
  PROVE  /\ data[1].tag \in Tags \union {Byte} /\ data[1].n \in Nat
         /\ SubSeq(data, 2, data[1].n + 1) \in Seq(Cell)
         /\ Len(SubSeq(data, 2, data[1].n + 1)) < Len(data)
         /\ SubSeq(data, data[1].n + 2, Len(data)) \in Seq(Cell)
         /\ Len(SubSeq(data, data[1].n + 2, Len(data))) < Len(data)
<1>. DEFINE n == data[1].n
<1>1. Len(data) \in Nat \ {0} /\ data[1] \in Cell
  BY EmptySeq
<1>2. data[1].tag \in Tags \union {Byte} /\ n \in Nat
  BY <1>1 DEF Cell
<1>3. n + 1 <= Len(data)
  BY <1>1, <1>2
<1>. HIDE DEF n
<1>4. \A i \in 2 .. n + 1 : data[i] \in Cell
  BY <1>2, <1>3
<1>5. \A i \in n + 2 .. Len(data) : data[i] \in Cell
  BY <1>2, <1>3
<1>6. /\ SubSeq(data, 2, n + 1) \in Seq(Cell)
      /\ Len(SubSeq(data, 2, n + 1)) = IF 2 <= n + 1 THEN n + 1 - 2 + 1 ELSE 0
  BY <1>1, <1>2, <1>4, SubSeqProperties
<1>7. /\ SubSeq(data, n + 2, Len(data)) \in Seq(Cell)
      /\ Len(SubSeq(data, n + 2, Len(data))) = IF n + 2 <= Len(data) THEN Len(data) - (n + 2) + 1 ELSE 0
  BY <1>1, <1>2, <1>5, SubSeqProperties
<1>. QED  BY <1>1, <1>2, <1>3, <1>6, <1>7 DEF n

\* Around a value.
LEMMA EntryType ==
  ASSUME NEW json \in BOOLEAN, NEW tag \in Tags \union {Byte}, NEW value \in Seq(Printed)
  PROVE  Entry(json, tag, value) \in Seq(Printed)
<1>1. Name(tag) \in Printed /\ End(tag) \in Printed
  BY DEF Printed
<1>2. <<Name(tag)>> \in Seq(Printed) /\ (IF json THEN <<>> ELSE <<End(tag)>>) \in Seq(Printed)
  BY <1>1
<1>. QED  BY <1>2 DEF Entry

\* What an entry's printer writes is tokens.
LEMMA TextType ==
  ASSUME NEW json \in BOOLEAN, NEW tag \in Tags \union {Byte}, NEW data \in Seq(Cell)
  PROVE  Text(json, tag, data) \in Seq(Printed)
<1>. DEFINE bytes == [i \in DOMAIN data |-> Raw(data[i].n)]
<1>1. Value(tag, data) \in Printed
  BY DEF Printed
<1>2. Quote \in Printed /\ <<Quote>> \in Seq(Printed)
  BY DEF Printed
<1>3. bytes \in Seq(Printed)
  <2>1. ASSUME NEW i \in DOMAIN data
        PROVE  Raw(data[i].n) \in Printed
    <3>1. data[i] \in Cell
      OBVIOUS
    <3>2. data[i].n \in Nat
      BY <3>1 DEF Cell
    <3>. QED  BY <3>2 DEF Printed
  <2>2. DOMAIN data = 1 .. Len(data) /\ Len(data) \in Nat
    OBVIOUS
  <2>. QED  BY <2>1, <2>2
<1>4. Text(json, tag, data) \in {<<Value(tag, data)>>, <<Quote>> \o bytes \o <<Quote>>, bytes}
  BY DEF Text
<1>. HIDE DEF bytes
<1>5. <<Value(tag, data)>> \in Seq(Printed) /\ <<Quote>> \o bytes \o <<Quote>> \in Seq(Printed)
  BY <1>1, <1>2, <1>3
<1>. QED  BY <1>3, <1>4, <1>5

\* Separators and braces are tokens.
LEMMA SeparatorTypes ==
  ASSUME NEW json \in BOOLEAN
  PROVE  /\ Infix(json) \in Seq(Printed)
         /\ \A out \in Seq(Printed) : Braces(json, out) \in Seq(Printed)
<1>1. OpenBrace \in Printed /\ CloseBrace \in Printed /\ Comma \in Printed
  BY DEF Printed
<1>2. <<OpenBrace>> \in Seq(Printed) /\ <<CloseBrace>> \in Seq(Printed) /\ <<Comma>> \in Seq(Printed)
  BY <1>1
<1>. QED  BY <1>2 DEF Infix, Braces

\* A step of the loop of dmapPrintDict gives tokens.
LEMMA EntriesOfType ==
  ASSUME NEW json \in BOOLEAN, NEW g \in [Seq(Cell) -> Seq(Printed)], NEW data \in Seq(Cell)
  PROVE  EntriesOf(g, json, data) \in Seq(Printed)
<1>. DEFINE tag == data[1].tag
            content == SubSeq(data, 2, data[1].n + 1)
            rest == SubSeq(data, data[1].n + 2, Len(data))
            value == IF Printer(tag) = "Dict" THEN Braces(json, g[content])
                     ELSE Text(json, tag, content)
            infix == IF rest = <<>> THEN <<>> ELSE Infix(json)
<1>1. CASE data = <<>>
  BY <1>1 DEF EntriesOf
<1>2. CASE data # <<>> /\ (tag = Byte \/ data[1].n > Len(data) - 1)
  <2>1. Panic \in Printed
    BY DEF Printed
  <2>. QED  BY <1>2, <2>1 DEF EntriesOf
<1>3. CASE data # <<>> /\ ~ (tag = Byte \/ data[1].n > Len(data) - 1)
  <2>1. tag \in Tags \union {Byte} /\ content \in Seq(Cell) /\ rest \in Seq(Cell)
    BY <1>3, Split
  <2>2. EntriesOf(g, json, data) = Entry(json, tag, value) \o infix \o g[rest]
    BY <1>3 DEF EntriesOf
  <2>. HIDE DEF tag, content, rest
  <2>3. value \in Seq(Printed)
    <3>1. Text(json, tag, content) \in Seq(Printed)
      BY <2>1, TextType
    <3>2. g[content] \in Seq(Printed)
      BY <2>1
    <3>. QED  BY <3>1, <3>2, SeparatorTypes
  <2>4. infix \in Seq(Printed) /\ g[rest] \in Seq(Printed)
    BY <2>1, SeparatorTypes
  <2>. HIDE DEF value, infix
  <2>5. Entry(json, tag, value) \in Seq(Printed)
    BY <2>1, <2>3, EntryType
  <2>. QED  BY <2>2, <2>4, <2>5
<1>. QED  BY <1>1, <1>2, <1>3

\* It uses shorter data only.
LEMMA EntriesOfShorter ==
  ASSUME NEW json \in BOOLEAN, NEW g, NEW h, NEW data \in Seq(Cell),
         \A r \in Seq(Cell) : Len(r) < Len(data) => g[r] = h[r]
  PROVE  EntriesOf(g, json, data) = EntriesOf(h, json, data)
<1>. DEFINE content == SubSeq(data, 2, data[1].n + 1)
            rest == SubSeq(data, data[1].n + 2, Len(data))
<1>1. CASE data = <<>> \/ data[1].tag = Byte \/ data[1].n > Len(data) - 1
  BY <1>1 DEF EntriesOf
<1>2. CASE ~ (data = <<>> \/ data[1].tag = Byte \/ data[1].n > Len(data) - 1)
  <2>1. g[content] = h[content] /\ g[rest] = h[rest]
    BY <1>2, Split
  <2>. QED  BY <2>1 DEF EntriesOf
<1>. QED  BY <1>1, <1>2

\* Entries is the function its recursion describes.
LEMMA EntriesIs ==
  ASSUME NEW json \in BOOLEAN
  PROVE  \E e : /\ e = [data \in Seq(Cell) |-> EntriesOf(e, json, data)]
                /\ \A data \in Seq(Cell) : Entries(json, data) = e[data]
<1>. DEFINE S == Seq(Cell)
            T == Seq(Printed)
            B == [g \in [S -> T] |-> [d \in S |-> EntriesOf(g, json, d)]]
            size == [d \in S |-> Len(d)]
<1>1. B \in [[S -> T] -> [S -> T]]
  BY EntriesOfType
<1>2. size \in [S -> Nat] /\ T # {}
  <2>1. <<>> \in T
    OBVIOUS
  <2>2. \A f \in S : Len(f) \in Nat
    OBVIOUS
  <2>. QED  BY <2>1, <2>2
<1>3. \A g, h \in [S -> T], s \in S :
        (\A r \in S : size[r] < size[s] => g[r] = h[r]) => B[g][s] = B[h][s]
  <2>. SUFFICES ASSUME NEW g \in [S -> T], NEW h \in [S -> T], NEW s \in S,
                       \A r \in S : size[r] < size[s] => g[r] = h[r]
                PROVE  B[g][s] = B[h][s]
    OBVIOUS
  <2>1. EntriesOf(g, json, s) = EntriesOf(h, json, s)
    BY EntriesOfShorter
  <2>. QED  BY <2>1
<1>4. \E f \in [S -> T] : f = B[f]
  <2>. HIDE DEF S, T, B, size
  <2>1. IsRecursion(S, T, size, B)
    BY <1>1, <1>2, <1>3 DEF IsRecursion
  <2>2. HasFixedPoint(S, T, B)
    BY <2>1, FixedPoint
  <2>. QED  BY <2>2 DEF HasFixedPoint
<1>5. PICK d \in [S -> T] : d = [data \in S |-> EntriesOf(d, json, data)]
  BY <1>4
<1>. DEFINE e == CHOOSE g : g = [data \in S |-> EntriesOf(g, json, data)]
<1>6. \A data \in S : Entries(json, data) = e[data]
  BY DEF Entries, EntriesOf
<1>7. e = [data \in S |-> EntriesOf(e, json, data)]
  <2>. HIDE DEF S
  <2>. QED  BY <1>5, Zenon
<1>. HIDE DEF e
<1>. QED  BY <1>6, <1>7
-----------------------------------------------------------------------------
(***************************************************************************)
(* Counting tokens                                                         *)
(***************************************************************************)

\* The tokens that are counted are finitely many.
LEMMA CountedIsFinite ==
  ASSUME NEW out, NEW i \in Nat, NEW K
  PROVE  IsFiniteSet({j \in 1 .. i - 1 : Kind(out[j]) \in K})
<1>. DEFINE A == {j \in 1 .. i - 1 : Kind(out[j]) \in K}
<1>1. IsFiniteSet(1 .. i - 1)
  BY FS_Interval
<1>2. A \in SUBSET (1 .. i - 1)
  OBVIOUS
<1>. HIDE DEF A
<1>3. IsFiniteSet(A)
  BY <1>1, <1>2, FS_Subset
<1>. QED  BY <1>3 DEF A

\* A count is a natural number.
LEMMA BeforeType ==
  ASSUME NEW S, NEW out \in Seq(S), NEW i \in Nat, NEW K
  PROVE  Before(out, i, K) \in Nat
<1>1. IsFiniteSet({j \in 1 .. i - 1 : Kind(out[j]) \in K})
  BY CountedIsFinite
<1>. QED  BY <1>1, FS_CardinalityType DEF Before

\* No token is before the first one.
LEMMA BeforeFirst ==
  ASSUME NEW out, NEW K
  PROVE  Before(out, 1, K) = 0
<1>1. {j \in 1 .. 1 - 1 : Kind(out[j]) \in K} = {}
  OBVIOUS
<1>. QED  BY <1>1, FS_EmptySet DEF Before

\* A token counts once for what is behind it.
LEMMA BeforeNext ==
  ASSUME NEW out, NEW i \in Nat \ {0}, NEW K
  PROVE  Before(out, i + 1, K) = Before(out, i, K) + IF Kind(out[i]) \in K THEN 1 ELSE 0
<1>. DEFINE A == {j \in 1 .. i - 1 : Kind(out[j]) \in K}
            C == {j \in 1 .. i + 1 - 1 : Kind(out[j]) \in K}
<1>1. IsFiniteSet(A) /\ i \notin A
  BY CountedIsFinite
<1>2. Cardinality(A) \in Nat
  BY <1>1, FS_CardinalityType
<1>3. C = IF Kind(out[i]) \in K THEN A \union {i} ELSE A
  OBVIOUS
<1>. HIDE DEF A, C
<1>4. Cardinality(A \union {i}) = Cardinality(A) + 1
  BY <1>1, FS_AddElement
<1>5. Cardinality(C) = Cardinality(A) + IF Kind(out[i]) \in K THEN 1 ELSE 0
  BY <1>2, <1>3, <1>4
<1>. QED  BY <1>5 DEF A, C, Before

\* Further on no fewer tokens are counted.
LEMMA BeforeGrows ==
  ASSUME NEW S, NEW out \in Seq(S), NEW i \in Nat, NEW k \in Nat, i <= k, NEW K
  PROVE  Before(out, i, K) <= Before(out, k, K)
<1>1. IsFiniteSet({j \in 1 .. k - 1 : Kind(out[j]) \in K})
  BY CountedIsFinite
<1>2. {j \in 1 .. i - 1 : Kind(out[j]) \in K} \subseteq {j \in 1 .. k - 1 : Kind(out[j]) \in K}
  OBVIOUS
<1>. QED  BY <1>1, <1>2, FS_Subset DEF Before

\* In the first and in the second part of a \o b.
LEMMA BeforeLeft ==
  ASSUME NEW S, NEW a \in Seq(S), NEW b \in Seq(S), NEW K, NEW i \in 1 .. Len(a) + 1
  PROVE  Before(a \o b, i, K) = Before(a, i, K)
<1>. DEFINE s == a \o b
<1>1. \A j \in 1 .. i - 1 : s[j] = a[j]
  OBVIOUS
<1>. HIDE DEF s
<1>2. {j \in 1 .. i - 1 : Kind(s[j]) \in K} = {j \in 1 .. i - 1 : Kind(a[j]) \in K}
  BY <1>1
<1>. QED  BY <1>2 DEF Before, s

\* In the second of two outputs, the tokens of the first count too.
LEMMA BeforeRight ==
  ASSUME NEW S, NEW a \in Seq(S), NEW b \in Seq(S), NEW K
  PROVE  \A i \in 1 .. Len(b) + 1 :
           Before(a \o b, Len(a) + i, K) = Before(a, Len(a) + 1, K) + Before(b, i, K)
<1>. DEFINE s == a \o b
<1>1. /\ Len(a) \in Nat /\ Len(b) \in Nat
      /\ \A i \in 1 .. Len(b) : s[Len(a) + i] = b[i]
  OBVIOUS
<1>. HIDE DEF s
<1>. DEFINE n == Before(a, Len(a) + 1, K)
            Off == {i \in Nat : i \in 1 .. Len(b) + 1 /\ Before(s, Len(a) + i, K) # n + Before(b, i, K)}
<1>3. ASSUME Off # {} PROVE FALSE
  <2>1. PICK m \in Off : \A i \in Off : m <= i
    BY <1>3, Least
  <2>2. m \in 1 .. Len(b) + 1 /\ Before(s, Len(a) + m, K) # n + Before(b, m, K)
    BY <2>1
  <2>3. n \in Nat /\ n = Before(s, Len(a) + 1, K)
    BY <1>1, BeforeLeft, BeforeType DEF s
  <2>4. CASE m = 1
    BY <2>2, <2>3, <2>4, BeforeFirst
  <2>5. CASE m # 1
    <3>1. m - 1 \in Nat \ {0} /\ m - 1 \in 1 .. Len(b) /\ ~ (m <= m - 1) /\ m - 1 + 1 = m
      BY <1>1, <2>2, <2>5
    <3>. DEFINE k == m - 1
                p == Len(a) + k
    <3>2. Before(s, p, K) = n + Before(b, k, K)
      BY <2>1, <3>1
    <3>3. p \in Nat \ {0} /\ p + 1 = Len(a) + m /\ s[p] = b[k]
      BY <1>1, <3>1
    <3>. HIDE DEF n, k, p
    <3>4. Before(s, p + 1, K) = Before(s, p, K) + IF Kind(s[p]) \in K THEN 1 ELSE 0
      BY <3>3, BeforeNext
    <3>5. Before(b, k + 1, K) = Before(b, k, K) + IF Kind(b[k]) \in K THEN 1 ELSE 0
      BY <3>1, BeforeNext DEF k
    <3>6. Before(b, k, K) \in Nat
      BY <3>1, BeforeType DEF k
    <3>7. k + 1 = m
      BY <3>1 DEF k
    <3>. QED  BY <2>2, <2>3, <3>2, <3>3, <3>4, <3>5, <3>6, <3>7
  <2>. QED  BY <2>4, <2>5
<1>4. ASSUME NEW i \in 1 .. Len(b) + 1
      PROVE  Before(s, Len(a) + i, K) = n + Before(b, i, K)
  <2>1. i \notin Off
    BY <1>3
  <2>. QED  BY <1>1, <2>1
<1>. QED  BY <1>4 DEF s

\* A depth is a number.
LEMMA DepthType ==
  ASSUME NEW S, NEW out \in Seq(S), NEW i \in Nat, NEW json
  PROVE  Depth(json, out, i) \in Int
<1>1. Before(out, i, Opens(json)) \in Nat /\ Before(out, i, Closes(json)) \in Nat
  BY BeforeType
<1>. QED  BY <1>1 DEF Depth

\* In the first of two outputs, depths are its own.
LEMMA DepthLeft ==
  ASSUME NEW S, NEW a \in Seq(S), NEW b \in Seq(S), NEW json, NEW i \in 1 .. Len(a) + 1
  PROVE  Depth(json, a \o b, i) = Depth(json, a, i)
BY BeforeLeft DEF Depth

\* In the second, they start at the depth at which the first ends.
LEMMA DepthRight ==
  ASSUME NEW S, NEW a \in Seq(S), NEW b \in Seq(S), NEW json, NEW i \in 1 .. Len(b) + 1
  PROVE  Depth(json, a \o b, Len(a) + i) = Depth(json, a, Len(a) + 1) + Depth(json, b, i)
<1>. DEFINE p == Before(a, Len(a) + 1, Opens(json))
            q == Before(a, Len(a) + 1, Closes(json))
            x == Before(b, i, Opens(json))
            y == Before(b, i, Closes(json))
<1>1. p \in Nat /\ q \in Nat /\ x \in Nat /\ y \in Nat
  BY BeforeType
<1>2. /\ Before(a \o b, Len(a) + i, Opens(json)) = p + x
      /\ Before(a \o b, Len(a) + i, Closes(json)) = q + y
  BY BeforeRight
<1>3. /\ Depth(json, a \o b, Len(a) + i) = (p + x) - (q + y)
      /\ Depth(json, a, Len(a) + 1) = p - q /\ Depth(json, b, i) = x - y
  BY <1>2 DEF Depth
<1>. HIDE DEF p, q, x, y
<1>. QED  BY <1>1, <1>3

\* An output starts at depth 0.
LEMMA DepthFirst ==
  ASSUME NEW out, NEW json
  PROVE  Depth(json, out, 1) = 0
BY BeforeFirst DEF Depth

\* A token that opens or closes changes the depth of what is behind it.
LEMMA DepthNext ==
  ASSUME NEW S, NEW out \in Seq(S), NEW i \in Nat \ {0}, NEW json
  PROVE  Depth(json, out, i + 1) = Depth(json, out, i)
                                     + (IF Kind(out[i]) \in Opens(json) THEN 1 ELSE 0)
                                     - (IF Kind(out[i]) \in Closes(json) THEN 1 ELSE 0)
<1>1. Before(out, i, Opens(json)) \in Nat /\ Before(out, i, Closes(json)) \in Nat
  BY BeforeType
<1>. QED  BY <1>1, BeforeNext DEF Depth

-----------------------------------------------------------------------------
(***************************************************************************)
(* Telling a part of a forest                                              *)
(*                                                                         *)
(* Tale(json, out, items, m, d, n, e): what is printed, out, can be        *)
(* followed, and takes a reader at depth d that knows the first m entries  *)
(* to depth e and the first n.  Tales with a proper joint make a tale.     *)
(***************************************************************************)
Told(out, i, item) ==
  /\ out[i] = Name(item.tag)
  /\ IF Holds(item) THEN i < Len(out) => Kind(out[i + 1]) \notin Values
     ELSE i < Len(out) /\ out[i + 1] = Value(item.tag, Bytes(item.content))

Followed(json, out) ==
  \A i \in 1 .. Len(out) - 1 : <<Kind(out[i]), Kind(out[i + 1])>> \in Follows(json)

NamesTold(json, out, items, m, d) ==
  \A i \in DOMAIN out :
    Kind(out[i]) = "name" =>
      /\ Told(out, i, items[m + Before(out, i, {"name"}) + 1])
      /\ items[m + Before(out, i, {"name"}) + 1].depth = d + Depth(json, out, i) + 1

Tale(json, out, items, m, d, n, e) ==
  /\ out \in Seq(Printed)
  /\ Followed(json, out)
  /\ NamesTold(json, out, items, m, d)
  /\ m \in Int /\ d \in Int /\ n \in Int /\ e \in Int
  /\ Before(out, Len(out) + 1, {"name"}) = n - m
  /\ Depth(json, out, Len(out) + 1) = e - d

\* A name is followed by a value at once, or by none.
Joint(json, a, b) ==
  a # <<>> /\ b # <<>> =>
    /\ <<Kind(a[Len(a)]), Kind(b[1])>> \in Follows(json)
    /\ ~ (Kind(a[Len(a)]) = "name" /\ Kind(b[1]) \in Values)

\* Two outputs that tell consecutive entries, and may follow each other, tell both.
LEMMA TaleJoined ==
  ASSUME NEW json \in BOOLEAN, NEW items, NEW a, NEW b, NEW m, NEW d, NEW k, NEW c, NEW n, NEW e,
         Tale(json, a, items, m, d, k, c), Tale(json, b, items, k, c, n, e), Joint(json, a, b)
  PROVE  Tale(json, a \o b, items, m, d, n, e)
<1>. DEFINE s == a \o b
<1>1. /\ a \in Seq(Printed) /\ Followed(json, a) /\ NamesTold(json, a, items, m, d)
      /\ Before(a, Len(a) + 1, {"name"}) = k - m /\ Depth(json, a, Len(a) + 1) = c - d
      /\ b \in Seq(Printed) /\ Followed(json, b) /\ NamesTold(json, b, items, k, c)
      /\ Before(b, Len(b) + 1, {"name"}) = n - k /\ Depth(json, b, Len(b) + 1) = e - c
      /\ m \in Int /\ d \in Int /\ k \in Int /\ c \in Int /\ n \in Int /\ e \in Int
  BY DEF Tale
<1>0. /\ a \in Seq(Printed) /\ b \in Seq(Printed)
      /\ NamesTold(json, a, items, m, d) /\ NamesTold(json, b, items, k, c)
  BY <1>1
<1>10. Len(a) \in Nat /\ Len(b) \in Nat /\ DOMAIN a = 1 .. Len(a) /\ DOMAIN b = 1 .. Len(b)
  BY <1>0
<1>2. /\ s \in Seq(Printed) /\ Len(s) = Len(a) + Len(b) /\ Len(a) \in Nat /\ Len(b) \in Nat
      /\ \A i \in 1 .. Len(a) : s[i] = a[i]
      /\ \A i \in 1 .. Len(b) : s[Len(a) + i] = b[i]
  BY <1>0
<1>3. \A i \in 1 .. Len(a) + 1 :
        /\ Before(s, i, {"name"}) = Before(a, i, {"name"})
        /\ Depth(json, s, i) = Depth(json, a, i)
  BY <1>1, BeforeLeft, DepthLeft
<1>4. ASSUME NEW i \in 1 .. Len(b) + 1
      PROVE  /\ Before(s, Len(a) + i, {"name"}) = (k - m) + Before(b, i, {"name"})
             /\ Depth(json, s, Len(a) + i) = (c - d) + Depth(json, b, i)
             /\ Before(b, i, {"name"}) \in Int /\ Depth(json, b, i) \in Int
  <2>1. Before(s, Len(a) + i, {"name"}) = (k - m) + Before(b, i, {"name"})
    BY <1>1, BeforeRight
  <2>2. Depth(json, s, Len(a) + i) = (c - d) + Depth(json, b, i)
    BY <1>1, DepthRight
  <2>3. i \in Nat
    BY <1>2
  <2>4. Before(b, i, {"name"}) \in Nat
    BY <1>0, <2>3, BeforeType
  <2>5. Depth(json, b, i) \in Int
    BY <1>0, <2>3, DepthType
  <2>. QED  BY <2>1, <2>2, <2>4, <2>5
<1>. HIDE DEF s
<1>5. Followed(json, s)
  <2>. SUFFICES ASSUME NEW i \in 1 .. Len(s) - 1
                PROVE  <<Kind(s[i]), Kind(s[i + 1])>> \in Follows(json)
    BY DEF Followed
  <2>1. CASE i < Len(a)
    <3>1. i \in 1 .. Len(a) - 1 /\ s[i] = a[i] /\ s[i + 1] = a[i + 1]
      BY <1>2, <2>1
    <3>. QED  BY <1>1, <3>1 DEF Followed
  <2>2. CASE i = Len(a)
    <3>1. s[i] = a[Len(a)] /\ s[i + 1] = b[1] /\ a # <<>> /\ b # <<>>
      BY <1>2, <2>2
    <3>. QED  BY <3>1 DEF Joint
  <2>3. CASE i > Len(a)
    <3>. DEFINE j == i - Len(a)
    <3>1. /\ j \in 1 .. Len(b) - 1 /\ j \in 1 .. Len(b) /\ j + 1 \in 1 .. Len(b)
          /\ Len(a) + j = i /\ Len(a) + (j + 1) = i + 1
      BY <1>2, <2>3
    <3>. HIDE DEF j
    <3>2. s[i] = b[j] /\ s[i + 1] = b[j + 1]
      BY <1>2, <3>1
    <3>. QED  BY <1>1, <3>1, <3>2 DEF Followed
  <2>. QED  BY <1>2, <2>1, <2>2, <2>3
<1>6. NamesTold(json, s, items, m, d)
  <2>. SUFFICES ASSUME NEW i \in 1 .. Len(s), Kind(s[i]) = "name"
                PROVE  /\ Told(s, i, items[m + Before(s, i, {"name"}) + 1])
                       /\ items[m + Before(s, i, {"name"}) + 1].depth = d + Depth(json, s, i) + 1
    BY <1>2 DEF NamesTold
  <2>1. CASE i <= Len(a)
    <3>. DEFINE item == items[m + Before(a, i, {"name"}) + 1]
    <3>1. i \in 1 .. Len(a) /\ i \in 1 .. Len(a) + 1 /\ s[i] = a[i]
      BY <1>2, <2>1
    <3>2. Told(a, i, item) /\ item.depth = d + Depth(json, a, i) + 1
      <4>1. i \in DOMAIN a /\ Kind(a[i]) = "name" /\ NamesTold(json, a, items, m, d)
        BY <1>0, <1>10, <3>1
      <4>. QED  BY <4>1, Zenon DEF NamesTold
    <3>. HIDE DEF item
    <3>3. Told(s, i, item)
      <4>1. CASE i < Len(a)
        <5>1. s[i + 1] = a[i + 1] /\ i < Len(s)
          BY <1>2, <4>1
        <5>. QED  BY <3>1, <3>2, <4>1, <5>1 DEF Told
      <4>2. CASE i = Len(a)
        <5>1. Holds(item) /\ s[i] = Name(item.tag)
          BY <1>2, <3>1, <3>2, <4>2 DEF Told
        <5>2. ASSUME i < Len(s) PROVE Kind(s[i + 1]) \notin Values
          <6>1. s[i + 1] = b[1] /\ a # <<>> /\ b # <<>> /\ Kind(a[Len(a)]) = "name"
            BY <1>2, <3>1, <4>2, <5>2
          <6>. QED  BY <6>1 DEF Joint
        <5>. QED  BY <5>1, <5>2 DEF Told
      <4>. QED  BY <1>2, <2>1, <4>1, <4>2
    <3>. QED  BY <1>3, <3>1, <3>2, <3>3 DEF item
  <2>2. CASE i > Len(a)
    <3>. DEFINE j == i - Len(a)
                item == items[k + Before(b, j, {"name"}) + 1]
    <3>1. j \in 1 .. Len(b) /\ j \in 1 .. Len(b) + 1 /\ Len(a) + j = i
      BY <1>2, <2>2
    <3>. HIDE DEF j
    <3>2. s[i] = b[j]
      BY <1>2, <3>1
    <3>3. Told(b, j, item) /\ item.depth = c + Depth(json, b, j) + 1
      <4>1. j \in DOMAIN b /\ Kind(b[j]) = "name" /\ NamesTold(json, b, items, k, c)
        BY <1>0, <1>10, <3>1, <3>2
      <4>. QED  BY <4>1, Zenon DEF NamesTold
    <3>4. /\ Before(s, i, {"name"}) = (k - m) + Before(b, j, {"name"})
          /\ Depth(json, s, i) = (c - d) + Depth(json, b, j)
          /\ Before(b, j, {"name"}) \in Int /\ Depth(json, b, j) \in Int
      BY <1>4, <3>1
    <3>5. /\ m + Before(s, i, {"name"}) + 1 = k + Before(b, j, {"name"}) + 1
          /\ d + Depth(json, s, i) + 1 = c + Depth(json, b, j) + 1
      <4>1. m \in Int /\ d \in Int /\ k \in Int /\ c \in Int
        BY <1>1
      <4>. QED  BY <3>4, <4>1
    <3>. HIDE DEF item
    <3>6. j < Len(b) => s[i + 1] = b[j + 1]
      <4>. HAVE j < Len(b)
      <4>1. j + 1 \in 1 .. Len(b) /\ Len(a) + (j + 1) = i + 1
        BY <1>10, <3>1
      <4>. QED  BY <1>2, <4>1
    <3>7. i < Len(s) <=> j < Len(b)
      BY <1>2, <3>1
    <3>8. Told(s, i, item)
      BY <3>2, <3>3, <3>6, <3>7 DEF Told
    <3>. QED  BY <3>3, <3>5, <3>8 DEF item
  <2>. QED  BY <1>2, <2>1, <2>2
<1>7. /\ Before(s, Len(s) + 1, {"name"}) = n - m
      /\ Depth(json, s, Len(s) + 1) = e - d
  <2>1. Len(b) + 1 \in 1 .. Len(b) + 1 /\ Len(a) + (Len(b) + 1) = Len(s) + 1
    BY <1>2
  <2>2. /\ Before(s, Len(s) + 1, {"name"}) = (k - m) + (n - k)
        /\ Depth(json, s, Len(s) + 1) = (c - d) + (e - c)
    BY <1>1, <1>4, <2>1
  <2>. QED  BY <1>1, <2>2
<1>. QED  BY <1>1, <1>2, <1>5, <1>6, <1>7 DEF Tale, s

-----------------------------------------------------------------------------
(***************************************************************************)
(* Tales of one token or two                                               *)
(***************************************************************************)

\* Each tag has a printer of the table.
LEMMA PrinterKinds ==
  ASSUME NEW tag \in Tags
  PROVE  Printer(tag) \in Values \union {"Dict"}
BY DEF Tags, Known, EntryMap, Printer, Values

\* All of these but dmapPrintDict print a value.
LEMMA ValueKinds ==
  ASSUME NEW tag \in Tags, NEW data, Printer(tag) # "Dict"
  PROVE  Kind(Value(tag, data)) \in Values
<1>1. Printer(tag) \in Values
  BY PrinterKinds
<1>2. CASE Printer(tag) \in {"Int", "Date"}
  BY <1>2 DEF Value, Kind, Values
<1>3. CASE Printer(tag) = "Uint"
  BY <1>3 DEF Value, Kind, Values
<1>4. CASE Printer(tag) \in {"Str", "Data"}
  BY <1>4 DEF Value, Kind, Values
<1>5. CASE Printer(tag) = "Vers"
  BY <1>5 DEF Value, Kind, Values
<1>. QED  BY <1>1, <1>2, <1>3, <1>4, <1>5 DEF Values

\* The value of an entry that fits is one a reader accepts.
LEMMA FittingValue ==
  ASSUME NEW json \in BOOLEAN, NEW item \in Item, Fits(json, item), ~Holds(item)
  PROVE  LET value == Value(item.tag, Bytes(item.content))
         IN  /\ Text(json, item.tag, Bytes(item.content)) = <<value>>
             /\ Kind(value) \in Accepts(json)
<1>. DEFINE data == Bytes(item.content)
            value == Value(item.tag, data)
<1>1. item.tag \in Tags /\ Printer(item.tag) \in Accepts(json)
  BY DEF Item, Fits, Holds
<1>2. Kind(value) = Printer(item.tag)
  <2>. HIDE DEF data
  <2>1. Printer(item.tag) \in Values
    BY <1>1 DEF Accepts
  <2>2. CASE Printer(item.tag) \in {"Int", "Date"}
    BY <2>2 DEF Value, Kind
  <2>3. CASE Printer(item.tag) = "Uint"
    BY <2>3 DEF Value, Kind
  <2>4. CASE Printer(item.tag) \in {"Str", "Data"}
    BY <2>4 DEF Value, Kind
  <2>5. CASE Printer(item.tag) = "Vers"
    BY <2>5 DEF Value, Kind
  <2>. QED  BY <2>1, <2>2, <2>3, <2>4, <2>5 DEF Values
<1>3. Printer(item.tag) = "Str" => \A i \in DOMAIN data : data[i].n \notin Markup(json)
  BY DEF Fits, Bytes
<1>4. Text(json, item.tag, data) = <<value>>
  BY <1>3 DEF Text
<1>. QED  BY <1>1, <1>2, <1>4

One(token) == <<token>>

\* An output of one token.
LEMMA OneToken ==
  ASSUME NEW token \in Printed
  PROVE  /\ One(token) \in Seq(Printed) /\ Len(One(token)) = 1
         /\ One(token)[1] = token /\ One(token) # <<>>
BY DEF One

\* How many tokens it counts for.
LEMMA OneBefore ==
  ASSUME NEW token, NEW K
  PROVE  Before(One(token), 2, K) = IF Kind(token) \in K THEN 1 ELSE 0
<1>1. Before(One(token), 1 + 1, K)
        = Before(One(token), 1, K) + IF Kind(One(token)[1]) \in K THEN 1 ELSE 0
  BY BeforeNext
<1>2. One(token)[1] = token
  BY DEF One
<1>. QED  BY <1>1, <1>2, BeforeFirst

\* It leads one deeper,
LEMMA OneOpens ==
  ASSUME NEW json, NEW token, Kind(token) \in Opens(json)
  PROVE  Depth(json, One(token), 2) = 1
<1>1. Kind(token) \notin Closes(json)
  BY DEF Opens, Closes
<1>. QED  BY <1>1, OneBefore DEF Depth

\* one back,
LEMMA OneCloses ==
  ASSUME NEW json, NEW token, Kind(token) \in Closes(json)
  PROVE  Depth(json, One(token), 2) = 0 - 1
<1>1. Kind(token) \notin Opens(json)
  BY DEF Opens, Closes
<1>. QED  BY <1>1, OneBefore DEF Depth

\* or nowhere.
LEMMA OneNeither ==
  ASSUME NEW json, NEW token, Kind(token) \notin Opens(json), Kind(token) \notin Closes(json)
  PROVE  Depth(json, One(token), 2) = 0
BY OneBefore DEF Depth

\* No output tells no entry.
LEMMA NothingTold ==
  ASSUME NEW json, NEW items, NEW m \in Int, NEW d \in Int
  PROVE  Tale(json, <<>>, items, m, d, m, d)
<1>1. <<>> \in Seq(Printed) /\ Len(<<>>) = 0
  OBVIOUS
<1>2. Before(<<>>, 1, {"name"}) = 0 /\ Depth(json, <<>>, 1) = 0
  BY BeforeFirst, DepthFirst
<1>3. Followed(json, <<>>) /\ NamesTold(json, <<>>, items, m, d)
  BY <1>1 DEF Followed, NamesTold
<1>. QED  BY <1>1, <1>2, <1>3 DEF Tale

\* A token that is not a name.
LEMMA TokenTold ==
  ASSUME NEW json, NEW items, NEW m \in Int, NEW d \in Int, NEW token \in Printed,
         Kind(token) # "name", NEW e \in Int, e = d + Depth(json, One(token), 2)
  PROVE  Tale(json, One(token), items, m, d, m, e)
<1>. DEFINE s == One(token)
<1>1. s \in Seq(Printed) /\ Len(s) = 1 /\ s[1] = token /\ Before(s, 2, {"name"}) = 0
  BY OneToken, OneBefore, OneOpens, OneCloses, OneNeither
<1>2. Depth(json, s, 2) \in Int
  BY <1>1, DepthType
<1>. HIDE DEF s
<1>3. Followed(json, s) /\ NamesTold(json, s, items, m, d)
  BY <1>1 DEF Followed, NamesTold
<1>4. e = d + Depth(json, s, 2)
  BY DEF s
<1>5. Tale(json, s, items, m, d, m, e)
  BY <1>1, <1>2, <1>3, <1>4 DEF Tale
<1>. QED  BY <1>5 DEF s

\* The name of an entry that holds others.
LEMMA NameTold ==
  ASSUME NEW json, NEW items, NEW m \in Int, NEW d \in Int, NEW item, item = items[m + 1],
         item.tag \in Tags, item.tag # Odd, Holds(item), item.depth = d + 1,
         NEW n \in Int, n = m + 1,
         NEW e \in Int, e = d + Depth(json, One(Name(item.tag)), 2)
  PROVE  Tale(json, One(Name(item.tag)), items, m, d, n, e)
<1>. DEFINE s == One(Name(item.tag))
<1>0. Name(item.tag) \in Printed /\ Kind(Name(item.tag)) = "name"
  BY DEF Printed, Name, Kind
<1>1. s \in Seq(Printed) /\ Len(s) = 1 /\ s[1] = Name(item.tag) /\ Before(s, 2, {"name"}) = 1
  BY <1>0, OneToken, OneBefore, OneOpens, OneCloses, OneNeither
<1>2. Depth(json, s, 2) \in Int
  BY <1>1, DepthType
<1>3. Before(s, 1, {"name"}) = 0 /\ Depth(json, s, 1) = 0
  BY BeforeFirst, DepthFirst
<1>7. e = d + Depth(json, s, 2)
  OBVIOUS
<1>. HIDE DEF s
<1>4. Followed(json, s)
  BY <1>1 DEF Followed
<1>5. NamesTold(json, s, items, m, d)
  <2>1. Told(s, 1, item)
    BY <1>1 DEF Told
  <2>2. m + Before(s, 1, {"name"}) + 1 = m + 1 /\ d + Depth(json, s, 1) + 1 = d + 1
    BY <1>3
  <2>. QED  BY <1>1, <2>1, <2>2 DEF NamesTold
<1>6. Tale(json, s, items, m, d, n, e)
  BY <1>1, <1>2, <1>4, <1>5, <1>7 DEF Tale
<1>. QED  BY <1>6 DEF s

\* An entry with a value.
LEMMA ValueTold ==
  ASSUME NEW json \in BOOLEAN, NEW items, NEW m \in Int, NEW d \in Int,
         NEW item \in Item, item = items[m + 1], ~ Holds(item), item.depth = d + 1,
         Fits(json, item),
         NEW name, name = Name(item.tag), NEW value, value = Value(item.tag, Bytes(item.content)),
         NEW n \in Int, n = m + 1, NEW e \in Int, e = d + Depth(json, One(name), 2)
  PROVE  /\ Tale(json, One(name) \o One(value), items, m, d, n, e)
         /\ value \in Printed /\ Kind(value) \in Accepts(json)
<1>. DEFINE s == One(name) \o One(value)
<1>1. item.tag \in Tags /\ item.tag # Odd /\ Bytes(item.content) \in Seq(Cell)
  BY BytesAreCells DEF Item, Fits
<1>2. Kind(value) \in Values /\ Kind(value) \in Accepts(json)
  BY FittingValue DEF Accepts
<1>3. name \in Printed /\ value \in Printed /\ Kind(name) = "name"
  BY <1>1 DEF Printed, Name, Kind
<1>4. /\ One(name) \in Seq(Printed) /\ One(value) \in Seq(Printed)
      /\ Before(One(name), 2, {"name"}) = 1 /\ Before(One(value), 2, {"name"}) = 0
      /\ Depth(json, One(value), 2) = 0
  <2>1. Kind(value) # "name" /\ Kind(value) \notin Opens(json) /\ Kind(value) \notin Closes(json)
    BY <1>2 DEF Values, Opens, Closes
  <2>. QED  BY <1>3, <2>1, OneToken, OneBefore, OneOpens, OneCloses, OneNeither
<1>5. /\ s \in Seq(Printed) /\ Len(s) = 2 /\ s[1] = name /\ s[2] = value
      /\ Len(One(name)) = 1 /\ Len(One(value)) = 1
  BY <1>4 DEF One
<1>6. /\ Before(s, 1, {"name"}) = 0 /\ Depth(json, s, 1) = 0
      /\ Before(s, 3, {"name"}) = 1 /\ Depth(json, s, 3) = Depth(json, One(name), 2)
      /\ Depth(json, One(name), 2) \in Int
  <2>. DEFINE a == One(name)
              b == One(value)
  <2>1. a \in Seq(Printed) /\ b \in Seq(Printed) /\ s = a \o b /\ Len(a) = 1 /\ Len(b) = 1
    BY <1>4, <1>5
  <2>2. /\ Before(a, 2, {"name"}) = 1 /\ Before(b, 2, {"name"}) = 0 /\ Depth(json, b, 2) = 0
    BY <1>4
  <2>. HIDE DEF a, b, s
  <2>0. a \in Seq(Printed) /\ b \in Seq(Printed) /\ 2 \in 1 .. Len(b) + 1
    BY <2>1
  <2>3. Before(a \o b, Len(a) + 2, {"name"})
          = Before(a, Len(a) + 1, {"name"}) + Before(b, 2, {"name"})
    BY <2>0, BeforeRight
  <2>4. Depth(json, a \o b, Len(a) + 2) = Depth(json, a, Len(a) + 1) + Depth(json, b, 2)
    BY <2>0, DepthRight
  <2>5. Depth(json, a, 2) \in Int
    BY <2>1, DepthType
  <2>6. Before(s, 3, {"name"}) = 1 /\ Depth(json, s, 3) = Depth(json, a, 2)
    BY <2>1, <2>2, <2>3, <2>4, <2>5
  <2>. QED  BY <2>5, <2>6, BeforeFirst, DepthFirst DEF a
<1>. HIDE DEF s
<1>7. Followed(json, s)
  <2>1. <<Kind(s[1]), Kind(s[2])>> \in Follows(json)
    BY <1>2, <1>3, <1>5 DEF Follows
  <2>. QED  BY <1>5, <2>1 DEF Followed
<1>8. NamesTold(json, s, items, m, d)
  <2>1. Told(s, 1, item)
    BY <1>5 DEF Told
  <2>2. m + Before(s, 1, {"name"}) + 1 = m + 1 /\ d + Depth(json, s, 1) + 1 = d + 1
    BY <1>6
  <2>3. Kind(s[2]) # "name"
    BY <1>2, <1>5 DEF Values
  <2>. QED  BY <1>5, <2>1, <2>2, <2>3 DEF NamesTold
<1>9. Tale(json, s, items, m, d, n, e)
  BY <1>5, <1>6, <1>7, <1>8 DEF Tale
<1>. QED  BY <1>2, <1>3, <1>9 DEF s

\* The entries of another forest, the same but for their place and depth.
LEMMA TaleMoved ==
  ASSUME NEW json, NEW out, NEW g, NEW items, NEW n \in Nat, NEW m \in Int, NEW d \in Int,
         NEW k \in Int, k = m + n, Tale(json, out, g, 0, 0, n, 0),
         \A i \in 1 .. n : /\ g[i].depth \in Int /\ items[m + i].depth = d + g[i].depth
                           /\ items[m + i].tag = g[i].tag /\ items[m + i].content = g[i].content
  PROVE  Tale(json, out, items, m, d, k, d)
<1>1. /\ out \in Seq(Printed) /\ Followed(json, out) /\ NamesTold(json, out, g, 0, 0)
      /\ Before(out, Len(out) + 1, {"name"}) = n - 0 /\ Depth(json, out, Len(out) + 1) = 0 - 0
  BY DEF Tale
<1>0. out \in Seq(Printed) /\ Len(out) \in Nat
  BY <1>1
<1>2. ASSUME NEW i \in 1 .. Len(out), Kind(out[i]) = "name"
      PROVE  /\ Told(out, i, items[m + Before(out, i, {"name"}) + 1])
             /\ items[m + Before(out, i, {"name"}) + 1].depth = d + Depth(json, out, i) + 1
  <2>. DEFINE p == Before(out, i, {"name"}) + 1
  <2>1. i \in Nat \ {0} /\ i + 1 \in Nat /\ Len(out) + 1 \in Nat /\ i + 1 <= Len(out) + 1
    BY <1>0
  <2>2. p = Before(out, i + 1, {"name"}) /\ Before(out, i, {"name"}) \in Nat
    <3>1. Before(out, i, {"name"}) \in Nat
      BY <1>0, <2>1, BeforeType
    <3>2. Before(out, i + 1, {"name"})
            = Before(out, i, {"name"}) + IF Kind(out[i]) \in {"name"} THEN 1 ELSE 0
      BY <2>1, BeforeNext
    <3>. QED  BY <1>2, <3>1, <3>2
  <2>3. Before(out, i + 1, {"name"}) <= Before(out, Len(out) + 1, {"name"})
    BY <1>0, <2>1, BeforeGrows
  <2>4. Depth(json, out, i) \in Int
    BY <1>0, <2>1, DepthType
  <2>5. p \in 1 .. n
    BY <1>1, <2>2, <2>3
  <2>6. /\ Told(out, i, g[0 + Before(out, i, {"name"}) + 1])
        /\ g[0 + Before(out, i, {"name"}) + 1].depth = 0 + Depth(json, out, i) + 1
    BY <1>0, <1>1, <1>2 DEF NamesTold
  <2>7. 0 + Before(out, i, {"name"}) + 1 = p /\ m + Before(out, i, {"name"}) + 1 = m + p
    <3>1. Before(out, i, {"name"}) \in Int /\ m \in Int
      BY <2>2
    <3>. QED  BY <3>1
  <2>. HIDE DEF p
  <2>8. Told(out, i, g[p]) /\ g[p].depth = 0 + Depth(json, out, i) + 1
    BY <2>6, <2>7
  <2>9. /\ items[m + p].depth = d + g[p].depth
        /\ items[m + p].tag = g[p].tag /\ items[m + p].content = g[p].content
    BY <2>5
  <2>10. Told(out, i, items[m + p])
    BY <2>8, <2>9 DEF Told, Holds
  <2>. QED  BY <2>4, <2>7, <2>8, <2>9, <2>10
<1>3. NamesTold(json, out, items, m, d)
  <2>1. DOMAIN out = 1 .. Len(out)
    BY <1>0
  <2>. QED  BY <1>2, <2>1, Zenon DEF NamesTold
<1>4. k - m = n - 0 /\ d - d = 0 - 0
  OBVIOUS
<1>. QED  BY <1>1, <1>3, <1>4 DEF Tale

-----------------------------------------------------------------------------
(***************************************************************************)
(* What is opened is closed                                                *)
(***************************************************************************)

\* No more is closed than what is opened before, and as much.
Balanced(json, out) ==
  /\ \A i \in 1 .. Len(out) + 1 : Depth(json, out, i) >= 0
  /\ Depth(json, out, Len(out) + 1) = 0

\* Two outputs that close what they open do so together.
LEMMA BalancedJoined ==
  ASSUME NEW json, NEW a \in Seq(Printed), NEW b \in Seq(Printed),
         Balanced(json, a), Balanced(json, b)
  PROVE  Balanced(json, a \o b)
<1>. DEFINE s == a \o b
<1>1. Len(s) = Len(a) + Len(b) /\ Len(a) \in Nat /\ Len(b) \in Nat
  OBVIOUS
<1>2. ASSUME NEW i \in 1 .. Len(a) + 1
      PROVE  Depth(json, s, i) >= 0
  BY DepthLeft DEF Balanced
<1>3. ASSUME NEW i \in 1 .. Len(b) + 1
      PROVE  Depth(json, s, Len(a) + i) >= 0 /\ Depth(json, s, Len(a) + i) = Depth(json, b, i)
  <2>1. Depth(json, a \o b, Len(a) + i) = Depth(json, a, Len(a) + 1) + Depth(json, b, i)
    BY DepthRight
  <2>2. i \in Nat
    BY <1>1
  <2>3. Depth(json, b, i) \in Int
    BY <2>2, DepthType
  <2>. QED  BY <2>1, <2>3 DEF Balanced
<1>. HIDE DEF s
<1>4. ASSUME NEW i \in 1 .. Len(s) + 1
      PROVE  Depth(json, s, i) >= 0
  <2>1. CASE i <= Len(a)
    <3>1. i \in 1 .. Len(a) + 1
      BY <1>1, <2>1
    <3>. QED  BY <1>2, <3>1
  <2>2. CASE i > Len(a)
    <3>. DEFINE j == i - Len(a)
    <3>1. j \in 1 .. Len(b) + 1 /\ Len(a) + j = i
      BY <1>1, <2>2
    <3>. HIDE DEF j
    <3>2. Depth(json, s, Len(a) + j) >= 0
      BY <1>3, <3>1
    <3>. QED  BY <3>1, <3>2
  <2>. QED  BY <1>1, <2>1, <2>2
<1>5. Depth(json, s, Len(s) + 1) = 0
  <2>1. Len(b) + 1 \in 1 .. Len(b) + 1 /\ Len(a) + (Len(b) + 1) = Len(s) + 1
    BY <1>1
  <2>2. Depth(json, s, Len(a) + (Len(b) + 1)) = Depth(json, b, Len(b) + 1)
    BY <1>3, <2>1
  <2>. QED  BY <2>1, <2>2 DEF Balanced
<1>. QED  BY <1>4, <1>5 DEF Balanced, s

\* A token that opens nothing and closes nothing.
LEMMA BalancedToken ==
  ASSUME NEW json, NEW token \in Printed,
         Kind(token) \notin Opens(json), Kind(token) \notin Closes(json)
  PROVE  Balanced(json, One(token)) /\ Depth(json, One(token), 2) = 0
<1>1. Len(One(token)) = 1 /\ Depth(json, One(token), 2) = 0 /\ Depth(json, One(token), 1) = 0
  BY OneToken, OneBefore, OneOpens, OneCloses, OneNeither, DepthFirst
<1>2. \A i \in 1 .. Len(One(token)) + 1 : i = 1 \/ i = 2
  BY <1>1
<1>. QED  BY <1>1, <1>2 DEF Balanced

\* Around what is balanced.
\* o, v and c are what out is made of.
MadeOf(out, o, v, c) ==
  /\ out \in Seq(Printed) /\ Len(out) = Len(v) + 2 /\ Len(v) \in Nat
  /\ out[1] = o /\ out[Len(out)] = c /\ out # <<>>

\* The tokens of an output that is put between two others.
LEMMA EnclosedParts ==
  ASSUME NEW o \in Printed, NEW v \in Seq(Printed), NEW c \in Printed,
         NEW out, out = One(o) \o v \o One(c)
  PROVE  MadeOf(out, o, v, c)
<1>. DEFINE a == One(o)
            b == a \o v
            z == One(c)
            s == b \o z
<1>1. /\ a \in Seq(Printed) /\ Len(a) = 1 /\ a # <<>> /\ a[1] = o
      /\ z \in Seq(Printed) /\ Len(z) = 1 /\ z # <<>> /\ z[1] = c
  BY OneToken
<1>2. out = s
  OBVIOUS
<1>. HIDE DEF a, z
<1>3. /\ b \in Seq(Printed) /\ b # <<>> /\ b[1] = o
      /\ Len(b) = Len(a) + Len(v) /\ Len(v) \in Nat
  BY <1>1, LastOfTwo, LengthOfTwo
<1>. HIDE DEF b
<1>4. /\ s \in Seq(Printed) /\ s[1] = o /\ s[Len(s)] = c /\ s # <<>>
      /\ Len(s) = Len(b) + Len(z)
  BY <1>1, <1>3, LastOfTwo, LengthOfTwo
<1>. HIDE DEF s
<1>. QED  BY <1>1, <1>2, <1>3, <1>4 DEF MadeOf

\* An output that closes what it opens, between a token that opens and one that
\* closes: inside, everything is open.
LEMMA Enclosed ==
  ASSUME NEW json \in BOOLEAN, NEW o \in Printed, NEW v \in Seq(Printed), NEW c \in Printed,
         Kind(o) \in Opens(json), Kind(c) \in Closes(json), Balanced(json, v),
         NEW out, out = One(o) \o v \o One(c)
  PROVE  Balanced(json, out) /\ \A i \in 2 .. Len(out) : Depth(json, out, i) > 0
<1>. DEFINE a == One(o)
            b == a \o v
            z == One(c)
            s == b \o z
<1>10. out = s
  OBVIOUS
<1>1. /\ a \in Seq(Printed) /\ Len(a) = 1 /\ a # <<>>
      /\ z \in Seq(Printed) /\ Len(z) = 1
      /\ Depth(json, a, 2) = 1 /\ Depth(json, z, 2) = 0 - 1
  BY OneToken, OneOpens, OneCloses
<1>. HIDE DEF a, z
<1>2. b \in Seq(Printed) /\ Len(b) = Len(v) + 1 /\ Len(v) \in Nat
  BY <1>1, LastOfTwo, LengthOfTwo
<1>11. s \in Seq(Printed) /\ Len(s) = Len(v) + 2
  <2>1. MadeOf(out, o, v, c)
    BY EnclosedParts
  <2>. QED  BY <1>10, <2>1 DEF MadeOf
<1>3. ASSUME NEW i \in 1 .. Len(v) + 1
      PROVE  Depth(json, b, Len(a) + i) = 1 + Depth(json, v, i)
  <2>1. a \in Seq(Printed) /\ Len(a) + 1 = 2
    BY <1>1
  <2>2. Depth(json, a \o v, Len(a) + i) = Depth(json, a, Len(a) + 1) + Depth(json, v, i)
    BY <2>1, DepthRight
  <2>. QED  BY <1>1, <2>1, <2>2
<1>. HIDE DEF b
<1>4. \A i \in 1 .. Len(b) + 1 : Depth(json, s, i) = Depth(json, b, i)
  BY <1>1, <1>2, DepthLeft
<1>5. 2 \in 1 .. Len(z) + 1
  BY <1>1
<1>6. Depth(json, s, Len(b) + 2) = Depth(json, b, Len(b) + 1) + Depth(json, z, 2)
  BY <1>1, <1>2, <1>5, DepthRight
<1>. HIDE DEF s
<1>7. ASSUME NEW i \in 2 .. Len(s)
      PROVE  Depth(json, s, i) > 0
  <2>. DEFINE j == i - 1
  <2>1. j \in 1 .. Len(v) + 1 /\ Len(a) + j = i /\ i \in 1 .. Len(b) + 1
    BY <1>1, <1>2, <1>11
  <2>. HIDE DEF j
  <2>2. Depth(json, b, i) = 1 + Depth(json, v, j)
    BY <1>3, <2>1
  <2>3. j \in Nat
    BY <1>2, <2>1
  <2>4. Depth(json, v, j) >= 0 /\ Depth(json, v, j) \in Int
    BY <2>1, <2>3, DepthType DEF Balanced
  <2>. QED  BY <1>4, <2>1, <2>2, <2>4
<1>8. Depth(json, s, Len(s) + 1) = 0
  <2>1. Len(v) + 1 \in 1 .. Len(v) + 1 /\ Len(a) + (Len(v) + 1) = Len(b) + 1
        /\ Len(s) + 1 = Len(b) + 2
    BY <1>1, <1>2, <1>11
  <2>2. Depth(json, b, Len(b) + 1) = 1
    BY <1>3, <2>1 DEF Balanced
  <2>. QED  BY <1>1, <1>6, <2>1, <2>2
<1>9. Balanced(json, s)
  <2>1. Depth(json, s, 1) = 0
    BY DepthFirst
  <2>2. ASSUME NEW i \in 1 .. Len(s) + 1
        PROVE  Depth(json, s, i) >= 0
    <3>1. i = 1 \/ i \in 2 .. Len(s) \/ i = Len(s) + 1
      BY <1>2, <1>11
    <3>2. i \in Nat
      BY <1>2, <1>11
    <3>3. Depth(json, s, i) \in Int
      BY <1>11, <3>2, DepthType
    <3>. QED  BY <1>7, <1>8, <2>1, <3>1, <3>3
  <2>. QED  BY <1>8, <2>2 DEF Balanced
<1>. QED  BY <1>7, <1>9, <1>10

\* What the entries of a forest end with.
Lasts(json) == IF json THEN Accepts(json) \union {"}"} ELSE {"end"}

\* It tells what it told, one deeper.
LEMMA TaleEnclosed ==
  ASSUME NEW json \in BOOLEAN, NEW items, NEW o \in Printed, NEW v, NEW c \in Printed,
         NEW m \in Int, NEW d \in Int, NEW k \in Int, NEW e \in Int, NEW n \in Int,
         e = d + 1, Kind(o) \in Opens(json), Kind(c) \in Closes(json),
         Tale(json, One(o), items, m, d, k, e), Tale(json, v, items, k, e, n, e),
         v # <<>> => Kind(v[1]) = "name" /\ Kind(v[Len(v)]) \in Lasts(json)
  PROVE  Tale(json, One(o) \o v \o One(c), items, m, d, n, d)
<1>. DEFINE a == One(o)
            b == a \o v
            z == One(c)
<1>1. /\ a \in Seq(Printed) /\ Len(a) = 1 /\ a[1] = o /\ a # <<>> /\ v \in Seq(Printed)
      /\ z \in Seq(Printed) /\ z[1] = c
  BY OneToken DEF Tale
<1>2. Tale(json, z, items, n, e, n, d)
  <2>1. Kind(c) # "name" /\ Kind(c) \notin Opens(json)
    BY DEF Closes, Opens
  <2>2. Depth(json, z, 2) = 0 - 1
    BY <2>1, OneToken, OneBefore, OneOpens, OneCloses, OneNeither
  <2>3. d = e + Depth(json, z, 2)
    BY <2>2
  <2>. QED  BY <2>1, <2>3, TokenTold
<1>. HIDE DEF a, z
<1>3. Joint(json, a, v)
  <2>. SUFFICES ASSUME v # <<>>
                PROVE  /\ <<Kind(o), "name">> \in Follows(json) /\ "name" \notin Values
    BY <1>1 DEF Joint
  <2>. QED  BY DEF Follows, Opens, Values
<1>4. Tale(json, b, items, m, d, n, e)
  BY <1>3, TaleJoined DEF a
<1>5. /\ b \in Seq(Printed) /\ b # <<>>
      /\ b[Len(b)] = IF v = <<>> THEN o ELSE v[Len(v)]
  <2>1. a \in Seq(Printed) /\ v \in Seq(Printed) /\ a # <<>>
    BY <1>1
  <2>. QED  BY <1>1, <2>1, LastOfTwo
<1>. HIDE DEF b
<1>6. Joint(json, b, z)
  <2>1. Kind(b[Len(b)]) \in Opens(json) \union Lasts(json)
    BY <1>5
  <2>2. Kind(c) \notin Values
    BY DEF Closes, Values
  <2>3. <<Kind(b[Len(b)]), Kind(c)>> \in Follows(json)
    <3>1. CASE json
      BY <2>1, <3>1 DEF Opens, Closes, Lasts, Follows, Values, Accepts
    <3>2. CASE ~json
      BY <2>1, <3>2 DEF Opens, Closes, Lasts, Follows, Values, Accepts
    <3>. QED  BY <3>1, <3>2
  <2>. QED  BY <1>1, <2>2, <2>3 DEF Joint
<1>7. Tale(json, b \o z, items, m, d, n, d)
  BY <1>2, <1>4, <1>6, TaleJoined
<1>. QED  BY <1>7 DEF a, b, z

-----------------------------------------------------------------------------
(***************************************************************************)
(* One entry                                                               *)
(***************************************************************************)

\* out tells the first entry of a forest, with all it holds.
EntryTold(json, out, f) ==
  /\ Tale(json, out, f, 0, 0, Extent(f), 0)
  /\ Balanced(json, out)
  /\ out # <<>> /\ Kind(out[1]) = "name" /\ Kind(out[Len(out)]) \in Lasts(json)
  /\ ~json => \A i \in 2 .. Len(out) : Depth(json, out, i) > 0

\* out tells a forest.
ForestTold(json, out, f) ==
  /\ Tale(json, out, f, 0, 0, Len(f), 0)
  /\ Balanced(json, out)
  /\ out # <<>> => Kind(out[1]) = "name" /\ Kind(out[Len(out)]) \in Lasts(json)
  /\ out = <<>> <=> f = <<>>
  /\ f # <<>> /\ After(f) = <<>> => EntryTold(json, out, f)

\* dmapWriteEntry tells an entry that has a value.
LEMMA ValueEntryTold ==
  ASSUME NEW json \in BOOLEAN, NEW f \in Seq(Item), f # <<>>, IsForest(f), ~Holds(f[1]),
         Fits(json, f[1])
  PROVE  EntryTold(json, Entry(json, f[1].tag, Text(json, f[1].tag, Bytes(f[1].content))), f)
<1>. DEFINE name == Name(f[1].tag)
            value == Value(f[1].tag, Bytes(f[1].content))
            end == End(f[1].tag)
            v == One(value)
            s == One(name) \o v
            out == Entry(json, f[1].tag, v)
<1>1. f[1] \in Item /\ f[1].depth = 1 /\ Extent(f) = 1
  <2>1. Inside(f) = <<>> /\ Extent(f) \in 1 .. Len(f) /\ Len(Inside(f)) = Extent(f) - 1
    BY ForestParts, ExtentFits, Smaller
  <2>. QED  BY <2>1, ForestParts, Smaller
<1>0. Text(json, f[1].tag, Bytes(f[1].content)) = v
  BY <1>1, FittingValue DEF One
<1>2. name \in Printed /\ end \in Printed /\ Kind(name) = "name" /\ Kind(end) = "end"
  BY <1>1 DEF Item, Printed, Name, End, Kind, Fits
<1>3. out = s \o (IF json THEN <<>> ELSE One(end))
  BY DEF Entry, One
<1>4. name = Name(f[1].tag) /\ value = Value(f[1].tag, Bytes(f[1].content))
  OBVIOUS
<1>. HIDE DEF name, value, end, out
<1>5. /\ One(name) \in Seq(Printed) /\ One(name) # <<>> /\ One(name)[1] = name
      /\ Depth(json, One(name), 2) = IF json THEN 0 ELSE 1
  BY <1>2, OneToken, OneBefore, OneOpens, OneCloses, OneNeither DEF Opens, Closes
<1>6. /\ value \in Printed /\ Kind(value) \in Accepts(json)
      /\ Tale(json, s, f, 0, 0, 1, IF json THEN 0 ELSE 1)
  <2>. DEFINE item == f[1]
              e == IF json THEN 0 ELSE 1
  <2>1. /\ item \in Item /\ item = f[0 + 1] /\ ~ Holds(item) /\ item.depth = 0 + 1
        /\ Fits(json, item) /\ name = Name(item.tag) /\ value = Value(item.tag, Bytes(item.content))
        /\ e \in Int /\ e = 0 + Depth(json, One(name), 2) /\ 1 = 0 + 1
    BY <1>1, <1>4, <1>5
  <2>. HIDE DEF item, e
  <2>. QED  BY <2>1, ValueTold DEF e
<1>7. Balanced(json, v) /\ v \in Seq(Printed) /\ Len(v) = 1 /\ v[1] = value /\ v # <<>>
  <2>1. Kind(value) \notin Opens(json) /\ Kind(value) \notin Closes(json)
    BY <1>6 DEF Values, Accepts, Opens, Closes
  <2>. QED  BY <1>6, <2>1, BalancedToken, OneToken, OneBefore, OneOpens, OneCloses, OneNeither
<1>. HIDE DEF v
<1>8. s \in Seq(Printed) /\ s # <<>> /\ s[1] = name /\ s[Len(s)] = value
  BY <1>5, <1>7, LastOfTwo
<1>9. CASE json
  <2>1. out = s
    BY <1>3, <1>8, <1>9, ConcatEmptySeq
  <2>2. Balanced(json, One(name))
    BY <1>2, <1>9, BalancedToken DEF Opens, Closes
  <2>3. Balanced(json, s)
    BY <1>5, <1>7, <2>2, BalancedJoined
  <2>4. Tale(json, s, f, 0, 0, 1, 0)
    BY <1>6, <1>9
  <2>. HIDE DEF s
  <2>5. Kind(s[1]) = "name" /\ Kind(s[Len(s)]) \in Lasts(json)
    BY <1>2, <1>6, <1>8, <1>9 DEF Lasts
  <2>6. EntryTold(json, s, f)
    BY <1>1, <1>8, <1>9, <2>3, <2>4, <2>5 DEF EntryTold
  <2>. QED  BY <1>0, <2>1, <2>6 DEF out
<1>10. CASE ~json
  <2>. DEFINE t == s \o One(end)
  <2>1. out = t
    BY <1>3, <1>10
  <2>2. /\ Kind(name) \in Opens(json) /\ Kind(end) \in Closes(json)
        /\ Depth(json, One(end), 2) = 0 - 1 /\ One(end)[1] = end
    BY <1>2, <1>10, OneToken, OneBefore, OneOpens, OneCloses, OneNeither DEF Opens, Closes
  <2>3. /\ t \in Seq(Printed) /\ Len(t) = Len(v) + 2 /\ t[1] = name /\ t[Len(t)] = end
        /\ \A i \in 2 .. Len(t) : Depth(json, t, i) > 0
        /\ Balanced(json, t)
    <3>1. MadeOf(t, name, v, end)
      BY <1>2, <1>7, EnclosedParts
    <3>2. Balanced(json, t) /\ \A i \in 2 .. Len(t) : Depth(json, t, i) > 0
      BY <1>2, <1>7, <2>2, Enclosed
    <3>. HIDE DEF t
    <3>. QED  BY <3>1, <3>2 DEF MadeOf
  <2>4. Tale(json, s, f, 0, 0, 1, 1)
    BY <1>6, <1>10
  <2>. HIDE DEF s
  <2>5. Tale(json, One(end), f, 1, 1, 1, 0)
    <3>1. 0 = 1 + Depth(json, One(end), 2) /\ Kind(end) # "name"
      BY <1>2, <2>2
    <3>. QED  BY <1>2, <3>1, TokenTold
  <2>6. Joint(json, s, One(end))
    BY <1>2, <1>6, <1>8, <1>10, <2>2 DEF Joint, Follows, Values, Accepts
  <2>7. Tale(json, t, f, 0, 0, 1, 0)
    BY <2>4, <2>5, <2>6, TaleJoined
  <2>. HIDE DEF t
  <2>8. t # <<>>
    BY <1>7, <2>3
  <2>9. EntryTold(json, t, f)
    BY <1>1, <1>2, <1>10, <2>3, <2>7, <2>8 DEF EntryTold, Lasts
  <2>. QED  BY <1>0, <2>1, <2>9 DEF out
<1>. QED  BY <1>9, <1>10

InBraces(json, out) ==
  /\ out # <<>> /\ Kind(out[1]) = "{" /\ Kind(out[Len(out)]) = "}"
  /\ Balanced(json, out)
  /\ \A i \in 2 .. Len(out) : Depth(json, out, i) > 0

\* In JSON, dmapPrintDict and WriteX tell what is between their braces, one deeper.
LEMMA BracesTold ==
  ASSUME NEW json \in BOOLEAN, json, NEW items, NEW inner,
         NEW m \in Int, NEW d \in Int, NEW e \in Int, NEW n \in Int, e = d + 1,
         Tale(json, inner, items, m, e, n, e), Balanced(json, inner),
         inner # <<>> => Kind(inner[1]) = "name" /\ Kind(inner[Len(inner)]) \in Lasts(json),
         NEW out, out = Braces(json, inner)
  PROVE  Tale(json, out, items, m, d, n, d) /\ InBraces(json, out)
<1>1. PICK o \in Printed : o = OpenBrace
  BY DEF Printed
<1>2. PICK c \in Printed : c = CloseBrace
  BY DEF Printed
<1>3. out = One(o) \o inner \o One(c)
  BY <1>1, <1>2 DEF Braces, One
<1>4. Kind(o) = "{" /\ Kind(c) = "}"
  BY <1>1, <1>2 DEF OpenBrace, CloseBrace, Kind
<1>5. Kind(o) \in Opens(json) /\ Kind(c) \in Closes(json) /\ Kind(o) # "name"
  BY <1>4 DEF Opens, Closes
<1>6. inner \in Seq(Printed) /\ Len(inner) \in Nat
  BY DEF Tale
<1>7. /\ out # <<>> /\ out[1] = o /\ out[Len(out)] = c
      /\ \A i \in 2 .. Len(out) : Depth(json, out, i) > 0
      /\ Balanced(json, out)
  <2>1. MadeOf(out, o, inner, c)
    BY <1>3, <1>6, EnclosedParts
  <2>2. Balanced(json, out) /\ \A i \in 2 .. Len(out) : Depth(json, out, i) > 0
    BY <1>3, <1>5, <1>6, Enclosed
  <2>. QED  BY <2>1, <2>2 DEF MadeOf
<1>8. Tale(json, One(o), items, m, d, m, e)
  <2>1. e = d + Depth(json, One(o), 2)
    BY <1>5, OneOpens
  <2>. QED  BY <1>5, <2>1, TokenTold, Zenon
<1>9. Tale(json, One(o) \o inner \o One(c), items, m, d, n, d)
  BY <1>5, <1>8, TaleEnclosed, Zenon
<1>. QED  BY <1>3, <1>4, <1>7, <1>9 DEF InBraces

\* What is told of the entries in the first one, as part of the whole.
LEMMA InnerMoved ==
  ASSUME NEW json, NEW f \in Seq(Item), f # <<>>, NEW inner, ForestTold(json, inner, Inside(f))
  PROVE  Tale(json, inner, f, 1, 1, Extent(f), 1)
<1>. DEFINE n == Extent(f)
            g == Inside(f)
            p == Len(g)
<1>1. n \in 1 .. Len(f) /\ Len(f) \in Nat
  BY ExtentFits
<1>2. /\ p = n - 1
      /\ \A i \in 1 .. n - 1 : /\ g[i].depth = f[i + 1].depth - 1
                               /\ g[i].tag = f[i + 1].tag /\ g[i].content = f[i + 1].content
  BY Smaller
<1>3. Tale(json, inner, g, 0, 0, p, 0)
  BY DEF ForestTold
<1>. HIDE DEF n, g, p
<1>4. p \in Nat /\ n = 1 + p /\ n \in Int /\ 1 \in Int
  BY <1>1, <1>2
<1>5. ASSUME NEW i \in 1 .. p
      PROVE  /\ g[i].depth \in Int /\ f[1 + i].depth = 1 + g[i].depth
             /\ f[1 + i].tag = g[i].tag /\ f[1 + i].content = g[i].content
  <2>1. i \in 1 .. n - 1 /\ 1 + i = i + 1 /\ i + 1 \in 1 .. Len(f)
    BY <1>1, <1>4
  <2>2. f[i + 1] \in Item
    BY <2>1
  <2>3. f[i + 1].depth \in Nat
    BY <2>2 DEF Item
  <2>4. /\ g[i].depth = f[i + 1].depth - 1
        /\ g[i].tag = f[i + 1].tag /\ g[i].content = f[i + 1].content
    BY <1>2, <2>1
  <2>5. g[i].depth \in Int /\ f[i + 1].depth = 1 + g[i].depth
    BY <2>3, <2>4
  <2>. QED  BY <2>1, <2>4, <2>5
<1>6. Tale(json, inner, f, 1, 1, n, 1)
  BY <1>3, <1>4, <1>5, TaleMoved, Zenon
<1>. QED  BY <1>6 DEF n

\* dmapWriteEntry tells an entry that holds others, and these, if dmapPrintDict
\* tells them.
LEMMA DictEntryTold ==
  ASSUME NEW json \in BOOLEAN, NEW f \in Seq(Item), f # <<>>, IsForest(f), Holds(f[1]),
         f[1].tag # Odd, NEW inner, ForestTold(json, inner, Inside(f))
  PROVE  EntryTold(json, Entry(json, f[1].tag, Braces(json, inner)), f)
<1>. DEFINE name == Name(f[1].tag)
            end == End(f[1].tag)
            n == Extent(f)
            g == Inside(f)
            out == Entry(json, f[1].tag, Braces(json, inner))
<1>1. /\ f[1] \in Item /\ f[1].depth = 1 /\ n \in Nat \ {0} /\ Len(g) = n - 1
      /\ \A i \in 1 .. n - 1 : /\ g[i].depth = f[i + 1].depth - 1
                               /\ g[i].tag = f[i + 1].tag /\ g[i].content = f[i + 1].content
      /\ \A i \in 1 .. n - 1 : f[i + 1] \in Item
  <2>1. n \in 1 .. Len(f) /\ Len(f) \in Nat
    BY ExtentFits
  <2>2. \A i \in 1 .. n - 1 : f[i + 1] \in Item
    BY <2>1
  <2>. QED  BY <2>1, <2>2, ForestParts, Smaller
<1>2. name \in Printed /\ end \in Printed /\ Kind(name) = "name" /\ Kind(end) = "end"
  BY <1>1 DEF Item, Printed, Name, End, Kind
<1>3. out = One(name) \o Braces(json, inner) \o (IF json THEN <<>> ELSE One(end))
  BY DEF Entry, One
<1>4. name = Name(f[1].tag)
  OBVIOUS
<1>. HIDE DEF name, end, out, n, g
<1>5. /\ Tale(json, inner, g, 0, 0, n - 1, 0) /\ Balanced(json, inner)
      /\ inner \in Seq(Printed)
      /\ inner # <<>> => Kind(inner[1]) = "name" /\ Kind(inner[Len(inner)]) \in Lasts(json)
  BY <1>1 DEF ForestTold, Tale, g
<1>6. Tale(json, inner, f, 1, 1, n, 1)
  BY InnerMoved DEF n
<1>7. /\ One(name) \in Seq(Printed) /\ One(name) # <<>> /\ One(name)[1] = name /\ Len(One(name)) = 1
      /\ Depth(json, One(name), 2) = IF json THEN 0 ELSE 1
  BY <1>2, OneToken, OneBefore, OneOpens, OneCloses, OneNeither DEF Opens, Closes
<1>8. Tale(json, One(name), f, 0, 0, 1, IF json THEN 0 ELSE 1)
  <2>. DEFINE item == f[1]
              e == IF json THEN 0 ELSE 1
  <2>1. /\ item = f[0 + 1] /\ Holds(item) /\ item.depth = 0 + 1
        /\ item.tag \in Tags /\ item.tag # Odd
        /\ name = Name(item.tag) /\ e \in Int /\ e = 0 + Depth(json, One(name), 2) /\ 1 = 0 + 1
        /\ 0 \in Int /\ 1 \in Int
    BY <1>1, <1>4, <1>7 DEF Item
  <2>. HIDE DEF item, e
  <2>2. /\ item.tag \in Tags /\ e = 0 + Depth(json, One(Name(item.tag)), 2)
    BY <2>1
  <2>3. Tale(json, One(Name(item.tag)), f, 0, 0, 1, e)
    BY <2>1, <2>2, NameTold, Zenon
  <2>. QED  BY <2>1, <2>3 DEF e
<1>9. CASE ~json
  <2>. DEFINE t == One(name) \o inner \o One(end)
  <2>1. out = t
    BY <1>3, <1>9 DEF Braces
  <2>2. Kind(name) \in Opens(json) /\ Kind(end) \in Closes(json)
    BY <1>2, <1>9 DEF Opens, Closes
  <2>3. /\ t \in Seq(Printed) /\ Len(t) = Len(inner) + 2 /\ t[1] = name /\ t[Len(t)] = end
        /\ \A i \in 2 .. Len(t) : Depth(json, t, i) > 0
        /\ Balanced(json, t)
    <3>1. MadeOf(t, name, inner, end)
      BY <1>2, <1>5, EnclosedParts
    <3>2. Balanced(json, t) /\ \A i \in 2 .. Len(t) : Depth(json, t, i) > 0
      BY <1>2, <1>5, <2>2, Enclosed
    <3>. HIDE DEF t
    <3>. QED  BY <3>1, <3>2 DEF MadeOf
  <2>4. Tale(json, t, f, 0, 0, n, 0)
    <3>1. /\ Tale(json, One(name), f, 0, 0, 1, 1)
          /\ n \in Int /\ 1 = 0 + 1 /\ 0 \in Int /\ 1 \in Int
      BY <1>1, <1>8, <1>9
    <3>. QED  BY <1>2, <1>5, <1>6, <2>2, <3>1, TaleEnclosed, Zenon
  <2>. HIDE DEF t
  <2>5. t # <<>>
    BY <1>5, <2>3
  <2>6. EntryTold(json, t, f)
    BY <1>2, <1>9, <2>3, <2>4, <2>5 DEF EntryTold, Lasts, n
  <2>. QED  BY <2>1, <2>6 DEF out
<1>10. CASE json
  <2>. DEFINE t == Braces(json, inner)
              u == One(name) \o t
  <2>1. out = u \o <<>>
    BY <1>3, <1>10
  <2>2. Balanced(json, One(name))
    BY <1>2, <1>10, BalancedToken DEF Opens, Closes
  <2>3. Tale(json, t, f, 1, 0, n, 0) /\ InBraces(json, t)
    <3>1. n \in Int /\ 1 = 0 + 1 /\ 0 \in Int /\ 1 \in Int
      BY <1>1
    <3>2. t = Braces(json, inner)
      OBVIOUS
    <3>. HIDE DEF t
    <3>. QED  BY <1>5, <1>6, <1>10, <3>1, <3>2, BracesTold, Zenon
  <2>. HIDE DEF t
  <2>4. /\ t \in Seq(Printed) /\ t # <<>> /\ Balanced(json, t)
        /\ Kind(t[1]) = "{" /\ Kind(t[Len(t)]) = "}"
    BY <2>3 DEF Tale, InBraces
  <2>5. u \in Seq(Printed) /\ u # <<>> /\ u[1] = name /\ u[Len(u)] = t[Len(t)]
    <3>. DEFINE a == One(name)
    <3>1. a \in Seq(Printed) /\ a # <<>> /\ a[1] = name /\ t \in Seq(Printed) /\ t # <<>>
      BY <1>7, <2>4
    <3>. HIDE DEF a
    <3>. QED  BY <3>1, LastOfTwo DEF a
  <2>6. Joint(json, One(name), t)
    BY <1>2, <1>7, <1>10, <2>4 DEF Joint, Follows, Values
  <2>7. Tale(json, u, f, 0, 0, n, 0)
    BY <1>8, <1>10, <2>3, <2>6, TaleJoined
  <2>8. Balanced(json, u)
    BY <1>7, <2>2, <2>4, BalancedJoined
  <2>. HIDE DEF u
  <2>9. out = u
    BY <2>1, <2>5, ConcatEmptySeq
  <2>10. EntryTold(json, u, f)
    BY <1>2, <1>10, <2>4, <2>5, <2>7, <2>8 DEF EntryTold, Lasts, n
  <2>. QED  BY <2>9, <2>10 DEF out
<1>. QED  BY <1>9, <1>10

-----------------------------------------------------------------------------
(***************************************************************************)
(* Forests, one entry after the other                                      *)
(***************************************************************************)

\* What is told of the entries behind the first one, as part of the whole.
LEMMA RestMoved ==
  ASSUME NEW json, NEW f \in Seq(Item), f # <<>>, NEW rest, ForestTold(json, rest, After(f))
  PROVE  Tale(json, rest, f, Extent(f), 0, Len(f), 0)
<1>. DEFINE n == Extent(f)
            g == After(f)
            p == Len(g)
<1>1. n \in 1 .. Len(f) /\ Len(f) \in Nat
  BY ExtentFits
<1>2. /\ g \in Seq(Item) /\ p = Len(f) - n
      /\ \A i \in 1 .. Len(f) - n : g[i] = f[n + i]
  BY Smaller
<1>3. Tale(json, rest, g, 0, 0, p, 0)
  BY DEF ForestTold
<1>. HIDE DEF n, g, p
<1>4. p \in Nat /\ Len(f) = n + p /\ n \in Int /\ Len(f) \in Int /\ 0 \in Int
  BY <1>1, <1>2
<1>5. ASSUME NEW i \in 1 .. p
      PROVE  /\ g[i].depth \in Int /\ f[n + i].depth = 0 + g[i].depth
             /\ f[n + i].tag = g[i].tag /\ f[n + i].content = g[i].content
  <2>1. g[i] = f[n + i] /\ n + i \in 1 .. Len(f)
    BY <1>1, <1>2, <1>4
  <2>2. f[n + i] \in Item
    BY <2>1
  <2>3. f[n + i].depth \in Nat
    BY <2>2 DEF Item
  <2>. QED  BY <2>1, <2>3
<1>6. Tale(json, rest, f, n, 0, Len(f), 0)
  BY <1>3, <1>4, <1>5, TaleMoved, Zenon
<1>. QED  BY <1>6 DEF n

\* An entry, the separator if another one follows, and the other ones.
LEMMA ForestJoined ==
  ASSUME NEW json \in BOOLEAN, NEW f \in Seq(Item), f # <<>>, NEW entry, EntryTold(json, entry, f),
         NEW rest, ForestTold(json, rest, After(f)),
         NEW infix, infix = IF After(f) = <<>> THEN <<>> ELSE Infix(json)
  PROVE  ForestTold(json, entry \o infix \o rest, f)
<1>. DEFINE n == Extent(f)
<1>1. /\ Tale(json, entry, f, 0, 0, n, 0) /\ Balanced(json, entry)
      /\ entry # <<>> /\ Kind(entry[1]) = "name" /\ Kind(entry[Len(entry)]) \in Lasts(json)
      /\ entry \in Seq(Printed)
  BY DEF EntryTold, Tale
<1>2. /\ Balanced(json, rest) /\ rest \in Seq(Printed) /\ (rest = <<>> <=> After(f) = <<>>)
      /\ rest # <<>> => Kind(rest[1]) = "name" /\ Kind(rest[Len(rest)]) \in Lasts(json)
  BY DEF ForestTold, Tale
<1>3. Tale(json, rest, f, n, 0, Len(f), 0)
  BY RestMoved
<1>4. n \in 1 .. Len(f) /\ Len(f) \in Nat /\ Len(After(f)) = Len(f) - n
  BY ExtentFits, Smaller
<1>. HIDE DEF n
<1>5. CASE After(f) = <<>>
  <2>1. infix = <<>> /\ rest = <<>>
    BY <1>2, <1>5
  <2>2. entry \o infix \o rest = entry
    BY <1>1, <2>1, ConcatEmptySeq
  <2>3. n = Len(f)
    BY <1>4, <1>5
  <2>4. ForestTold(json, entry, f)
    BY <1>1, <1>5, <2>3 DEF ForestTold
  <2>. QED  BY <2>2, <2>4
<1>6. CASE After(f) # <<>> /\ ~json
  <2>1. infix = <<>>
    BY <1>6 DEF Infix
  <2>2. entry \o infix = entry
    BY <1>1, <2>1, ConcatEmptySeq
  <2>3. Joint(json, entry, rest)
    BY <1>1, <1>2, <1>6 DEF Joint, Lasts, Follows, Values, Accepts
  <2>4. Tale(json, entry \o rest, f, 0, 0, Len(f), 0)
    BY <1>1, <1>3, <2>3, TaleJoined
  <2>5. Balanced(json, entry \o rest)
    BY <1>1, <1>2, BalancedJoined
  <2>. DEFINE t == entry \o rest
  <2>6. t # <<>> /\ t[1] = entry[1] /\ t[Len(t)] = rest[Len(rest)]
    BY <1>1, <1>2, <1>6, LastOfTwo
  <2>. HIDE DEF t
  <2>7. ForestTold(json, t, f)
    BY <1>1, <1>2, <1>6, <2>4, <2>5, <2>6 DEF ForestTold, t
  <2>. QED  BY <2>2, <2>7 DEF t
<1>7. CASE After(f) # <<>> /\ json
  <2>. DEFINE s == One(Comma)
              t == entry \o s
              u == t \o rest
  <2>1. infix = s
    BY <1>7 DEF Infix, One
  <2>2. Comma \in Printed /\ Kind(Comma) = ","
    BY DEF Comma, Kind, Printed
  <2>3. s \in Seq(Printed) /\ s # <<>> /\ s[1] = Comma /\ Len(s) = 1
    BY <2>2, OneToken
  <2>4. Kind(Comma) \notin Opens(json) /\ Kind(Comma) \notin Closes(json) /\ Kind(Comma) # "name"
    BY <2>2 DEF Opens, Closes
  <2>5. Balanced(json, s) /\ Depth(json, s, 2) = 0
    BY <2>2, <2>4, BalancedToken
  <2>6. Tale(json, s, f, n, 0, n, 0)
    <3>1. n \in Int /\ 0 \in Int /\ 0 = 0 + Depth(json, s, 2)
      BY <1>4, <2>5
    <3>. QED  BY <2>2, <2>4, <3>1, TokenTold, Zenon
  <2>. HIDE DEF s
  <2>7. Joint(json, entry, s)
    BY <1>1, <1>7, <2>2, <2>3 DEF Joint, Lasts, Follows, Values, Accepts
  <2>8. Tale(json, t, f, 0, 0, n, 0) /\ Balanced(json, t)
    BY <1>1, <2>3, <2>5, <2>6, <2>7, TaleJoined, BalancedJoined
  <2>9. t \in Seq(Printed) /\ t # <<>> /\ t[1] = entry[1] /\ t[Len(t)] = Comma
    BY <1>1, <2>3, LastOfTwo
  <2>. HIDE DEF t
  <2>10. Joint(json, t, rest)
    BY <1>2, <1>7, <2>2, <2>9 DEF Joint, Follows, Values
  <2>11. Tale(json, u, f, 0, 0, Len(f), 0) /\ Balanced(json, u)
    BY <1>2, <1>3, <2>8, <2>9, <2>10, TaleJoined, BalancedJoined
  <2>12. u # <<>> /\ u[1] = entry[1] /\ u[Len(u)] = rest[Len(rest)]
    BY <1>2, <1>7, <2>9, LastOfTwo
  <2>. HIDE DEF u
  <2>13. ForestTold(json, u, f)
    BY <1>1, <1>2, <1>7, <2>11, <2>12 DEF ForestTold
  <2>. QED  BY <2>1, <2>13 DEF u, t
<1>. QED  BY <1>5, <1>6, <1>7

\* What a source sends begins with the first entry.
LEMMA DataBegins ==
  ASSUME NEW f \in Seq(Item), f # <<>>
  PROVE  LET data == Data[f]
         IN  /\ data \in Seq(Cell) /\ data # <<>> /\ data[1].tag = f[1].tag
             /\ ~ (data[1].n > Len(data) - 1)
             /\ SubSeq(data, 2, data[1].n + 1) = DataContent(Data, f)
             /\ SubSeq(data, data[1].n + 2, Len(data)) = Data[After(f)]
<1>. DEFINE content == DataContent(Data, f)
            rest == Data[After(f)]
            head == [tag |-> f[1].tag, n |-> Len(content)]
            data == <<head>> \o content \o rest
<1>1. f[1].tag \in Tags /\ Bytes(f[1].content) \in Seq(Cell)
  BY Smaller, BytesAreCells DEF Item
<1>2. Data[Inside(f)] \in Seq(Cell) /\ rest \in Seq(Cell) /\ Data[f] = DataOf(Data, f)
  BY Smaller, DataIs
<1>3. content \in Seq(Cell) /\ Len(content) \in Nat
  <2>. DEFINE a == Bytes(f[1].content)
              b == Data[Inside(f)]
  <2>1. a \in Seq(Cell) /\ b \in Seq(Cell) /\ content = a \o b
    BY <1>1, <1>2 DEF DataContent
  <2>. HIDE DEF a, b, content
  <2>. QED  BY <2>1
<1>4. head \in Cell /\ head.tag = f[1].tag /\ head.n = Len(content)
  BY <1>1, <1>3 DEF Cell
<1>5. Data[f] = data
  BY <1>2 DEF DataOf
<1>. HIDE DEF content, rest, head
<1>6. /\ data \in Seq(Cell) /\ Len(data) = 1 + Len(content) + Len(rest) /\ data[1] = head
      /\ SubSeq(data, 2, Len(content) + 1) = content
      /\ SubSeq(data, Len(content) + 2, Len(data)) = rest
  BY <1>2, <1>3, <1>4, Parts
<1>7. Len(rest) \in Nat
  BY <1>2
<1>. HIDE DEF data
<1>8. data # <<>> /\ ~ (head.n > Len(data) - 1)
  BY <1>3, <1>4, <1>6, <1>7
<1>. QED  BY <1>4, <1>5, <1>6, <1>8 DEF content, rest

\* A source that has nothing to say sends nothing.
LEMMA NoData ==
  Data[<<>>] = <<>>
<1>1. <<>> \in Seq(Item)
  OBVIOUS
<1>2. Data[<<>>] = DataOf(Data, <<>>)
  BY <1>1, DataIs
<1>. QED  BY <1>2 DEF DataOf

\* An entry has bytes or holds others.
LEMMA ContentIs ==
  ASSUME NEW f \in Seq(Item), f # <<>>, IsForest(f)
  PROVE  DataContent(Data, f) = IF Holds(f[1]) THEN Data[Inside(f)] ELSE Bytes(f[1].content)
<1>1. Data[Inside(f)] \in Seq(Cell)
  BY Smaller, DataIs
<1>2. Bytes(f[1].content) \in Seq(Cell)
  BY Smaller, BytesAreCells DEF Item
<1>3. CASE Holds(f[1])
  <2>1. f[1].content = <<>>
    BY <1>3, ForestParts
  <2>2. Bytes(<<>>) = <<>>
    BY DEF Bytes
  <2>. QED  BY <1>1, <1>3, <2>1, <2>2, ConcatEmptySeq DEF DataContent
<1>4. CASE ~Holds(f[1])
  <2>1. Data[Inside(f)] = <<>>
    BY <1>4, ForestParts, NoData
  <2>. QED  BY <1>2, <1>4, <2>1, ConcatEmptySeq DEF DataContent
<1>. QED  BY <1>3, <1>4

\* What fits does so in every part of a forest.
LEMMA PartsFit ==
  ASSUME NEW json, NEW f \in Seq(Item), f # <<>>, AllFit(json, f)
  PROVE  Fits(json, f[1]) /\ AllFit(json, Inside(f)) /\ AllFit(json, After(f))
<1>. DEFINE n == Extent(f)
<1>1. n \in 1 .. Len(f) /\ Len(f) \in Nat \ {0}
  BY ExtentFits, Smaller
<1>2. /\ Inside(f) \in Seq(Item) /\ Len(Inside(f)) = n - 1
      /\ \A i \in 1 .. n - 1 : Inside(f)[i].tag = f[i + 1].tag /\ Inside(f)[i].content = f[i + 1].content
      /\ After(f) \in Seq(Item) /\ Len(After(f)) = Len(f) - n
      /\ \A i \in 1 .. Len(f) - n : After(f)[i] = f[n + i]
  BY Smaller
<1>. HIDE DEF n
<1>3. \A i \in 1 .. Len(f) : Fits(json, f[i])
  BY DEF AllFit
<1>4. ASSUME NEW i \in 1 .. n - 1 PROVE Fits(json, Inside(f)[i])
  <2>1. Fits(json, f[i + 1])
    BY <1>1, <1>3
  <2>. QED  BY <1>2, <2>1 DEF Fits
<1>5. ASSUME NEW i \in 1 .. Len(f) - n PROVE Fits(json, After(f)[i])
  <2>1. n + i \in 1 .. Len(f)
    BY <1>1
  <2>2. Fits(json, f[n + i])
    BY <1>3, <2>1
  <2>. QED  BY <1>2, <2>2
<1>6. DOMAIN Inside(f) = 1 .. n - 1 /\ DOMAIN After(f) = 1 .. Len(f) - n /\ 1 \in 1 .. Len(f)
  BY <1>1, <1>2
<1>. QED  BY <1>3, <1>4, <1>5, <1>6 DEF AllFit

\* A step of the loop of dmapPrintDict, for what a source sends.
LEMMA EntriesStep ==
  ASSUME NEW json \in BOOLEAN, NEW e, e = [data \in Seq(Cell) |-> EntriesOf(e, json, data)],
         NEW f \in Seq(Item), f # <<>>, IsForest(f)
  PROVE  e[Data[f]] = Entry(json, f[1].tag,
                            IF Holds(f[1]) THEN Braces(json, e[Data[Inside(f)]])
                            ELSE Text(json, f[1].tag, Bytes(f[1].content)))
                        \o (IF Data[After(f)] = <<>> THEN <<>> ELSE Infix(json))
                        \o e[Data[After(f)]]
<1>. DEFINE data == Data[f]
            content == DataContent(Data, f)
            rest == Data[After(f)]
<1>1. /\ data \in Seq(Cell) /\ data # <<>> /\ data[1].tag = f[1].tag
      /\ ~ (data[1].n > Len(data) - 1)
      /\ SubSeq(data, 2, data[1].n + 1) = content
      /\ SubSeq(data, data[1].n + 2, Len(data)) = rest
  BY DataBegins
<1>2. f[1].tag # Byte
  <2>1. f[1].tag \in Tags
    BY Smaller DEF Item
  <2>. QED  BY <2>1 DEF Tags, Known, EntryMap, Odd, Byte
<1>3. content = IF Holds(f[1]) THEN Data[Inside(f)] ELSE Bytes(f[1].content)
  BY ContentIs
<1>. HIDE DEF data, content, rest
<1>4. e[data] = EntriesOf(e, json, data)
  BY <1>1
<1>5. EntriesOf(e, json, data)
        = Entry(json, f[1].tag, IF Holds(f[1]) THEN Braces(json, e[content])
                                ELSE Text(json, f[1].tag, content))
            \o (IF rest = <<>> THEN <<>> ELSE Infix(json)) \o e[rest]
  BY <1>1, <1>2 DEF EntriesOf, Holds
<1>6. (IF Holds(f[1]) THEN Braces(json, e[content]) ELSE Text(json, f[1].tag, content))
        = IF Holds(f[1]) THEN Braces(json, e[Data[Inside(f)]])
          ELSE Text(json, f[1].tag, Bytes(f[1].content))
  BY <1>3
<1>. QED  BY <1>4, <1>5, <1>6 DEF data, rest

\* The loop of dmapPrintDict tells all entries of what a source has sent: were it
\* not so, it would not be so for a shortest one.
LEMMA EntriesTold ==
  ASSUME NEW json \in BOOLEAN, NEW tree \in Seq(Item), IsForest(tree), AllFit(json, tree)
  PROVE  ForestTold(json, Entries(json, Data[tree]), tree)
<1>1. PICK e : /\ e = [data \in Seq(Cell) |-> EntriesOf(e, json, data)]
               /\ \A data \in Seq(Cell) : Entries(json, data) = e[data]
  BY EntriesIs
<1>. DEFINE Off == {n \in Nat : \E f \in Seq(Item) : /\ IsForest(f) /\ AllFit(json, f)
                                                     /\ Len(f) = n
                                                     /\ ~ForestTold(json, e[Data[f]], f)}
<1>2. ASSUME Off # {} PROVE FALSE
  <2>1. PICK m \in Off : \A k \in Off : m <= k
    BY <1>2, Least
  <2>2. PICK f \in Seq(Item) : /\ IsForest(f) /\ AllFit(json, f) /\ Len(f) = m
                               /\ ~ForestTold(json, e[Data[f]], f)
    BY <2>1
  <2>3. ASSUME NEW g \in Seq(Item), IsForest(g), AllFit(json, g), Len(g) < m
        PROVE  ForestTold(json, e[Data[g]], g)
    <3>1. Len(g) \in Nat /\ ~ (m <= Len(g))
      BY <2>1, <2>3
    <3>2. Len(g) \notin Off
      BY <2>1, <3>1
    <3>. QED  BY <2>3, <3>1, <3>2
  <2>4. CASE f = <<>>
    <3>1. e[Data[f]] = <<>>
      <4>1. <<>> \in Seq(Cell) /\ EntriesOf(e, json, <<>>) = <<>>
        BY DEF EntriesOf
      <4>2. e[<<>>] = EntriesOf(e, json, <<>>)
        BY <1>1, <4>1
      <4>. QED  BY <2>4, <4>1, <4>2, NoData
    <3>2. Tale(json, <<>>, f, 0, 0, Len(f), 0)
      <4>1. Len(f) = 0 /\ 0 \in Int
        BY <2>4
      <4>. QED  BY <4>1, NothingTold
    <3>3. Balanced(json, <<>>)
      BY DepthFirst DEF Balanced
    <3>. QED  BY <2>2, <2>4, <3>1, <3>2, <3>3 DEF ForestTold
  <2>5. CASE f # <<>>
    <3>. DEFINE inner == e[Data[Inside(f)]]
                rest == e[Data[After(f)]]
                value == IF Holds(f[1]) THEN Braces(json, inner)
                         ELSE Text(json, f[1].tag, Bytes(f[1].content))
                infix == IF Data[After(f)] = <<>> THEN <<>> ELSE Infix(json)
                entry == Entry(json, f[1].tag, value)
    <3>1. /\ Inside(f) \in Seq(Item) /\ IsForest(Inside(f))
          /\ After(f) \in Seq(Item) /\ IsForest(After(f))
          /\ AllFit(json, Inside(f)) /\ AllFit(json, After(f)) /\ Fits(json, f[1])
      BY <2>2, <2>5, Smaller, ForestParts, PartsFit
    <3>2. Len(Inside(f)) < m /\ Len(After(f)) < m
      <4>1. Extent(f) \in 1 .. Len(f) /\ Len(f) \in Nat
        BY <2>5, ExtentFits
      <4>2. Len(Inside(f)) = Extent(f) - 1 /\ Len(After(f)) = Len(f) - Extent(f)
        BY <2>5, Smaller
      <4>. QED  BY <2>2, <4>1, <4>2
    <3>3. ForestTold(json, inner, Inside(f)) /\ ForestTold(json, rest, After(f))
      BY <2>3, <3>1, <3>2
    <3>4. EntryTold(json, entry, f)
      <4>1. CASE Holds(f[1])
        <5>1. EntryTold(json, Entry(json, f[1].tag, Braces(json, inner)), f)
          BY <2>2, <2>5, <3>1, <3>3, <4>1, DictEntryTold DEF Fits
        <5>. QED  BY <4>1, <5>1
      <4>2. CASE ~Holds(f[1])
        <5>1. EntryTold(json, Entry(json, f[1].tag, Text(json, f[1].tag, Bytes(f[1].content))), f)
          BY <2>2, <2>5, <3>1, <4>2, ValueEntryTold
        <5>. QED  BY <4>2, <5>1
      <4>. QED  BY <4>1, <4>2
    <3>5. infix = IF After(f) = <<>> THEN <<>> ELSE Infix(json)
      <4>1. Data[After(f)] = <<>> <=> After(f) = <<>>
        BY <3>1, NoData, DataBegins
      <4>. QED  BY <4>1
    <3>6. e[Data[f]] = entry \o infix \o rest
      <4>1. e = [data \in Seq(Cell) |-> EntriesOf(e, json, data)] /\ IsForest(f)
        BY <1>1, <2>2
      <4>. QED  BY <2>5, <4>1, EntriesStep, Zenon
    <3>. HIDE DEF entry, infix, rest
    <3>7. ForestTold(json, entry \o infix \o rest, f)
      BY <2>5, <3>3, <3>4, <3>5, ForestJoined
    <3>. QED  BY <2>2, <3>6, <3>7
  <2>. QED  BY <2>4, <2>5
<1>3. Len(tree) \in Nat /\ Data[tree] \in Seq(Cell)
  BY DataIs
<1>4. ForestTold(json, e[Data[tree]], tree)
  <2>1. Len(tree) \notin Off
    BY <1>2
  <2>. QED  BY <1>3, <2>1
<1>. QED  BY <1>1, <1>3, <1>4

-----------------------------------------------------------------------------
(***************************************************************************)
(* No panic, whatever a source sends of a tree                             *)
(***************************************************************************)

\* Tokens without a panic.
Sound(out) == out \in Seq(Printed) /\ ~Panics(out)

\* A token.
LEMMA SoundToken ==
  ASSUME NEW token \in Printed, token # Panic
  PROVE  Sound(<<token>>)
BY DEF Sound, Panics

\* One output behind another.
LEMMA SoundTwo ==
  ASSUME NEW a, NEW b, Sound(a), Sound(b)
  PROVE  Sound(a \o b)
<1>1. a \in Seq(Printed) /\ b \in Seq(Printed)
  BY DEF Sound
<1>2. /\ a \o b \in Seq(Printed) /\ Len(a \o b) = Len(a) + Len(b)
      /\ Len(a) \in Nat /\ Len(b) \in Nat
      /\ \A i \in 1 .. Len(a) + Len(b) :
           (a \o b)[i] = IF i <= Len(a) THEN a[i] ELSE b[i - Len(a)]
  BY <1>1, ConcatProperties
<1>3. /\ DOMAIN a = 1 .. Len(a) /\ DOMAIN b = 1 .. Len(b)
      /\ DOMAIN (a \o b) = 1 .. Len(a) + Len(b)
  BY <1>1, <1>2
<1>4. (\A i \in 1 .. Len(a) : a[i] # Panic) /\ (\A i \in 1 .. Len(b) : b[i] # Panic)
  BY <1>3 DEF Sound, Panics
<1>5. ASSUME NEW i \in 1 .. Len(a) + Len(b)
      PROVE  (a \o b)[i] # Panic
  <2>1. CASE i <= Len(a)
    BY <1>2, <1>4, <2>1
  <2>2. CASE ~ (i <= Len(a))
    <3>1. i - Len(a) \in 1 .. Len(b)
      BY <1>2, <2>2
    <3>. QED  BY <1>2, <1>4, <2>2, <3>1
  <2>. QED  BY <2>1, <2>2
<1>. QED  BY <1>2, <1>3, <1>5 DEF Sound, Panics

\* Nothing.
LEMMA SoundNothing == Sound(<<>>)
BY DEF Sound, Panics

\* What a printer writes.
LEMMA SoundText ==
  ASSUME NEW json \in BOOLEAN, NEW tag \in Tags, NEW data \in Seq(Cell), Printer(tag) # "Dict"
  PROVE  Sound(Text(json, tag, data))
<1>. DEFINE bytes == [i \in DOMAIN data |-> Raw(data[i].n)]
<1>1. Sound(<<Value(tag, data)>>)
  <2>1. Value(tag, data) \in Printed
    BY DEF Printed
  <2>2. Value(tag, data) # Panic
    BY ValueKinds DEF Values, Kind, Panic
  <2>. QED  BY <2>1, <2>2, SoundToken
<1>2. Sound(<<Quote>>)
  <2>1. Quote \in Printed /\ Quote # Panic
    BY DEF Printed, Quote, Panic
  <2>. QED  BY <2>1, SoundToken
<1>3. Sound(bytes)
  <2>1. ASSUME NEW i \in DOMAIN data
        PROVE  Raw(data[i].n) \in Printed /\ Raw(data[i].n) # Panic
    <3>1. data[i] \in Cell
      OBVIOUS
    <3>2. data[i].n \in Nat
      BY <3>1 DEF Cell
    <3>. QED  BY <3>2 DEF Printed, Raw, Panic
  <2>2. DOMAIN data = 1 .. Len(data) /\ Len(data) \in Nat
    OBVIOUS
  <2>3. bytes \in Seq(Printed)
    BY <2>1, <2>2
  <2>. QED  BY <2>1, <2>3 DEF Sound, Panics
<1>4. Text(json, tag, data) \in {<<Value(tag, data)>>, <<Quote>> \o bytes \o <<Quote>>, bytes}
  BY DEF Text
<1>. HIDE DEF bytes
<1>5. Sound(<<Quote>> \o bytes \o <<Quote>>)
  BY <1>2, <1>3, SoundTwo
<1>. QED  BY <1>1, <1>3, <1>4, <1>5

\* What is put around it and between.
LEMMA SoundAround ==
  ASSUME NEW json \in BOOLEAN
  PROVE  /\ Sound(Infix(json))
         /\ \A out : Sound(out) => Sound(Braces(json, out))
         /\ \A tag \in Tags : \A out : Sound(out) => Sound(Entry(json, tag, out))
<1>1. Sound(<<OpenBrace>>) /\ Sound(<<CloseBrace>>) /\ Sound(<<Comma>>)
  <2>1. /\ OpenBrace \in Printed /\ CloseBrace \in Printed /\ Comma \in Printed
        /\ OpenBrace # Panic /\ CloseBrace # Panic /\ Comma # Panic
    BY DEF Printed, OpenBrace, CloseBrace, Comma, Panic
  <2>. QED  BY <2>1, SoundToken
<1>2. ASSUME NEW tag \in Tags PROVE Sound(<<Name(tag)>>) /\ Sound(<<End(tag)>>)
  <2>1. Name(tag) \in Printed /\ End(tag) \in Printed
    BY DEF Printed
  <2>2. Name(tag) # Panic /\ End(tag) # Panic
    BY DEF Name, End, Panic
  <2>. QED  BY <2>1, <2>2, SoundToken
<1>3. Sound(Infix(json))
  BY <1>1, SoundNothing DEF Infix
<1>4. ASSUME NEW out, Sound(out) PROVE Sound(Braces(json, out))
  BY <1>1, <1>4, SoundTwo DEF Braces
<1>5. ASSUME NEW tag \in Tags, NEW out, Sound(out) PROVE Sound(Entry(json, tag, out))
  BY <1>2, <1>5, SoundTwo, SoundNothing DEF Entry
<1>. QED  BY <1>3, <1>4, <1>5

\* The loop of dmapPrintDict does not panic, for all entries of what a source has
\* sent.
LEMMA EntriesSound ==
  ASSUME NEW json \in BOOLEAN, NEW tree \in Seq(Item), IsForest(tree)
  PROVE  Sound(Entries(json, Data[tree]))
<1>1. PICK e : /\ e = [data \in Seq(Cell) |-> EntriesOf(e, json, data)]
               /\ \A data \in Seq(Cell) : Entries(json, data) = e[data]
  BY EntriesIs
<1>. DEFINE Off == {n \in Nat : \E f \in Seq(Item) : /\ IsForest(f) /\ Len(f) = n
                                                     /\ ~Sound(e[Data[f]])}
<1>2. ASSUME Off # {} PROVE FALSE
  <2>1. PICK m \in Off : \A k \in Off : m <= k
    BY <1>2, Least
  <2>2. PICK f \in Seq(Item) : IsForest(f) /\ Len(f) = m /\ ~Sound(e[Data[f]])
    BY <2>1
  <2>3. ASSUME NEW g \in Seq(Item), IsForest(g), Len(g) < m
        PROVE  Sound(e[Data[g]])
    <3>1. Len(g) \in Nat /\ ~ (m <= Len(g))
      BY <2>1, <2>3
    <3>2. Len(g) \notin Off
      BY <2>1, <3>1
    <3>. QED  BY <2>3, <3>1, <3>2
  <2>4. CASE f = <<>>
    <3>1. <<>> \in Seq(Cell) /\ EntriesOf(e, json, <<>>) = <<>>
      BY DEF EntriesOf
    <3>2. e[<<>>] = EntriesOf(e, json, <<>>)
      BY <1>1, <3>1
    <3>. QED  BY <2>2, <2>4, <3>1, <3>2, NoData, SoundNothing
  <2>5. CASE f # <<>>
    <3>. DEFINE inner == e[Data[Inside(f)]]
                rest == e[Data[After(f)]]
                value == IF Holds(f[1]) THEN Braces(json, inner)
                         ELSE Text(json, f[1].tag, Bytes(f[1].content))
                infix == IF Data[After(f)] = <<>> THEN <<>> ELSE Infix(json)
                entry == Entry(json, f[1].tag, value)
    <3>1. /\ Inside(f) \in Seq(Item) /\ IsForest(Inside(f))
          /\ After(f) \in Seq(Item) /\ IsForest(After(f))
          /\ f[1].tag \in Tags /\ Bytes(f[1].content) \in Seq(Cell)
      BY <2>2, <2>5, Smaller, ForestParts, BytesAreCells DEF Item
    <3>2. Len(Inside(f)) < m /\ Len(After(f)) < m
      <4>1. Extent(f) \in 1 .. Len(f) /\ Len(f) \in Nat
        BY <2>5, ExtentFits
      <4>2. Len(Inside(f)) = Extent(f) - 1 /\ Len(After(f)) = Len(f) - Extent(f)
        BY <2>5, Smaller
      <4>. QED  BY <2>2, <4>1, <4>2
    <3>3. Sound(inner) /\ Sound(rest)
      BY <2>3, <3>1, <3>2
    <3>4. e[Data[f]] = entry \o infix \o rest
      <4>1. e = [data \in Seq(Cell) |-> EntriesOf(e, json, data)] /\ IsForest(f)
        BY <1>1, <2>2
      <4>. QED  BY <2>5, <4>1, EntriesStep, Zenon
    <3>. HIDE DEF inner, rest
    <3>5. Sound(value)
      <4>1. CASE Holds(f[1])
        BY <3>3, <4>1, SoundAround
      <4>2. CASE ~Holds(f[1])
        BY <3>1, <4>2, SoundText DEF Holds
      <4>. QED  BY <4>1, <4>2
    <3>. HIDE DEF value
    <3>6. Sound(entry) /\ Sound(infix)
      BY <3>1, <3>5, SoundAround, SoundNothing
    <3>. HIDE DEF entry, infix
    <3>. QED  BY <2>2, <3>3, <3>4, <3>6, SoundTwo
  <2>. QED  BY <2>4, <2>5
<1>3. Len(tree) \in Nat /\ Data[tree] \in Seq(Cell)
  BY DataIs
<1>4. Sound(e[Data[tree]])
  <2>1. Len(tree) \notin Off
    BY <1>2
  <2>. QED  BY <1>3, <2>1
<1>. QED  BY <1>1, <1>3, <1>4

-----------------------------------------------------------------------------
(***************************************************************************)
(* What is printed of a tree                                               *)
(***************************************************************************)

\* d is what the brace around the root adds to the depth.
LEMMA TaleTells ==
  ASSUME NEW json \in BOOLEAN, NEW out, NEW items \in Seq(Item),
         NEW d \in Int, d = IF json THEN 0 - 1 ELSE 0,
         Tale(json, out, items, 0, d, Len(items), d), out # <<>>,
         Kind(out[1]) \in Opens(json), Kind(out[Len(out)]) \in Closes(json),
         Balanced(json, out), \A i \in 2 .. Len(out) : Depth(json, out, i) > 0
  PROVE  Readable(json, out) /\ Tells(json, out, items)
<1>1. /\ out \in Seq(Printed) /\ Followed(json, out) /\ NamesTold(json, out, items, 0, d)
      /\ Before(out, Len(out) + 1, {"name"}) = Len(items) - 0
  BY DEF Tale
<1>2. Len(out) \in Nat \ {0} /\ Len(items) \in Nat
  BY <1>1, EmptySeq
<1>3. Len(out) > 1
  <2>1. Opens(json) \cap Closes(json) = {}
    BY DEF Opens, Closes
  <2>. QED  BY <1>2, <2>1
<1>4. Readable(json, out)
  BY <1>1 DEF Readable, Followed, Balanced
<1>5. Tells(json, out, items)
  <2>1. Before(out, Len(out) + 1, {"name"}) = Len(items)
    BY <1>1, <1>2
  <2>2. ASSUME NEW i \in 1 .. Len(out), Kind(out[i]) = "name"
        PROVE  LET item == items[Before(out, i, {"name"}) + 1]
               IN  /\ Says(out, i, item)
                   /\ item.depth = Depth(json, out, i) + IF json THEN 0 ELSE 1
    <3>. DEFINE b == Before(out, i, {"name"})
                item == items[b + 1]
    <3>1. i \in Nat
      BY <1>2
    <3>2. b \in Nat
      BY <1>1, <3>1, BeforeType
    <3>3. Depth(json, out, i) \in Int
      BY <1>1, <3>1, DepthType
    <3>4. Told(out, i, items[0 + b + 1]) /\ items[0 + b + 1].depth = d + Depth(json, out, i) + 1
      BY <1>1, <2>2 DEF NamesTold
    <3>. HIDE DEF b
    <3>5. 0 + b + 1 = b + 1
      BY <3>2
    <3>6. Told(out, i, item) /\ item.depth = d + Depth(json, out, i) + 1
      BY <3>4, <3>5
    <3>. HIDE DEF item
    <3>7. i < Len(out)
      <4>1. "name" \notin Closes(json)
        BY DEF Closes
      <4>2. i # Len(out)
        BY <2>2, <4>1
      <4>. QED  BY <1>2, <4>2
    <3>8. Says(out, i, item)
      BY <3>6, <3>7 DEF Told, Says
    <3>9. item.depth = Depth(json, out, i) + IF json THEN 0 ELSE 1
      BY <3>3, <3>6
    <3>. QED  BY <3>8, <3>9 DEF item, b
  <2>. QED  BY <1>1, <2>1, <2>2 DEF Tells
<1>. QED  BY <1>4, <1>5

\* A tree is one entry: WriteX prints all of it.
LEMMA WritesOne ==
  ASSUME NEW json \in BOOLEAN, NEW tree, IsTree(tree)
  PROVE  /\ WriteX(json, Data[tree]) = Braces(json, Entries(json, Data[tree]))
         /\ After(tree) = <<>> /\ Extent(tree) = Len(tree)
<1>. DEFINE data == Data[tree]
            v == Entries(json, data)
            out == WriteX(json, data)
<1>1. /\ tree \in Seq(Item) /\ tree # <<>> /\ IsForest(tree)
      /\ \A i \in 2 .. Len(tree) : tree[i].depth > 1
  BY DEF IsTree
<1>2. After(tree) = <<>> /\ Extent(tree) = Len(tree)
  <2>1. /\ Extent(tree) \in 1 .. Len(tree) /\ Len(tree) \in Nat
        /\ Extent(tree) < Len(tree) => tree[Extent(tree) + 1].depth = 1
    BY <1>1, ExtentFits DEF IsExtent
  <2>2. ~ (Extent(tree) < Len(tree))
    <3>. SUFFICES ASSUME Extent(tree) < Len(tree) PROVE FALSE
      OBVIOUS
    <3>1. Extent(tree) + 1 \in 2 .. Len(tree)
      BY <2>1
    <3>. QED  BY <1>1, <2>1, <3>1
  <2>3. After(tree) \in Seq(Item) /\ Len(After(tree)) = Len(tree) - Extent(tree)
    BY <1>1, Smaller
  <2>. QED  BY <2>1, <2>2, <2>3, EmptySeq
<1>3. /\ data \in Seq(Cell) /\ data # <<>> /\ ~ (data[1].n > Len(data) - 1)
      /\ SubSeq(data, 1, data[1].n + 1) = data
  <2>1. /\ data \in Seq(Cell) /\ data # <<>> /\ ~ (data[1].n > Len(data) - 1)
        /\ SubSeq(data, data[1].n + 2, Len(data)) = <<>>
    BY <1>1, <1>2, DataBegins, NoData
  <2>2. Len(data) \in Nat \ {0} /\ data[1] \in Cell
    BY <2>1, EmptySeq
  <2>. HIDE DEF data
  <2>3. data[1].n \in Nat
    BY <2>2 DEF Cell
  <2>4. data[1].n + 1 = Len(data)
    <3>. DEFINE n == data[1].n
    <3>1. n \in Nat /\ n + 1 <= Len(data)
      BY <2>1, <2>2, <2>3
    <3>2. \A i \in n + 2 .. Len(data) : data[i] \in Cell
      BY <2>1, <3>1
    <3>. HIDE DEF n
    <3>3. Len(SubSeq(data, n + 2, Len(data))) = IF n + 2 <= Len(data) THEN Len(data) - (n + 2) + 1 ELSE 0
      BY <2>2, <3>1, <3>2, SubSeqProperties
    <3>4. SubSeq(data, n + 2, Len(data)) = <<>>
      BY <2>1 DEF n
    <3>5. Len(SubSeq(data, n + 2, Len(data))) = 0
      <4>. DEFINE t == SubSeq(data, n + 2, Len(data))
      <4>1. t = <<>>
        BY <3>4
      <4>. HIDE DEF t
      <4>2. Len(t) = 0
        BY <4>1
      <4>. QED  BY <4>2 DEF t
    <3>6. n + 1 = Len(data)
      BY <2>2, <3>1, <3>3, <3>5
    <3>. QED  BY <3>6 DEF n
  <2>5. SubSeq(data, 1, Len(data)) = data
    BY <2>1
  <2>. QED  BY <2>1, <2>4, <2>5
<1>4. out = Braces(json, v)
  BY <1>3 DEF WriteX
<1>. QED  BY <1>2, <1>4

\* WriteX panics for no tree.
LEMMA WritesSound ==
  ASSUME NEW json \in BOOLEAN, NEW tree, IsTree(tree)
  PROVE  Sound(WriteX(json, Data[tree]))
<1>1. Sound(Entries(json, Data[tree]))
  BY EntriesSound DEF IsTree
<1>. QED  BY <1>1, WritesOne, SoundAround

\* WriteX tells a tree of entries that fit, and leaves nothing open.
LEMMA WritesTheTree ==
  ASSUME NEW json \in BOOLEAN, NEW tree, IsTree(tree), AllFit(json, tree)
  PROVE  LET out == WriteX(json, Data[tree])
         IN  out \in Seq(Printed) /\ out # <<>> /\ Readable(json, out) /\ Tells(json, out, tree)
<1>. DEFINE data == Data[tree]
            v == Entries(json, data)
            out == WriteX(json, data)
<1>1. /\ tree \in Seq(Item) /\ tree # <<>> /\ IsForest(tree)
      /\ \A i \in 2 .. Len(tree) : tree[i].depth > 1
  BY DEF IsTree
<1>2. After(tree) = <<>> /\ Extent(tree) = Len(tree)
  BY WritesOne
<1>4. out = Braces(json, v)
  BY WritesOne
<1>5. ForestTold(json, v, tree)
  BY <1>1, EntriesTold
<1>. HIDE DEF data, out
<1>6. EntryTold(json, v, tree) /\ Tale(json, v, tree, 0, 0, Len(tree), 0)
  BY <1>1, <1>2, <1>5 DEF ForestTold
<1>7. Len(tree) \in Int /\ v \in Seq(Printed)
  BY <1>1, <1>6 DEF Tale
<1>. HIDE DEF v
<1>8. CASE ~json
  <2>1. out = v
    BY <1>4, <1>8 DEF Braces
  <2>2. Kind(v[1]) \in Opens(json) /\ Kind(v[Len(v)]) \in Closes(json)
    BY <1>6, <1>8 DEF EntryTold, Lasts, Opens, Closes
  <2>3. 0 \in Int /\ 0 = IF json THEN 0 - 1 ELSE 0
    BY <1>8
  <2>4. v # <<>> /\ Balanced(json, v) /\ \A i \in 2 .. Len(v) : Depth(json, v, i) > 0
    BY <1>6, <1>8 DEF EntryTold
  <2>5. Readable(json, v) /\ Tells(json, v, tree)
    BY <1>1, <1>6, <2>2, <2>3, <2>4, TaleTells
  <2>. QED  BY <1>7, <2>1, <2>4, <2>5 DEF out, data
<1>9. CASE json
  <2>. DEFINE d == 0 - 1
  <2>1. d \in Int /\ 0 = d + 1 /\ 0 \in Int /\ d = IF json THEN 0 - 1 ELSE 0
    BY <1>9
  <2>. HIDE DEF d
  <2>2. Balanced(json, v) /\ (v # <<>> => Kind(v[1]) = "name" /\ Kind(v[Len(v)]) \in Lasts(json))
    BY <1>5 DEF ForestTold
  <2>3. Tale(json, out, tree, 0, d, Len(tree), d) /\ InBraces(json, out)
    <3>. DEFINE e == 0
                n == Len(tree)
    <3>1. e \in Int /\ n \in Int /\ 0 \in Int /\ d \in Int /\ e = d + 1
      BY <1>7, <2>1
    <3>2. Tale(json, v, tree, 0, e, n, e)
      BY <1>6
    <3>. HIDE DEF e, n
    <3>3. Tale(json, out, tree, 0, d, n, d) /\ InBraces(json, out)
      BY <1>4, <1>9, <2>2, <3>1, <3>2, BracesTold, Zenon
    <3>. QED  BY <3>3 DEF n
  <2>4. /\ Kind(out[1]) \in Opens(json) /\ Kind(out[Len(out)]) \in Closes(json) /\ out # <<>>
        /\ Balanced(json, out) /\ \A i \in 2 .. Len(out) : Depth(json, out, i) > 0
    BY <1>9, <2>3 DEF InBraces, Opens, Closes
  <2>5. Readable(json, out) /\ Tells(json, out, tree)
    BY <1>1, <2>1, <2>3, <2>4, TaleTells
  <2>6. out \in Seq(Printed)
    BY <2>3 DEF Tale
  <2>. QED  BY <2>4, <2>5, <2>6 DEF out, data
<1>. QED  BY <1>8, <1>9

\* String (dmap.go) prints the metadata of any tree, in both formats, without a
\* panic, whatever its strings, values and tags are: the loops of dmapPrintDict and
\* dmapWriteEntry end where the data does.
THEOREM PrintsWithoutPanic ==
  ASSUME NEW tree, IsTree(tree), NEW format \in {"xml", "json"}
  PROVE  ~Panics(String(format, Data[tree]))
<1>. DEFINE json == format = "json"
<1>1. json \in BOOLEAN /\ String(format, Data[tree]) = WriteX(json, Data[tree])
  BY DEF String
<1>. HIDE DEF json
<1>. QED  BY <1>1, WritesSound DEF Sound

\* String (dmap.go) prints the metadata of a tree as something that can be read and
\* that tells the tree, if its entries fit the format: no string has markup in it,
\* no value is one that is printed as none of the format, and no name one that is
\* not known and odd.
THEOREM PrintsTheTree ==
  ASSUME NEW tree, IsTree(tree), NEW format \in {"xml", "json"},
         AllFit(format = "json", tree)
  PROVE  LET out == String(format, Data[tree])
             json == format = "json"
         IN  out # <<>> /\ Readable(json, out) /\ Tells(json, out, tree)
<1>. DEFINE json == format = "json"
<1>1. json \in BOOLEAN
  OBVIOUS
<1>2. String(format, Data[tree]) = WriteX(json, Data[tree])
  BY DEF String
<1>. HIDE DEF json
<1>3. LET out == WriteX(json, Data[tree])
      IN  out # <<>> /\ Readable(json, out) /\ Tells(json, out, tree)
  BY <1>1, WritesTheTree DEF json
<1>. QED  BY <1>2, <1>3 DEF json

-----------------------------------------------------------------------------
(***************************************************************************)
(* What is told is one tree only                                           *)
(***************************************************************************)

\* Counting from the front, each name comes up.
LEMMA NameAt ==
  ASSUME NEW S, NEW out \in Seq(S), NEW K, NEW k \in Nat, k < Before(out, Len(out) + 1, K)
  PROVE  \E i \in DOMAIN out : Kind(out[i]) \in K /\ Before(out, i, K) = k
<1>. DEFINE A == {i \in 1 .. Len(out) + 1 : Before(out, i, K) > k}
<1>1. Len(out) \in Nat /\ DOMAIN out = 1 .. Len(out)
  OBVIOUS
<1>2. Len(out) + 1 \in A /\ A \in SUBSET Nat
  BY <1>1
<1>3. PICK m \in A : \A i \in A : m <= i
  BY <1>2, Least
<1>4. m \in 1 .. Len(out) + 1 /\ Before(out, m, K) > k
  OBVIOUS
<1>5. m # 1
  BY <1>4, BeforeFirst
<1>. DEFINE i == m - 1
<1>6. i \in 1 .. Len(out) /\ i \in Nat \ {0} /\ i + 1 = m /\ i \in 1 .. Len(out) + 1
  BY <1>1, <1>4, <1>5
<1>7. ~ (Before(out, i, K) > k)
  <2>1. i \notin A
    BY <1>3, <1>6
  <2>. QED  BY <1>6, <2>1
<1>. HIDE DEF i, A
<1>8. Before(out, i, K) \in Nat
  BY <1>6, BeforeType
<1>9. Before(out, i + 1, K) = Before(out, i, K) + IF Kind(out[i]) \in K THEN 1 ELSE 0
  BY <1>6, BeforeNext
<1>10. Kind(out[i]) \in K /\ Before(out, i, K) = k
  BY <1>4, <1>6, <1>7, <1>8, <1>9
<1>. QED  BY <1>1, <1>6, <1>10

\* Entries a reader cannot tell apart: their tags have one name, and their values
\* are printed alike.
SameEntry(a, b) ==
  /\ a.depth = b.depth /\ EntryName(a.tag) = EntryName(b.tag)
  /\ ~Holds(a) => Value(a.tag, Bytes(a.content)) = Value(b.tag, Bytes(b.content))

SameTree(t, u) == Len(t) = Len(u) /\ \A i \in 1 .. Len(t) : SameEntry(t[i], u[i])

\* Tags of one name have one printer.
LEMMA NamesakesPrintAlike ==
  ASSUME NEW a, NEW b, EntryName(a) = EntryName(b)
  PROVE  Printer(a) = Printer(b)
<1>1. Printer("aeCs") = Printer("aeCS")
  BY DEF Printer, Known, EntryMap
<1>2. a = b \/ {a, b} = {"aeCs", "aeCS"}
  BY DEF EntryName
<1>. QED  BY <1>1, <1>2

\* An output tells one tree.
LEMMA TellsOneTree ==
  ASSUME NEW json \in BOOLEAN, NEW S, NEW out \in Seq(S),
         NEW t \in Seq(Item), NEW u \in Seq(Item), Tells(json, out, t), Tells(json, out, u)
  PROVE  SameTree(t, u)
<1>. DEFINE K == {"name"}
            D(i) == Depth(json, out, i) + IF json THEN 0 ELSE 1
<1>1. Before(out, Len(out) + 1, K) = Len(t) /\ Before(out, Len(out) + 1, K) = Len(u)
  BY DEF Tells
<1>2. ASSUME NEW i \in DOMAIN out, Kind(out[i]) \in K
      PROVE  /\ Says(out, i, t[Before(out, i, K) + 1]) /\ t[Before(out, i, K) + 1].depth = D(i)
             /\ Says(out, i, u[Before(out, i, K) + 1]) /\ u[Before(out, i, K) + 1].depth = D(i)
  BY <1>2, Zenon DEF Tells
<1>3. ASSUME NEW k \in 1 .. Len(t)
      PROVE  SameEntry(t[k], u[k])
  <2>1. k - 1 \in Nat /\ k - 1 < Before(out, Len(out) + 1, K)
    BY <1>1
  <2>2. PICK i \in DOMAIN out : Kind(out[i]) \in K /\ Before(out, i, K) = k - 1
    BY <2>1, NameAt
  <2>3. Before(out, i, K) + 1 = k
    BY <2>2
  <2>4. Says(out, i, t[k]) /\ t[k].depth = D(i) /\ Says(out, i, u[k]) /\ u[k].depth = D(i)
    BY <1>2, <2>2, <2>3
  <2>5. EntryName(t[k].tag) = EntryName(u[k].tag)
    BY <2>4 DEF Says, Name
  <2>6. ~Holds(t[k]) => Value(t[k].tag, Bytes(t[k].content)) = Value(u[k].tag, Bytes(u[k].content))
    <3>1. Holds(t[k]) <=> Holds(u[k])
      BY <2>5, NamesakesPrintAlike DEF Holds
    <3>. QED  BY <2>4, <3>1 DEF Says
  <2>. QED  BY <2>4, <2>5, <2>6 DEF SameEntry
<1>. QED  BY <1>1, <1>3 DEF SameTree

\* String (dmap.go) prints no two trees alike in either format, of entries that fit
\* it, unless they differ only in values that are printed alike and in tags of one
\* name.
THEOREM PrintsTreesApart ==
  ASSUME NEW t, NEW u, IsTree(t), IsTree(u), NEW format \in {"xml", "json"},
         AllFit(format = "json", t), AllFit(format = "json", u),
         String(format, Data[t]) = String(format, Data[u])
  PROVE  SameTree(t, u)
<1>. DEFINE out == String(format, Data[t])
            json == format = "json"
<1>1. t \in Seq(Item) /\ u \in Seq(Item) /\ json \in BOOLEAN /\ AllFit(json, t)
  BY DEF IsTree
<1>2. Tells(json, out, t) /\ Tells(json, out, u)
  BY PrintsTheTree
<1>3. out = WriteX(json, Data[t])
  BY DEF String
<1>4. out \in Seq(Printed)
  BY <1>1, <1>3, WritesTheTree
<1>. HIDE DEF out, json
<1>. QED  BY <1>1, <1>2, <1>4, TellsOneTree
=============================================================================
