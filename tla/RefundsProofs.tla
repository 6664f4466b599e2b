--------------------------- MODULE RefundsProofs ---------------------------
(***************************************************************************)
(* What Refunds promises about the money of one invoice, proved for every  *)
(* set of refunds, recipients, splits and amounts: the split loses nothing, *)
(* a refund is booked once and in full, a reversal cancels what its        *)
(* transaction brought, and an approval that saw the whole ledger gives    *)
(* back no more than is there.                                             *)
(***************************************************************************)
EXTENDS Refunds, FiniteSetTheorems, FunctionTheorems, SequenceTheorems,
        WellFoundedInduction, TLAPS

-----------------------------------------------------------------------------
(* Sums over finite sets.  The sum of the community modules is a fold by a  *)
(* recursive function; what follows makes it an ordinary sum.               *)

\* Induction on numbers.
LEMMA NumbersInduction ==
  ASSUME NEW Good, 0 \in Good, \A n \in Nat : n \in Good => n + 1 \in Good
  PROVE  Nat \subseteq Good
<1> SUFFICES ASSUME Nat \ Good # {} PROVE FALSE
  OBVIOUS
<1> DEFINE R == OpToRel(<, Nat)
           Bad == Nat \ Good
<1>1. PICK n \in Bad : \A m \in Bad : <<m, n>> \notin R
  <2>1. IsWellFoundedOn(R, Nat)
    BY NatLessThanWellFounded
  <2>2. Bad \subseteq Nat /\ Bad # {}
    OBVIOUS
  <2> HIDE DEF R, Bad
  <2> QED
    BY <2>1, <2>2, WFMin
<1>2. n \in Nat /\ n # 0 /\ n - 1 \in Nat
  OBVIOUS
<1>3. n - 1 \notin Good
  BY <1>2
<1>4. <<n - 1, n>> \in R
  BY <1>2 DEF OpToRel
<1> QED
  BY <1>1, <1>2, <1>3, <1>4

\* Induction on the subsets of a finite set: a set is good when it is good without any one
\* of its elements.
LEMMA SubsetsInduction ==
  ASSUME NEW D, IsFiniteSet(D), NEW Good,
         \A T \in SUBSET D : (\A x \in T : T \ {x} \in Good) => T \in Good
  PROVE  \A T \in SUBSET D : T \in Good
<1> SUFFICES ASSUME (SUBSET D) \ Good # {} PROVE FALSE
  OBVIOUS
<1> DEFINE R == StrictSubsetOrdering(D)
           Bad == (SUBSET D) \ Good
<1>1. PICK T \in Bad : \A U \in Bad : <<U, T>> \notin R
  <2>1. IsWellFoundedOn(R, FiniteSubsetsOf(D))
    BY FS_StrictSubsetOrderingWellFounded
  <2>2. Bad \subseteq FiniteSubsetsOf(D) /\ Bad # {}
    BY FS_Subset DEF FiniteSubsetsOf
  <2> HIDE DEF R, Bad
  <2> QED
    BY <2>1, <2>2, WFMin
<1>2. PICK x \in T : T \ {x} \notin Good
  BY <1>1
<1>3. T \ {x} \in Bad /\ <<T \ {x}, T>> \in R
  BY <1>1, <1>2 DEF StrictSubsetOrdering
<1> QED
  BY <1>1, <1>3

\* The element a sum takes first, and the sums of the subsets of D, each by the one without
\* its first element.
First(s) == CHOOSE x \in s : TRUE
Unfolds(f, D, it) ==
  it = [s \in SUBSET D |-> IF s = {} THEN 0 ELSE f[First(s)] + it[s \ {First(s)}]]
Sums(f, D) == CHOOSE it : Unfolds(f, D, it)

\* The library's sum is the last of them.
LEMMA SumIsSums ==
  ASSUME NEW f, NEW D
  PROVE  SumFunctionOnSet(f, D) = Sums(f, D)[D]
BY Zenon DEF SumFunctionOnSet, FoldFunctionOnSet, MapThenFoldSet, Sums, Unfolds, First

\* The element taken first is one.
LEMMA FirstIsIn == ASSUME NEW s, s # {} PROVE First(s) \in s
BY DEF First

\* These sums exist: they do up to every number of elements.
LEMMA SumsUnfold ==
  ASSUME NEW f, NEW D, IsFiniteSet(D)
  PROVE  Unfolds(f, D, Sums(f, D))
<1> DEFINE Body(it, s) == IF s = {} THEN 0 ELSE f[First(s)] + it[s \ {First(s)}]
           UpTo(it, n) == \A s \in SUBSET D : Cardinality(s) <= n => it[s] = Body(it, s)
           Good == {n \in Nat : \E it : UpTo(it, n)}
<1>1. \A s \in SUBSET D : /\ IsFiniteSet(s) /\ Cardinality(s) \in Nat
                          /\ Cardinality(s) <= Cardinality(D)
                          /\ (Cardinality(s) = 0 => s = {})
  BY FS_Subset, FS_CardinalityType, FS_EmptySet
<1>2. 0 \in Good
  <2> DEFINE zero == [s \in SUBSET D |-> 0]
  <2>1. UpTo(zero, 0)
    BY <1>1
  <2> QED
    BY <2>1
<1>3. ASSUME NEW n \in Nat, n \in Good
      PROVE  n + 1 \in Good
  <2>1. PICK it : UpTo(it, n)
    BY <1>3
  <2> DEFINE next == [s \in SUBSET D |-> Body(it, s)]
  <2>2. ASSUME NEW s \in SUBSET D, Cardinality(s) <= n + 1
        PROVE  next[s] = Body(next, s)
    <3>1. CASE s = {}
      BY <3>1
    <3>2. CASE s # {}
      <4> DEFINE t == s \ {First(s)}
      <4>1. First(s) \in s
        BY <3>2, FirstIsIn
      <4>2. t \in SUBSET D /\ Cardinality(t) <= n
        BY <1>1, <2>2, <4>1, FS_RemoveElement
      <4>3. it[t] = Body(it, t)
        BY <2>1, <4>2
      <4>4. next[t] = Body(it, t) /\ next[s] = Body(it, s)
        BY <4>2
      <4> HIDE DEF next
      <4> QED
        BY <3>2, <4>3, <4>4
    <3> QED
      BY <3>1, <3>2
  <2>3. UpTo(next, n + 1)
    BY <2>2
  <2> HIDE DEF UpTo
  <2> QED
    BY <2>3
<1>4. Cardinality(D) \in Good
  <2> HIDE DEF Good
  <2>1. Nat \subseteq Good
    BY <1>2, <1>3, NumbersInduction
  <2> QED
    BY <1>1, <2>1
<1>5. PICK it : UpTo(it, Cardinality(D))
  BY <1>4
<1>6. \A s \in SUBSET D : it[s] = Body(it, s)
  BY <1>1, <1>5
<1>7. Unfolds(f, D, [s \in SUBSET D |-> it[s]])
  <2> DEFINE all == [s \in SUBSET D |-> it[s]]
  <2>1. \A s \in SUBSET D : s \ {First(s)} \in SUBSET D
    OBVIOUS
  <2>2. \A s \in SUBSET D : it[s] = Body(all, s)
    BY <1>6, <2>1
  <2>3. all = [s \in SUBSET D |-> Body(all, s)]
    BY <2>2
  <2> QED
    BY <2>3 DEF Unfolds
<1> QED
  BY <1>7 DEF Sums

\* What is added up does not depend on the set the sums were taken in, only on the values.
LEMMA SumsAgree ==
  ASSUME NEW f, NEW g, NEW D, IsFiniteSet(D), NEW E \in SUBSET D, \A x \in E : f[x] = g[x]
  PROVE  \A s \in SUBSET E : Sums(f, E)[s] = Sums(g, D)[s]
<1> DEFINE Good == {s \in SUBSET E : Sums(f, E)[s] = Sums(g, D)[s]}
<1>1. IsFiniteSet(E)
  BY FS_Subset
<1>2. Unfolds(f, E, Sums(f, E)) /\ Unfolds(g, D, Sums(g, D))
  BY <1>1, SumsUnfold
<1>3. ASSUME NEW s \in SUBSET E, \A x \in s : s \ {x} \in Good
      PROVE  s \in Good
  <2>1. CASE s = {}
    BY <1>2, <2>1 DEF Unfolds
  <2>2. CASE s # {}
    <3>1. First(s) \in s /\ First(s) \in E
      BY <2>2, FirstIsIn
    <3>2. Sums(f, E)[s \ {First(s)}] = Sums(g, D)[s \ {First(s)}]
      BY <1>3, <3>1
    <3>3. /\ Sums(f, E)[s] = f[First(s)] + Sums(f, E)[s \ {First(s)}]
          /\ Sums(g, D)[s] = g[First(s)] + Sums(g, D)[s \ {First(s)}]
      BY <1>2, <2>2 DEF Unfolds
    <3> QED
      BY <3>1, <3>2, <3>3
  <2> QED
    BY <2>1, <2>2
<1>4. \A s \in SUBSET E : s \in Good
  <2> HIDE DEF Good
  <2> QED
    BY <1>1, <1>3, SubsetsInduction
<1> QED
  BY <1>4

\* The same values have the same sum.
LEMMA SumOfSame ==
  ASSUME NEW f, NEW g, NEW D, IsFiniteSet(D), \A x \in D : f[x] = g[x]
  PROVE  SumFunctionOnSet(f, D) = SumFunctionOnSet(g, D)
<1>1. Sums(f, D)[D] = Sums(g, D)[D]
  BY SumsAgree
<1> QED
  BY <1>1, SumIsSums

\* Nothing adds up to nothing.
LEMMA SumOfNone ==
  ASSUME NEW f
  PROVE  SumFunctionOnSet(f, {}) = 0
<1>1. Unfolds(f, {}, Sums(f, {}))
  BY SumsUnfold, FS_EmptySet
<1>2. Sums(f, {})[{}] = 0
  BY <1>1 DEF Unfolds
<1> QED
  BY <1>2, SumIsSums

\* One element and the rest, for the element taken first.
LEMMA SumTakesFirst ==
  ASSUME NEW f, NEW D, IsFiniteSet(D), D # {}
  PROVE  /\ First(D) \in D
         /\ SumFunctionOnSet(f, D) = f[First(D)] + SumFunctionOnSet(f, D \ {First(D)})
<1> DEFINE E == D \ {First(D)}
<1>1. Sums(f, D)[D] = f[First(D)] + Sums(f, D)[E]
  <2>1. Unfolds(f, D, Sums(f, D))
    BY SumsUnfold
  <2> QED
    BY <2>1 DEF Unfolds
<1>2. Sums(f, E)[E] = Sums(f, D)[E]
  BY SumsAgree
<1> QED
  BY <1>1, <1>2, SumIsSums, FirstIsIn

\* A sum of integers is one.
LEMMA SumIsInt ==
  ASSUME NEW f, NEW D, IsFiniteSet(D), \A x \in D : f[x] \in Int
  PROVE  SumFunctionOnSet(f, D) \in Int
<1> DEFINE Good == {s \in SUBSET D : SumFunctionOnSet(f, s) \in Int}
<1>1. ASSUME NEW s \in SUBSET D, \A x \in s : s \ {x} \in Good
      PROVE  s \in Good
  <2>1. CASE s = {}
    BY <2>1, SumOfNone
  <2>2. CASE s # {}
    <3>1. /\ First(s) \in s
          /\ SumFunctionOnSet(f, s) = f[First(s)] + SumFunctionOnSet(f, s \ {First(s)})
      BY <2>2, SumTakesFirst, FS_Subset
    <3>2. f[First(s)] \in Int /\ SumFunctionOnSet(f, s \ {First(s)}) \in Int
      BY <1>1, <3>1
    <3> QED
      BY <3>1, <3>2
  <2> QED
    BY <2>1, <2>2
<1>2. \A s \in SUBSET D : s \in Good
  <2> HIDE DEF Good
  <2> QED
    BY <1>1, SubsetsInduction
<1> QED
  BY <1>2

\* One element and the rest, whichever element.
LEMMA SumTakes ==
  ASSUME NEW f, NEW D, IsFiniteSet(D), \A x \in D : f[x] \in Int, NEW y \in D
  PROVE  SumFunctionOnSet(f, D) = f[y] + SumFunctionOnSet(f, D \ {y})
<1> DEFINE Good == {s \in SUBSET D : \A x \in s :
                      SumFunctionOnSet(f, s) = f[x] + SumFunctionOnSet(f, s \ {x})}
<1>1. ASSUME NEW s \in SUBSET D, \A x \in s : s \ {x} \in Good
      PROVE  s \in Good
  <2> SUFFICES ASSUME NEW x \in s
               PROVE  SumFunctionOnSet(f, s) = f[x] + SumFunctionOnSet(f, s \ {x})
    OBVIOUS
  <2> DEFINE z == First(s)
             rest == (s \ {x}) \ {z}
  <2>1. z \in s /\ SumFunctionOnSet(f, s) = f[z] + SumFunctionOnSet(f, s \ {z})
    BY SumTakesFirst, FS_Subset
  <2>2. CASE x = z
    BY <2>1, <2>2
  <2>3. CASE x # z
    <3>1. SumFunctionOnSet(f, s \ {z}) = f[x] + SumFunctionOnSet(f, (s \ {z}) \ {x})
      BY <1>1, <2>1, <2>3
    <3>2. SumFunctionOnSet(f, s \ {x}) = f[z] + SumFunctionOnSet(f, rest)
      BY <1>1, <2>1, <2>3
    <3>3. (s \ {z}) \ {x} = rest
      OBVIOUS
    <3>4. SumFunctionOnSet(f, rest) \in Int /\ f[x] \in Int /\ f[z] \in Int
      BY <2>1, SumIsInt, FS_Subset
    <3> DEFINE r == SumFunctionOnSet(f, rest)
    <3>5. SumFunctionOnSet(f, s) = f[z] + (f[x] + r)
      BY <2>1, <3>1, <3>3
    <3>6. SumFunctionOnSet(f, s \ {x}) = f[z] + r
      BY <3>2
    <3>7. r \in Int
      BY <3>4
    <3> HIDE DEF r, rest, z
    <3> QED
      BY <3>4, <3>5, <3>6, <3>7
  <2> QED
    BY <2>2, <2>3
<1>2. \A s \in SUBSET D : s \in Good
  <2> HIDE DEF Good
  <2> QED
    BY <1>1, SubsetsInduction
<1> QED
  BY <1>2

\* Two sets apart add up to their union.
LEMMA SumOfUnion ==
  ASSUME NEW f, NEW S, NEW T, IsFiniteSet(S), IsFiniteSet(T), S \cap T = {},
         \A x \in S \cup T : f[x] \in Int
  PROVE  SumFunctionOnSet(f, S \cup T) = SumFunctionOnSet(f, S) + SumFunctionOnSet(f, T)
<1> DEFINE Good == {U \in SUBSET T : SumFunctionOnSet(f, S \cup U)
                                       = SumFunctionOnSet(f, S) + SumFunctionOnSet(f, U)}
<1>1. ASSUME NEW U \in SUBSET T, \A x \in U : U \ {x} \in Good
      PROVE  U \in Good
  <2>0. SumFunctionOnSet(f, S) \in Int
    BY SumIsInt
  <2>1. CASE U = {}
    <3>1. S \cup U = S
      BY <2>1
    <3> QED
      BY <2>0, <2>1, <3>1, SumOfNone
  <2>2. CASE U # {}
    <3>1. PICK x \in U : TRUE
      BY <2>2
    <3>2. IsFiniteSet(U) /\ IsFiniteSet(S \cup U) /\ IsFiniteSet(U \ {x})
      BY FS_Subset, FS_Union
    <3>3. SumFunctionOnSet(f, U) = f[x] + SumFunctionOnSet(f, U \ {x})
      BY <3>2, SumTakes
    <3>4. SumFunctionOnSet(f, S \cup U) = f[x] + SumFunctionOnSet(f, (S \cup U) \ {x})
      BY <3>2, SumTakes
    <3>5. (S \cup U) \ {x} = S \cup (U \ {x})
      BY <3>1
    <3>6. SumFunctionOnSet(f, S \cup (U \ {x}))
            = SumFunctionOnSet(f, S) + SumFunctionOnSet(f, U \ {x})
      BY <1>1
    <3> DEFINE r == SumFunctionOnSet(f, U \ {x})
               n == SumFunctionOnSet(f, S)
    <3>7. r \in Int /\ f[x] \in Int /\ n \in Int
      BY <2>0, <3>2, SumIsInt
    <3>8. SumFunctionOnSet(f, S \cup U) = f[x] + (n + r)
      BY <3>4, <3>5, <3>6
    <3>9. SumFunctionOnSet(f, U) = f[x] + r
      BY <3>3
    <3> HIDE DEF r, n
    <3>10. f[x] + (n + r) = n + (f[x] + r)
      BY <3>7
    <3>11. SumFunctionOnSet(f, S \cup U) = n + SumFunctionOnSet(f, U)
      BY <3>8, <3>9, <3>10
    <3> QED
      BY <3>11 DEF n
  <2> QED
    BY <2>1, <2>2
<1>2. \A U \in SUBSET T : U \in Good
  <2> HIDE DEF Good
  <2> QED
    BY <1>1, SubsetsInduction
<1> QED
  BY <1>2

\* Zeros add up to nothing.
LEMMA SumOfZeros ==
  ASSUME NEW f, NEW D, IsFiniteSet(D), \A x \in D : f[x] = 0
  PROVE  SumFunctionOnSet(f, D) = 0
<1> DEFINE Good == {s \in SUBSET D : SumFunctionOnSet(f, s) = 0}
<1>1. ASSUME NEW s \in SUBSET D, \A x \in s : s \ {x} \in Good
      PROVE  s \in Good
  <2>1. CASE s = {}
    BY <2>1, SumOfNone
  <2>2. CASE s # {}
    <3>1. /\ First(s) \in s
          /\ SumFunctionOnSet(f, s) = f[First(s)] + SumFunctionOnSet(f, s \ {First(s)})
      BY <2>2, SumTakesFirst, FS_Subset
    <3> QED
      BY <1>1, <3>1
  <2> QED
    BY <2>1, <2>2
<1>2. \A s \in SUBSET D : s \in Good
  <2> HIDE DEF Good
  <2> QED
    BY <1>1, SubsetsInduction
<1> QED
  BY <1>2

\* Values matched one to one with their opposites cancel out.
LEMMA SumOfOpposites ==
  ASSUME NEW f, NEW g, NEW S, NEW T, IsFiniteSet(S), NEW b \in [S -> T],
         \A x, y \in S : b[x] = b[y] => x = y,
         \A t \in T : \E x \in S : b[x] = t,
         \A x \in S : f[x] \in Int /\ g[b[x]] = - f[x]
  PROVE  SumFunctionOnSet(f, S) + SumFunctionOnSet(g, T) = 0
<1> DEFINE Image(U) == {b[x] : x \in U}
           Good == {U \in SUBSET S :
                      SumFunctionOnSet(f, U) + SumFunctionOnSet(g, Image(U)) = 0}
<1>1. ASSUME NEW U \in SUBSET S, \A x \in U : U \ {x} \in Good
      PROVE  U \in Good
  <2>1. CASE U = {}
    <3>1. Image(U) = {}
      BY <2>1
    <3>2. SumFunctionOnSet(f, U) = 0
      BY <2>1, SumOfNone
    <3>3. SumFunctionOnSet(g, Image(U)) = 0
      BY <3>1, SumOfNone
    <3>4. SumFunctionOnSet(f, U) + SumFunctionOnSet(g, Image(U)) = 0
      BY <3>2, <3>3
    <3> QED
      BY <3>4
  <2>2. CASE U # {}
    <3>1. PICK x \in U : TRUE
      BY <2>2
    <3>2. IsFiniteSet(U) /\ IsFiniteSet(Image(U))
      <4>1. [y \in U |-> b[y]] \in Surjection(U, Image(U))
        BY Fun_IsSurj
      <4> QED
        BY <4>1, FS_Subset, FS_Surjection
    <3>3. SumFunctionOnSet(f, U) = f[x] + SumFunctionOnSet(f, U \ {x})
      BY <3>2, SumTakes
    <3>4. \A t \in Image(U) : g[t] \in Int
      OBVIOUS
    <3>5. SumFunctionOnSet(g, Image(U)) = g[b[x]] + SumFunctionOnSet(g, Image(U) \ {b[x]})
      BY <3>2, <3>4, SumTakes
    <3>6. Image(U) \ {b[x]} = Image(U \ {x})
      OBVIOUS
    <3>7. SumFunctionOnSet(f, U \ {x}) + SumFunctionOnSet(g, Image(U \ {x})) = 0
      BY <1>1
    <3>8. SumFunctionOnSet(f, U \ {x}) \in Int
      BY SumIsInt, FS_Subset
    <3>9. SumFunctionOnSet(g, Image(U) \ {b[x]}) \in Int
      BY <3>2, <3>4, SumIsInt, FS_Subset
    <3>10. f[x] \in Int /\ g[b[x]] = - f[x]
      OBVIOUS
    <3> DEFINE p == SumFunctionOnSet(f, U \ {x})
               q == SumFunctionOnSet(g, Image(U \ {x}))
    <3>11. p \in Int /\ q \in Int /\ p + q = 0
      BY <3>6, <3>7, <3>8, <3>9
    <3>12. SumFunctionOnSet(f, U) = f[x] + p /\ SumFunctionOnSet(g, Image(U)) = - f[x] + q
      BY <3>3, <3>5, <3>6, <3>10
    <3> HIDE DEF Image, p, q
    <3>13. (f[x] + p) + (- f[x] + q) = 0
      BY <3>10, <3>11
    <3>14. SumFunctionOnSet(f, U) + SumFunctionOnSet(g, Image(U)) = 0
      BY <3>12, <3>13
    <3> QED
      BY <3>14
  <2> QED
    BY <2>1, <2>2
<1>2. \A U \in SUBSET S : U \in Good
  <2> HIDE DEF Good
  <2> QED
    BY <1>1, SubsetsInduction
<1>3. Image(S) = T
  OBVIOUS
<1> QED
  BY <1>2, <1>3
-----------------------------------------------------------------------------
(* Rows of the ledger.                                                      *)

\* A set listed: every element once.
LEMMA SetToSeqLists ==
  ASSUME NEW D, IsFiniteSet(D)
  PROVE  /\ SetToSeq(D) \in Seq(D)
         /\ \A i, j \in DOMAIN SetToSeq(D) : SetToSeq(D)[i] = SetToSeq(D)[j] => i = j
         /\ \A x \in D : \E i \in DOMAIN SetToSeq(D) : SetToSeq(D)[i] = x
<1> DEFINE n == Cardinality(D)
           list == SetToSeq(D)
<1>1. n \in Nat /\ ExistsBijection(1 .. n, D)
  BY FS_CardinalityType
<1>2. PICK f \in Bijection(1 .. n, D) : TRUE
  BY <1>1, Fun_ExistsBij
<1>3. f \in [1 .. n -> D] /\ IsInjective(f)
  BY <1>2, Fun_IsBij DEF Bijection, Injection, IsInjective
<1>4. list \in [1 .. n -> D] /\ IsInjective(list)
  BY <1>3 DEF SetToSeq
<1>5. list \in Seq(D)
  BY <1>1, <1>4
<1>6. \A i, j \in 1 .. n : list[i] = list[j] => i = j
  BY <1>4 DEF IsInjective
<1>7. \A x \in D : \E i \in 1 .. n : list[i] = x
  <2> DEFINE image == {list[i] : i \in 1 .. n}
  <2>1. list \in Bijection(1 .. n, image)
    <3>1. list \in [1 .. n -> image]
      BY <1>4
    <3> QED
      BY <3>1, <1>6, Fun_IsBij
  <2>2. IsFiniteSet(1 .. n) /\ Cardinality(1 .. n) = n
    BY <1>1, FS_Interval
  <2>3. ExistsBijection(1 .. n, image)
    BY <2>1, Fun_ExistsBij
  <2>4. Cardinality(image) = n
    BY <2>2, <2>3, FS_Bijection
  <2>5. image \subseteq D
    BY <1>4
  <2>6. image = D
    BY <2>4, <2>5, FS_Subset
  <2> QED
    BY <2>6
<1> QED
  BY <1>4, <1>5, <1>6, <1>7

\* A row says an integer amount, of somebody, and is of one of three kinds.
LEMMA RowFields ==
  ASSUME NEW row \in LedgerRow
  PROVE  /\ row.entry_type \in {"payment", "correction", "refund"}
         /\ row.refund \in Refunds \cup {NoRefund}
         /\ row.recipient \in Parties
         /\ row.amount \in Int
BY DEF LedgerRow

\* What stands at some positions is an integer.
LEMMA BookedIsInt ==
  ASSUME NEW rows \in Seq(LedgerRow), NEW S \in SUBSET (DOMAIN rows)
  PROVE  IsFiniteSet(S) /\ Booked(rows, S) \in Int
<1> DEFINE f == [i \in DOMAIN rows |-> rows[i].amount]
<1>1. DOMAIN rows = 1 .. Len(rows) /\ Len(rows) \in Nat
  OBVIOUS
<1>2. IsFiniteSet(S)
  <2>1. IsFiniteSet(1 .. Len(rows))
    BY <1>1, FS_Interval
  <2> QED
    BY <1>1, <2>1, FS_Subset
<1>3. \A i \in S : f[i] \in Int
  <2>1. \A i \in S : rows[i] \in LedgerRow
    OBVIOUS
  <2> QED
    BY <2>1, RowFields
<1> HIDE DEF f
<1>4. SumFunctionOnSet(f, S) \in Int
  BY <1>2, <1>3, SumIsInt
<1> QED
  BY <1>2, <1>4 DEF f, Booked

\* Two parts of the ledger add up to both.
LEMMA BookedTogether ==
  ASSUME NEW rows \in Seq(LedgerRow), NEW S \in SUBSET (DOMAIN rows),
         NEW T \in SUBSET (DOMAIN rows), S \cap T = {}
  PROVE  Booked(rows, S \cup T) = Booked(rows, S) + Booked(rows, T)
<1> DEFINE f == [i \in DOMAIN rows |-> rows[i].amount]
<1>1. IsFiniteSet(S) /\ IsFiniteSet(T)
  BY BookedIsInt
<1>2. \A i \in S \cup T : f[i] \in Int
  <2>1. \A i \in S \cup T : rows[i] \in LedgerRow
    OBVIOUS
  <2> QED
    BY <2>1, RowFields
<1> HIDE DEF f
<1>3. SumFunctionOnSet(f, S \cup T) = SumFunctionOnSet(f, S) + SumFunctionOnSet(f, T)
  BY <1>1, <1>2, SumOfUnion
<1> QED
  BY <1>3 DEF f, Booked

\* New rows leave the old ones where and what they are.
LEMMA AppendedRows ==
  ASSUME NEW rows \in Seq(LedgerRow), NEW more \in Seq(LedgerRow)
  PROVE  /\ rows \o more \in Seq(LedgerRow)
         /\ Len(rows \o more) = Len(rows) + Len(more)
         /\ DOMAIN rows \subseteq DOMAIN (rows \o more)
         /\ \A i \in DOMAIN rows : (rows \o more)[i] = rows[i]
         /\ \A i \in DOMAIN (rows \o more) \ DOMAIN rows :
              i - Len(rows) \in DOMAIN more /\ (rows \o more)[i] = more[i - Len(rows)]
         /\ \A S \in SUBSET (DOMAIN rows) : Booked(rows \o more, S) = Booked(rows, S)
<1> DEFINE all == rows \o more
           f == [i \in DOMAIN rows |-> rows[i].amount]
           g == [i \in DOMAIN all |-> all[i].amount]
<1>1. all \in Seq(LedgerRow) /\ Len(all) = Len(rows) + Len(more)
  OBVIOUS
<1>2. /\ DOMAIN rows = 1 .. Len(rows) /\ DOMAIN more = 1 .. Len(more)
      /\ DOMAIN all = 1 .. Len(all)
      /\ Len(rows) \in Nat /\ Len(more) \in Nat
  BY <1>1
<1>3. \A i \in DOMAIN rows : i \in DOMAIN all /\ all[i] = rows[i]
  BY <1>1, <1>2
<1>4. \A i \in DOMAIN all \ DOMAIN rows :
        i - Len(rows) \in DOMAIN more /\ all[i] = more[i - Len(rows)]
  BY <1>1, <1>2
<1>5. ASSUME NEW S \in SUBSET (DOMAIN rows)
      PROVE  Booked(all, S) = Booked(rows, S)
  <2>1. IsFiniteSet(S)
    BY BookedIsInt
  <2>2. \A i \in S : g[i] = f[i]
    BY <1>3
  <2> HIDE DEF f, g, all
  <2>3. SumFunctionOnSet(g, S) = SumFunctionOnSet(f, S)
    BY <2>1, <2>2, SumOfSame
  <2> QED
    BY <2>3 DEF f, g, Booked
<1> HIDE DEF all
<1> QED
  BY <1>1, <1>3, <1>4, <1>5 DEF all

\* Rows listed from a set, each the opposite of what g says of its element: on any part of
\* the set they cancel g out.
LEMMA OppositeRows ==
  ASSUME NEW rows \in Seq(LedgerRow), NEW more \in Seq(LedgerRow),
         NEW D, IsFiniteSet(D), DOMAIN more = DOMAIN SetToSeq(D),
         NEW g, \A n \in DOMAIN more : g[SetToSeq(D)[n]] = - more[n].amount,
         NEW T \in SUBSET D
  PROVE  Booked(rows \o more, {i \in DOMAIN (rows \o more) \ DOMAIN rows :
                                 SetToSeq(D)[i - Len(rows)] \in T})
           + SumFunctionOnSet(g, T) = 0
<1> DEFINE all == rows \o more
           list == SetToSeq(D)
           S == {i \in DOMAIN all \ DOMAIN rows : list[i - Len(rows)] \in T}
           f == [i \in DOMAIN all |-> all[i].amount]
           b == [i \in S |-> list[i - Len(rows)]]
<1>1. /\ all \in Seq(LedgerRow)
      /\ \A i \in DOMAIN all \ DOMAIN rows :
           i - Len(rows) \in DOMAIN more /\ all[i] = more[i - Len(rows)]
  BY AppendedRows
<1>2. /\ DOMAIN rows = 1 .. Len(rows) /\ DOMAIN more = 1 .. Len(more)
      /\ DOMAIN all = 1 .. Len(rows) + Len(more)
      /\ Len(rows) \in Nat /\ Len(more) \in Nat
  BY AppendedRows, <1>1
<1>3. IsFiniteSet(S)
  BY <1>1, BookedIsInt
<1>4. /\ \A i, j \in DOMAIN more : list[i] = list[j] => i = j
      /\ \A x \in D : \E i \in DOMAIN more : list[i] = x
  BY SetToSeqLists
<1> HIDE DEF list, all
<1>5. b \in [S -> T]
  OBVIOUS
<1>6. ASSUME NEW x \in S, NEW y \in S, b[x] = b[y]
      PROVE  x = y
  <2>1. x - Len(rows) = y - Len(rows)
    BY <1>1, <1>4, <1>6
  <2>2. x \in Int /\ y \in Int
    BY <1>2
  <2> QED
    BY <1>2, <2>1, <2>2
<1>7. ASSUME NEW t \in T
      PROVE  \E x \in S : b[x] = t
  <2>1. PICK i \in DOMAIN more : list[i] = t
    BY <1>4
  <2>2. /\ i + Len(rows) \in DOMAIN all \ DOMAIN rows
        /\ (i + Len(rows)) - Len(rows) = i
    BY <1>2
  <2>3. i + Len(rows) \in S
    BY <2>1, <2>2
  <2> QED
    BY <2>1, <2>2, <2>3
<1>8. ASSUME NEW x \in S
      PROVE  f[x] \in Int /\ g[b[x]] = - f[x]
  <2>1. x - Len(rows) \in DOMAIN more /\ all[x] = more[x - Len(rows)]
    BY <1>1
  <2>2. more[x - Len(rows)].amount \in Int
    <3>1. more[x - Len(rows)] \in LedgerRow
      BY <2>1
    <3> QED
      BY <3>1, RowFields
  <2>3. b[x] = list[x - Len(rows)] /\ f[x] = all[x].amount
    OBVIOUS
  <2>4. g[list[x - Len(rows)]] = - more[x - Len(rows)].amount
    BY <2>1 DEF list
  <2> QED
    BY <2>1, <2>2, <2>3, <2>4
<1> HIDE DEF S, f, b
<1>9. SumFunctionOnSet(f, S) + SumFunctionOnSet(g, T) = 0
  BY <1>3, <1>5, <1>6, <1>7, <1>8, SumOfOpposites
<1> QED
  BY <1>9 DEF f, S, list, all, Booked

-----------------------------------------------------------------------------
(* The split of a payment.                                                  *)

Share == [recipient : Parties, amount : Int]

\* Every rule takes a whole number of tiyin, zero or more, for one of the recipients.
LEMMA PartIsNatural ==
  ASSUME NEW amount \in Nat, NEW rule \in Rule
  PROVE  Part(amount, rule) \in Nat /\ rule.recipient \in Parties
<1>1. CASE rule \in [kind : {"percent"}, recipient : Recipients, percent : 1 .. HUNDRED]
  <2>1. rule.kind = "percent" /\ rule.recipient \in Recipients /\ rule.percent \in Nat
    <3>1. /\ rule.kind = "percent" /\ rule.recipient \in Recipients
          /\ rule.percent \in 1 .. HUNDRED
      BY <1>1
    <3>2. HUNDRED \in Nat
      BY DEF HUNDRED
    <3>3. \A x \in 1 .. HUNDRED : x \in Nat
      BY <3>2
    <3> QED
      BY <3>1, <3>3
  <2> DEFINE x == amount * rule.percent
  <2>2. x \in Nat
    BY <2>1
  <2>3. Part(amount, rule) = x \div HUNDRED
    BY <2>1 DEF Part
  <2> HIDE DEF x
  <2>4. x \div HUNDRED \in Nat
    BY <2>2 DEF HUNDRED
  <2> QED
    BY <2>1, <2>3, <2>4 DEF Parties
<1>2. CASE rule \in [kind : {"fixed"}, recipient : Recipients, fixed_amount : Nat \ {0}]
  <2>1. /\ rule.kind = "fixed" /\ rule.recipient \in Recipients
        /\ rule.fixed_amount \in Nat
    BY <1>2
  <2>2. Part(amount, rule) = IF amount = 0 THEN 0 ELSE rule.fixed_amount
    BY <2>1 DEF Part
  <2> QED
    BY <2>1, <2>2 DEF Parties
<1> QED
  BY <1>1, <1>2 DEF Rule

\* The configured shares: one per rule, none below zero.
LEMMA SharesConfigured ==
  ASSUME NEW amount \in Nat, NEW split \in Seq(Rule)
  PROVE  /\ ConfiguredShares(amount, split) \in Seq(Share)
         /\ \A i \in DOMAIN ConfiguredShares(amount, split) :
              ConfiguredShares(amount, split)[i].amount >= 0
         /\ Total(ConfiguredShares(amount, split)) \in Int
<1> DEFINE shares == ConfiguredShares(amount, split)
           f == [i \in DOMAIN shares |-> shares[i].amount]
<1>1. DOMAIN split = 1 .. Len(split) /\ Len(split) \in Nat
  OBVIOUS
<1>2. DOMAIN shares = DOMAIN split
  BY DEF ConfiguredShares
<1>3. ASSUME NEW i \in DOMAIN split
      PROVE  shares[i] \in Share /\ shares[i].amount \in Nat
  <2>1. split[i] \in Rule
    OBVIOUS
  <2>2. Part(amount, split[i]) \in Nat /\ split[i].recipient \in Parties
    BY <2>1, PartIsNatural
  <2>3. shares[i] = [recipient |-> split[i].recipient, amount |-> Part(amount, split[i])]
    BY DEF ConfiguredShares
  <2> QED
    BY <2>2, <2>3 DEF Share
<1>4. shares = [i \in 1 .. Len(split) |-> shares[i]]
  BY <1>1, <1>2 DEF ConfiguredShares
<1> HIDE DEF shares
<1>5. shares \in Seq(Share)
  BY <1>1, <1>2, <1>3, <1>4
<1>6. IsFiniteSet(DOMAIN shares)
  BY <1>1, <1>2, FS_Interval
<1>7. \A i \in DOMAIN shares : f[i] \in Int
  BY <1>2, <1>3
<1> HIDE DEF f
<1>8. SumFunctionOnSet(f, DOMAIN shares) \in Int
  BY <1>6, <1>7, SumIsInt
<1>9. Total(shares) \in Int
  BY <1>8 DEF Total, Booked, f
<1>10. \A i \in DOMAIN shares : shares[i].amount >= 0
  BY <1>2, <1>3
<1> QED
  BY <1>5, <1>9, <1>10 DEF shares

\* The split is everybody's shares, none below zero where it fits, and adds up to what is
\* split: the leshoz gets exactly what the rules left.
LEMMA SplitIsWhole ==
  ASSUME NEW amount \in Nat, NEW split \in Seq(Rule), Fits(amount, split)
  PROVE  /\ SplitPayment(amount, split) \in Seq(Share)
         /\ \A i \in DOMAIN SplitPayment(amount, split) :
              SplitPayment(amount, split)[i].amount >= 0
         /\ Total(SplitPayment(amount, split)) = amount
<1> DEFINE shares == ConfiguredShares(amount, split)
           rest == [recipient |-> Leshoz, amount |-> Remainder(amount, split)]
           all == Append(shares, rest)
           f == [i \in DOMAIN shares |-> shares[i].amount]
           g == [i \in DOMAIN all |-> all[i].amount]
           last == Len(shares) + 1
<1>1. /\ shares \in Seq(Share)
      /\ \A i \in DOMAIN shares : shares[i].amount >= 0
      /\ Total(shares) \in Int
  BY SharesConfigured
<1>2. rest.amount = amount - Total(shares) /\ rest.amount \in Int /\ rest.amount >= 0
  BY <1>1 DEF Remainder, Fits
<1>3. rest \in Share
  BY <1>2 DEF Share, Parties
<1>4. SplitPayment(amount, split) = all
  BY DEF SplitPayment
<1> HIDE DEF shares, rest
<1>5. all \in Seq(Share)
  BY <1>1, <1>3
<1>6. DOMAIN shares = 1 .. Len(shares) /\ Len(shares) \in Nat /\ DOMAIN all = 1 .. last
  BY <1>1
<1>7. (\A i \in DOMAIN shares : all[i] = shares[i]) /\ all[last] = rest
  BY <1>1
<1> HIDE DEF all
<1>8. \A i \in DOMAIN all : all[i].amount >= 0
  BY <1>1, <1>2, <1>6, <1>7
<1>9. (DOMAIN all) \ {last} = DOMAIN shares /\ last \in DOMAIN all
  BY <1>6
<1>10. IsFiniteSet(DOMAIN all) /\ IsFiniteSet(DOMAIN shares)
  BY <1>6, FS_Interval
<1>11. \A i \in DOMAIN all : all[i].amount \in Int
  <2>1. \A i \in DOMAIN all : all[i] \in Share
    BY <1>5
  <2>2. \A share \in Share : share.amount \in Int
    BY DEF Share
  <2> QED
    BY <2>1, <2>2
<1>12. \A i \in DOMAIN all : g[i] \in Int
  BY <1>11
<1>13. \A i \in DOMAIN shares : g[i] = f[i]
  BY <1>6, <1>7
<1>14. g[last] = rest.amount
  BY <1>7, <1>9
<1> HIDE DEF f, g, last
<1>15. SumFunctionOnSet(g, DOMAIN all) = g[last] + SumFunctionOnSet(g, DOMAIN shares)
  BY <1>9, <1>10, <1>12, SumTakes
<1>16. SumFunctionOnSet(g, DOMAIN shares) = SumFunctionOnSet(f, DOMAIN shares)
  BY <1>10, <1>13, SumOfSame
<1>17. SumFunctionOnSet(f, DOMAIN shares) = Total(shares)
  BY DEF f, Total, Booked
<1>18. SumFunctionOnSet(g, DOMAIN all) = Total(all)
  BY DEF g, Total, Booked
<1>19. Total(all) = amount
  BY <1>1, <1>2, <1>14, <1>15, <1>16, <1>17, <1>18
<1> QED
  BY <1>4, <1>5, <1>8, <1>19

\* The rows of the payment: that much money, of nobody's refund, none below zero.
LEMMA PaymentRows ==
  ASSUME NEW amount \in Nat, NEW split \in Seq(Rule), Fits(amount, split)
  PROVE  LET rows == EntriesForShares(SplitPayment(amount, split), NoRefund)
         IN /\ rows \in Seq(LedgerRow)
            /\ \A i \in DOMAIN rows : /\ rows[i].entry_type = "payment"
                                      /\ rows[i].refund = NoRefund
                                      /\ rows[i].amount >= 0
            /\ Booked(rows, DOMAIN rows) = amount
<1> DEFINE shares == SplitPayment(amount, split)
           rows == EntriesForShares(shares, NoRefund)
           f == [i \in DOMAIN shares |-> shares[i].amount]
           g == [i \in DOMAIN rows |-> rows[i].amount]
<1>1. /\ shares \in Seq(Share)
      /\ \A i \in DOMAIN shares : shares[i].amount >= 0
      /\ Total(shares) = amount
  BY SplitIsWhole
<1> HIDE DEF shares
<1>2. DOMAIN shares = 1 .. Len(shares) /\ Len(shares) \in Nat
  BY <1>1
<1>3. \A i \in DOMAIN shares : shares[i].recipient \in Parties /\ shares[i].amount \in Int
  <2>1. \A i \in DOMAIN shares : shares[i] \in Share
    BY <1>1
  <2>2. \A share \in Share : share.recipient \in Parties /\ share.amount \in Int
    BY DEF Share
  <2> QED
    BY <2>1, <2>2
<1>4. /\ DOMAIN rows = DOMAIN shares
      /\ \A i \in DOMAIN shares :
           rows[i] = [entry_type |-> "payment", refund |-> NoRefund,
                      recipient |-> shares[i].recipient, amount |-> shares[i].amount]
  BY DEF EntriesForShares, Entry
<1>5. rows = [i \in 1 .. Len(shares) |-> rows[i]]
  BY <1>2 DEF EntriesForShares
<1> HIDE DEF rows
<1>6. rows \in Seq(LedgerRow)
  <2>1. ASSUME NEW i \in DOMAIN shares
        PROVE  rows[i] \in LedgerRow
    BY <1>3, <1>4 DEF LedgerRow
  <2> QED
    BY <1>2, <1>5, <2>1
<1>7. \A i \in DOMAIN rows : /\ rows[i].entry_type = "payment"
                             /\ rows[i].refund = NoRefund
                             /\ rows[i].amount >= 0
  BY <1>1, <1>4
<1>8. IsFiniteSet(DOMAIN shares)
  BY <1>2, FS_Interval
<1>9. \A i \in DOMAIN shares : g[i] = f[i]
  BY <1>4
<1> HIDE DEF f, g
<1>10. SumFunctionOnSet(g, DOMAIN shares) = SumFunctionOnSet(f, DOMAIN shares)
  BY <1>8, <1>9, SumOfSame
<1>11. SumFunctionOnSet(f, DOMAIN shares) = amount
  BY <1>1 DEF f, Total, Booked
<1>12. Booked(rows, DOMAIN rows) = amount
  BY <1>4, <1>10, <1>11 DEF g, Booked
<1> QED
  BY <1>6, <1>7, <1>12 DEF rows, shares

-----------------------------------------------------------------------------
(* The inductive invariant.                                                 *)

\* Nothing happens to the money of an invoice before it is paid.
NothingBeforePayment ==
  invoice # "paid" =>
    ledger = <<>> /\ approving = {} /\ transaction = "none" /\ arrived = 0

\* Corrections come with the reversal, and only refunds book rows of a refund.
RowsHaveTheirCause ==
  /\ transaction # "reversed" => Rows("correction") = {}
  /\ \A i \in DOMAIN ledger :
       ledger[i].entry_type # "refund" => ledger[i].refund = NoRefund

MoneyInv == SplitLosesNothing /\ ReversalCancelsPayment /\ RowsHaveTheirCause

\* The rows that the last approval of f read add up to its amount, or more.
ReadFits(f) ==
  /\ seen[f] <= Len(ledger)
  /\ final_amount[f] <= Booked(ledger, 1 .. seen[f])

\* The rows of f stand together, after those that its approval read.
BookedWhole(f) ==
  \E m, n \in 0 .. Len(ledger) :
    /\ seen[f] <= m /\ m < n
    /\ RowsOf(f) = m + 1 .. n
    /\ Booked(ledger, m + 1 .. n) = - final_amount[f]

RefundInv(f) ==
  /\ status[f] = "in_review" =>
       final_amount[f] > 0 /\ BreakdownIsComplete(final_amount[f], components[f])
  /\ f \in approving => status[f] = "in_review" /\ ReadFits(f)
  /\ status[f] = "returned" => ReadFits(f) /\ BookedWhole(f)
  /\ status[f] # "returned" => RowsOf(f) = {}

RefundsInv ==
  TypeOK /\ NothingBeforePayment /\ MoneyInv /\ \A f \in Refunds : RefundInv(f)
-----------------------------------------------------------------------------
(* What a refund and a reversal write.                                      *)

\* Everybody who may hold a part of the money: finitely many.
LEMMA PartiesFinite == IsFiniteSet(Parties)
<1>1. IsFiniteSet({Leshoz})
  BY FS_Singleton
<1> QED
  BY <1>1, FS_Union, RefundsAssumption DEF Parties

\* The rows of a refund: at least one, all of them its own, its amount below zero.
LEMMA RefundRows ==
  ASSUME TypeOK, NEW f \in Refunds, final_amount[f] > 0,
         BreakdownIsComplete(final_amount[f], components[f])
  PROVE  /\ RefundEntries(f) \in Seq(LedgerRow)
         /\ Len(RefundEntries(f)) > 0
         /\ \A n \in DOMAIN RefundEntries(f) :
              RefundEntries(f)[n].entry_type = "refund" /\ RefundEntries(f)[n].refund = f
         /\ Booked(ledger \o RefundEntries(f),
                   DOMAIN (ledger \o RefundEntries(f)) \ DOMAIN ledger) = - final_amount[f]
<1> DEFINE D == {p \in Parties : components[f][p] > 0}
           sources == SetToSeq(D)
           g == components[f]
           more == RefundEntries(f)
           all == ledger \o more
<1>0. /\ g \in [Parties -> Nat] /\ final_amount[f] \in Nat /\ ledger \in Seq(LedgerRow)
      /\ SumFunctionOnSet(g, Parties) = final_amount[f]
  BY DEF TypeOK, BreakdownIsComplete
<1> HIDE DEF g
<1>1. IsFiniteSet(D) /\ IsFiniteSet(Parties \ D) /\ D \subseteq Parties
  BY PartiesFinite, FS_Subset
<1>2. sources \in Seq(D)
  BY <1>1, SetToSeqLists
<1>3. DOMAIN sources = 1 .. Len(sources) /\ Len(sources) \in Nat
  BY <1>2
<1>4. /\ DOMAIN more = DOMAIN sources
      /\ \A n \in DOMAIN sources :
           more[n] = [entry_type |-> "refund", refund |-> f, recipient |-> sources[n],
                      amount |-> - g[sources[n]]]
  BY DEF RefundEntries, Entry, g
<1>5. more = [n \in 1 .. Len(sources) |-> more[n]]
  BY <1>3 DEF RefundEntries
<1> HIDE DEF more, sources
<1>6. \A n \in DOMAIN sources : /\ sources[n] \in Parties
                                /\ g[sources[n]] \in Int /\ - g[sources[n]] \in Int
  <2>1. \A n \in DOMAIN sources : sources[n] \in D
    BY <1>2
  <2> QED
    BY <2>1, <1>0, <1>1
<1>7. more \in Seq(LedgerRow)
  <2>1. ASSUME NEW n \in DOMAIN sources
        PROVE  more[n] \in LedgerRow
    BY <1>4, <1>6 DEF LedgerRow
  <2> QED
    BY <1>3, <1>5, <2>1
<1>8. \A n \in DOMAIN more : g[sources[n]] = - more[n].amount
  <2> SUFFICES ASSUME NEW n \in DOMAIN more
               PROVE  g[sources[n]] = - more[n].amount
    OBVIOUS
  <2>1. more[n].amount = - g[sources[n]] /\ g[sources[n]] \in Int
    BY <1>4, <1>6
  <2> QED
    BY <2>1
<1>9. DOMAIN all \ DOMAIN ledger
        = {i \in DOMAIN all \ DOMAIN ledger : sources[i - Len(ledger)] \in D}
  <2>1. \A i \in DOMAIN all \ DOMAIN ledger : i - Len(ledger) \in DOMAIN more
    BY <1>0, <1>7, AppendedRows
  <2>2. \A n \in DOMAIN more : sources[n] \in D
    BY <1>2, <1>4
  <2> QED
    BY <2>1, <2>2
<1>10. Booked(all, DOMAIN all \ DOMAIN ledger) + SumFunctionOnSet(g, D) = 0
  <2> HIDE DEF D
  <2>1. Booked(all, {i \in DOMAIN all \ DOMAIN ledger : sources[i - Len(ledger)] \in D})
          + SumFunctionOnSet(g, D) = 0
    BY <1>0, <1>1, <1>4, <1>7, <1>8, OppositeRows DEF sources
  <2> QED
    BY <1>9, <2>1
<1>11. SumFunctionOnSet(g, D) = final_amount[f]
  <2>1. SumFunctionOnSet(g, Parties \ D) = 0
    <3>1. \A p \in Parties \ D : g[p] = 0
      BY <1>0 DEF g
    <3> QED
      BY <1>1, <3>1, SumOfZeros
  <2>2. SumFunctionOnSet(g, D) \in Int
    BY <1>0, <1>1, SumIsInt
  <2>3. D \cup (Parties \ D) = Parties /\ D \cap (Parties \ D) = {}
    OBVIOUS
  <2>4. \A p \in D \cup (Parties \ D) : g[p] \in Int
    BY <1>0, <2>3
  <2> HIDE DEF D
  <2>5. SumFunctionOnSet(g, D \cup (Parties \ D))
          = SumFunctionOnSet(g, D) + SumFunctionOnSet(g, Parties \ D)
    BY <1>1, <2>3, <2>4, SumOfUnion
  <2>6. final_amount[f] = SumFunctionOnSet(g, D) + 0
    BY <1>0, <2>1, <2>3, <2>5
  <2> QED
    BY <2>2, <2>6
<1>12. Booked(all, DOMAIN all \ DOMAIN ledger) \in Int
  BY <1>0, <1>7, AppendedRows, BookedIsInt
<1>13. Booked(all, DOMAIN all \ DOMAIN ledger) = - final_amount[f]
  BY <1>0, <1>10, <1>11, <1>12
<1>14. Len(more) > 0
  <2> SUFFICES ASSUME ~ Len(more) > 0 PROVE FALSE
    OBVIOUS
  <2>1. Len(more) \in Nat /\ Len(more) = 0
    BY <1>7
  <2>2. DOMAIN all \ DOMAIN ledger = {}
    <3>1. \A i \in DOMAIN all \ DOMAIN ledger : i - Len(ledger) \in 1 .. Len(more)
      BY <1>0, <1>7, AppendedRows
    <3> QED
      BY <2>1, <3>1
  <2>3. Booked(all, {}) = 0
    BY SumOfNone DEF Booked
  <2>4. Booked(all, DOMAIN all \ DOMAIN ledger) = 0
    BY <2>2, <2>3
  <2>5. - final_amount[f] = 0
    BY <1>13, <2>4
  <2> QED
    BY <1>0, <2>5
<1>15. \A n \in DOMAIN more : more[n].entry_type = "refund" /\ more[n].refund = f
  BY <1>4
<1> QED
  BY <1>7, <1>13, <1>14, <1>15 DEF more

\* The corrections: for every party, what the payment's rows gave it below zero.
LEMMA CorrectionRows ==
  ASSUME TypeOK
  PROVE  /\ Corrections \in Seq(LedgerRow)
         /\ \A n \in DOMAIN Corrections : /\ Corrections[n].entry_type = "correction"
                                          /\ Corrections[n].refund = NoRefund
         /\ \A p \in Parties :
              LET all == ledger \o Corrections
              IN Booked(all, {i \in DOMAIN all \ DOMAIN ledger : all[i].recipient = p})
                   + Booked(ledger, {i \in Rows("payment") : ledger[i].recipient = p}) = 0
<1> DEFINE D == Rows("payment")
           list == SetToSeq(D)
           g == [i \in DOMAIN ledger |-> ledger[i].amount]
           more == Corrections
           all == ledger \o more
<1>0. ledger \in Seq(LedgerRow)
  BY DEF TypeOK
<1>1. D \subseteq DOMAIN ledger
  BY DEF Rows
<1> HIDE DEF D
<1>2. IsFiniteSet(D)
  BY <1>0, <1>1, BookedIsInt
<1>3. list \in Seq(D)
  BY <1>2, SetToSeqLists
<1>4. /\ DOMAIN list = 1 .. Len(list) /\ Len(list) \in Nat
      /\ \A n \in DOMAIN list : list[n] \in D
  BY <1>3
<1>5. /\ DOMAIN more = DOMAIN list
      /\ \A n \in DOMAIN list :
           more[n] = [entry_type |-> "correction", refund |-> NoRefund,
                      recipient |-> ledger[list[n]].recipient,
                      amount |-> - ledger[list[n]].amount]
  BY DEF Corrections, Entry, D
<1>6. more = [n \in 1 .. Len(list) |-> more[n]]
  BY <1>4 DEF Corrections, D
<1> HIDE DEF more, list
<1>7. ASSUME NEW n \in DOMAIN list
      PROVE  /\ more[n] \in LedgerRow
             /\ more[n].entry_type = "correction" /\ more[n].refund = NoRefund
             /\ more[n].recipient = ledger[list[n]].recipient
             /\ g[list[n]] = - more[n].amount
  <2> DEFINE row == ledger[list[n]]
  <2>1. list[n] \in D /\ list[n] \in DOMAIN ledger
    BY <1>1, <1>4
  <2>2. row.recipient \in Parties /\ row.amount \in Int
    <3>1. row \in LedgerRow
      BY <1>0, <2>1
    <3> QED
      BY <3>1, RowFields
  <2>3. g[list[n]] = row.amount
    BY <2>1
  <2>4. more[n] = [entry_type |-> "correction", refund |-> NoRefund,
                   recipient |-> row.recipient, amount |-> - row.amount]
    BY <1>5
  <2> HIDE DEF g, row
  <2>5. more[n] \in LedgerRow
    BY <2>2, <2>4 DEF LedgerRow
  <2>6. g[list[n]] = - more[n].amount
    BY <2>2, <2>3, <2>4
  <2> QED
    BY <2>4, <2>5, <2>6 DEF row
<1>8. more \in Seq(LedgerRow)
  <2>1. \A n \in 1 .. Len(list) : more[n] \in LedgerRow
    BY <1>4, <1>7
  <2> QED
    BY <1>4, <1>6, <2>1
<1>9. ASSUME NEW p \in Parties
      PROVE  Booked(all, {i \in DOMAIN all \ DOMAIN ledger : all[i].recipient = p})
               + Booked(ledger, {i \in D : ledger[i].recipient = p}) = 0
  <2> DEFINE T == {i \in D : ledger[i].recipient = p}
             S == {i \in DOMAIN all \ DOMAIN ledger : all[i].recipient = p}
  <2>1. S = {i \in DOMAIN all \ DOMAIN ledger : list[i - Len(ledger)] \in T}
    <3> SUFFICES ASSUME NEW i \in DOMAIN all \ DOMAIN ledger
                 PROVE  all[i].recipient = p <=> list[i - Len(ledger)] \in T
      OBVIOUS
    <3>1. i - Len(ledger) \in DOMAIN more /\ all[i] = more[i - Len(ledger)]
      BY <1>0, <1>8, AppendedRows
    <3>2. /\ all[i].recipient = ledger[list[i - Len(ledger)]].recipient
          /\ list[i - Len(ledger)] \in D
      BY <1>4, <1>5, <1>7, <3>1
    <3> QED
      BY <3>2
  <2>2. T \in SUBSET D
    OBVIOUS
  <2>3. \A n \in DOMAIN more : g[list[n]] = - more[n].amount
    BY <1>5, <1>7
  <2>4. SumFunctionOnSet(g, T) = Booked(ledger, T) /\ DOMAIN more = DOMAIN list
    BY <1>5 DEF Booked
  <2> HIDE DEF T, S, g
  <2>5. Booked(all, {i \in DOMAIN all \ DOMAIN ledger : list[i - Len(ledger)] \in T})
          + SumFunctionOnSet(g, T) = 0
    BY <1>0, <1>2, <1>8, <2>2, <2>3, <2>4, OppositeRows DEF list
  <2>6. Booked(all, S) + Booked(ledger, T) = 0
    BY <2>1, <2>4, <2>5
  <2> QED
    BY <2>6 DEF S, T
<1>10. \A n \in DOMAIN more : more[n].entry_type = "correction" /\ more[n].refund = NoRefund
  BY <1>5, <1>7
<1> QED
  BY <1>8, <1>9, <1>10 DEF more, D

-----------------------------------------------------------------------------
(* The steps, types first.                                                  *)

\* What an action adds to the ledger is rows.
LEMMA TypesKept ==
  ASSUME TypeOK, NothingBeforePayment, \A f \in Refunds : RefundInv(f), [Next]_vars
  PROVE  TypeOK'
<1>0. /\ ledger \in Seq(LedgerRow) /\ rules \in Seq(Rule)
      /\ status \in [Refunds -> REFUND_STATUSES]
  BY RefundsAssumption DEF TypeOK
<1>1. ASSUME NEW door \in {"payme", "manual"}, NEW amount \in Amounts,
             ConfirmPayment(door, amount)
      PROVE  TypeOK'
  <2>1. amount \in Nat
    BY RefundsAssumption
  <2>2. EntriesForShares(SplitPayment(amount, rules), NoRefund) \in Seq(LedgerRow)
    BY <1>0, <1>1, <2>1, PaymentRows DEF ConfirmPayment
  <2>3. ledger' \in Seq(LedgerRow)
    BY <1>0, <1>1, <2>2 DEF ConfirmPayment
  <2> QED
    BY <1>1, <2>1, <2>3 DEF ConfirmPayment, TypeOK, invoiceVars, decisionVars
<1>2. ASSUME ExpireInvoice PROVE TypeOK'
  BY <1>2 DEF ExpireInvoice, TypeOK, invoiceVars, decisionVars
<1>3. ASSUME RecordReversal PROVE TypeOK'
  <2>1. ledger' \in Seq(LedgerRow)
    BY <1>0, <1>3, CorrectionRows DEF RecordReversal
  <2> QED
    BY <1>3, <2>1 DEF RecordReversal, TypeOK, invoiceVars, decisionVars
<1>4. ASSUME NEW f \in Refunds, RequestRefund(f) PROVE TypeOK'
  <2>1. status' \in [Refunds -> REFUND_STATUSES]
    BY <1>0, <1>4 DEF RequestRefund, REFUND_STATUSES
  <2> QED
    BY <1>4, <2>1 DEF RequestRefund, TypeOK, invoiceVars, paymentVars, decisionVars
<1>5. ASSUME NEW f \in Refunds, NEW amount \in Finals, NEW parts \in [Parties -> 0 .. amount],
             SubmitRefundDecision(f, amount, parts)
      PROVE  TypeOK'
  <2>1. amount \in Nat /\ parts \in [Parties -> Nat]
    BY RefundsAssumption
  <2>2. status' \in [Refunds -> REFUND_STATUSES]
    BY <1>0, <1>5 DEF SubmitRefundDecision, REFUND_STATUSES
  <2>3. final_amount' \in [Refunds -> Nat] /\ components' \in [Refunds -> [Parties -> Nat]]
    BY <1>5, <2>1 DEF SubmitRefundDecision, TypeOK
  <2> QED
    BY <1>5, <2>2, <2>3 DEF SubmitRefundDecision, TypeOK, invoiceVars, paymentVars
<1>6. ASSUME NEW f \in Refunds, BeginApproval(f) PROVE TypeOK'
  <2>1. Len(ledger) \in Nat
    BY <1>0
  <2>2. seen' \in [Refunds -> Nat] /\ approving' \subseteq Refunds
    BY <1>6, <2>1 DEF BeginApproval, TypeOK
  <2> QED
    BY <1>6, <2>2 DEF BeginApproval, TypeOK, invoiceVars, paymentVars, decisionVars
<1>7. ASSUME NEW f \in Refunds, CommitApproval(f) PROVE TypeOK'
  <2>1. final_amount[f] > 0 /\ BreakdownIsComplete(final_amount[f], components[f])
    BY <1>7 DEF CommitApproval, RefundInv
  <2>2. ledger' \in Seq(LedgerRow)
    <3>1. RefundEntries(f) \in Seq(LedgerRow)
      BY <2>1, RefundRows
    <3>2. ledger' = ledger \o RefundEntries(f)
      BY <1>7 DEF CommitApproval
    <3> QED
      BY <1>0, <3>1, <3>2
  <2>3. status' \in [Refunds -> REFUND_STATUSES] /\ approving' \subseteq Refunds
    BY <1>0, <1>7 DEF CommitApproval, REFUND_STATUSES, TypeOK
  <2> QED
    BY <1>7, <2>2, <2>3 DEF CommitApproval, TypeOK, invoiceVars, paymentVars, decisionVars
<1>8. ASSUME NEW f \in Refunds, AbortApproval(f) PROVE TypeOK'
  BY <1>8 DEF AbortApproval, TypeOK, invoiceVars, paymentVars, decisionVars
<1>9. ASSUME NEW f \in Refunds, RejectRefund(f) PROVE TypeOK'
  <2>1. status' \in [Refunds -> REFUND_STATUSES]
    BY <1>0, <1>9 DEF RejectRefund, REFUND_STATUSES
  <2> QED
    BY <1>9, <2>1 DEF RejectRefund, TypeOK, invoiceVars, paymentVars, decisionVars
<1>10. ASSUME UNCHANGED vars PROVE TypeOK'
  BY <1>10 DEF vars, TypeOK, invoiceVars, paymentVars, decisionVars
<1> QED
  BY <1>1, <1>2, <1>3, <1>4, <1>5, <1>6, <1>7, <1>8, <1>9, <1>10 DEF Next

\* The first invariant: before the payment there is no money and no approval of a refund.
LEMMA PaymentComesFirst ==
  ASSUME TypeOK, NothingBeforePayment, [Next]_vars
  PROVE  NothingBeforePayment'
<1>1. ASSUME NEW door \in {"payme", "manual"}, NEW amount \in Amounts,
             ConfirmPayment(door, amount)
      PROVE  NothingBeforePayment'
  BY <1>1 DEF ConfirmPayment, NothingBeforePayment
<1>2. ASSUME ExpireInvoice PROVE NothingBeforePayment'
  BY <1>2 DEF ExpireInvoice, NothingBeforePayment
<1>3. ASSUME RecordReversal PROVE NothingBeforePayment'
  BY <1>3 DEF RecordReversal, NothingBeforePayment
<1>4. ASSUME NEW f \in Refunds,
             \/ RequestRefund(f)
             \/ \E amount \in Finals : \E parts \in [Parties -> 0 .. amount] :
                  SubmitRefundDecision(f, amount, parts)
             \/ BeginApproval(f) \/ AbortApproval(f) \/ RejectRefund(f)
      PROVE  NothingBeforePayment'
  BY <1>4 DEF RequestRefund, SubmitRefundDecision, BeginApproval, AbortApproval, RejectRefund,
              NothingBeforePayment, paymentVars
<1>5. ASSUME NEW f \in Refunds, CommitApproval(f) PROVE NothingBeforePayment'
  BY <1>5 DEF CommitApproval, NothingBeforePayment, paymentVars
<1>6. ASSUME UNCHANGED vars PROVE NothingBeforePayment'
  BY <1>6 DEF vars, NothingBeforePayment, paymentVars
<1> QED
  BY <1>1, <1>2, <1>3, <1>4, <1>5, <1>6 DEF Next

-----------------------------------------------------------------------------
(* The money of the payment.                                                *)

\* Rows of refunds leave it alone.
LEMMA MoneyKept ==
  ASSUME TypeOK, MoneyInv, UNCHANGED <<transaction, arrived>>,
         NEW more \in Seq(LedgerRow), ledger' = ledger \o more,
         \A n \in DOMAIN more : more[n].entry_type = "refund"
  PROVE  MoneyInv'
<1>0. ledger \in Seq(LedgerRow)
  BY DEF TypeOK
<1>1. /\ DOMAIN ledger \subseteq DOMAIN ledger'
      /\ \A i \in DOMAIN ledger : ledger'[i] = ledger[i]
      /\ \A i \in DOMAIN ledger' \ DOMAIN ledger : ledger'[i].entry_type = "refund"
      /\ \A S \in SUBSET (DOMAIN ledger) : Booked(ledger', S) = Booked(ledger, S)
  BY <1>0, AppendedRows
<1>2. \A type \in {"payment", "correction"} :
        /\ Rows(type)' = Rows(type)
        /\ Rows(type) \subseteq DOMAIN ledger
  BY <1>1 DEF Rows
<1>3. SplitLosesNothing'
  BY <1>1, <1>2 DEF SplitLosesNothing, MoneyInv
<1>4. RowsHaveTheirCause'
  BY <1>1, <1>2 DEF RowsHaveTheirCause, MoneyInv
<1>5. ReversalCancelsPayment'
  <2> SUFFICES ASSUME NEW p \in Parties, transaction = "reversed"
               PROVE  Booked(ledger', {i \in Rows("payment")' \cup Rows("correction")' :
                                         ledger'[i].recipient = p}) = 0
    BY DEF ReversalCancelsPayment
  <2> DEFINE mine == {i \in Rows("payment") \cup Rows("correction") :
                        ledger[i].recipient = p}
  <2>1. mine = {i \in Rows("payment")' \cup Rows("correction")' : ledger'[i].recipient = p}
    BY <1>1, <1>2
  <2>2. Booked(ledger, mine) = 0 /\ mine \in SUBSET (DOMAIN ledger)
    BY <1>2 DEF MoneyInv, ReversalCancelsPayment
  <2> HIDE DEF mine
  <2>3. Booked(ledger', mine) = 0
    BY <1>1, <2>2
  <2> QED
    BY <2>1, <2>3
<1> QED
  BY <1>3, <1>4, <1>5 DEF MoneyInv

\* The payment brings what arrived.
LEMMA PaymentIsWhole ==
  ASSUME TypeOK, NothingBeforePayment, NEW door \in {"payme", "manual"},
         NEW amount \in Amounts, ConfirmPayment(door, amount)
  PROVE  MoneyInv'
<1> DEFINE rows == EntriesForShares(SplitPayment(amount, rules), NoRefund)
<1>1. rules \in Seq(Rule) /\ amount \in Nat /\ Fits(amount, rules)
  BY RefundsAssumption DEF TypeOK, ConfirmPayment
<1>2. /\ rows \in Seq(LedgerRow)
      /\ \A i \in DOMAIN rows : /\ rows[i].entry_type = "payment"
                                /\ rows[i].refund = NoRefund
                                /\ rows[i].amount >= 0
      /\ Booked(rows, DOMAIN rows) = amount
  BY <1>1, PaymentRows
<1>3. ledger = << >> /\ ledger' = ledger \o rows
  BY DEF ConfirmPayment, NothingBeforePayment
<1> HIDE DEF rows
<1>4. ledger' = rows
  BY <1>2, <1>3
<1>5. Rows("payment")' = DOMAIN rows /\ Rows("correction")' = {}
  BY <1>2, <1>4 DEF Rows
<1>6. transaction' # "reversed" /\ arrived' = amount
  BY DEF ConfirmPayment
<1>7. SplitLosesNothing'
  BY <1>2, <1>4, <1>5, <1>6 DEF SplitLosesNothing
<1>8. ReversalCancelsPayment' /\ RowsHaveTheirCause'
  BY <1>2, <1>4, <1>5, <1>6 DEF ReversalCancelsPayment, RowsHaveTheirCause
<1> QED
  BY <1>7, <1>8 DEF MoneyInv

\* The reversal takes from everybody what the payment gave.
LEMMA ReversalIsWhole ==
  ASSUME TypeOK, MoneyInv, RecordReversal
  PROVE  MoneyInv'
<1> DEFINE new == DOMAIN ledger' \ DOMAIN ledger
<1>0. /\ ledger \in Seq(LedgerRow) /\ transaction = "payme" /\ transaction' = "reversed"
      /\ ledger' = ledger \o Corrections /\ arrived' = arrived
  BY DEF TypeOK, RecordReversal
<1>1. /\ Corrections \in Seq(LedgerRow)
      /\ \A n \in DOMAIN Corrections : /\ Corrections[n].entry_type = "correction"
                                       /\ Corrections[n].refund = NoRefund
      /\ \A p \in Parties :
           Booked(ledger', {i \in new : ledger'[i].recipient = p})
             + Booked(ledger, {i \in Rows("payment") : ledger[i].recipient = p}) = 0
  BY <1>0, CorrectionRows
<1>2. /\ ledger' \in Seq(LedgerRow)
      /\ DOMAIN ledger \subseteq DOMAIN ledger'
      /\ \A i \in DOMAIN ledger : ledger'[i] = ledger[i]
      /\ \A S \in SUBSET (DOMAIN ledger) : Booked(ledger', S) = Booked(ledger, S)
  BY <1>0, <1>1, AppendedRows
<1>3. \A i \in new : ledger'[i].entry_type = "correction" /\ ledger'[i].refund = NoRefund
  BY <1>0, <1>1, AppendedRows
<1>4. Rows("payment") \subseteq DOMAIN ledger /\ Rows("correction") = {}
  BY <1>0 DEF Rows, MoneyInv, RowsHaveTheirCause
<1>5. Rows("payment")' = Rows("payment")
  BY <1>2, <1>3 DEF Rows
<1>6. Rows("correction")' = new
  BY <1>2, <1>3, <1>4 DEF Rows
<1>7. SplitLosesNothing'
  BY <1>0, <1>2, <1>4, <1>5 DEF SplitLosesNothing, MoneyInv
<1>8. RowsHaveTheirCause'
  <2>1. \A i \in DOMAIN ledger : ledger[i].entry_type # "refund" => ledger[i].refund = NoRefund
    BY DEF MoneyInv, RowsHaveTheirCause
  <2> QED
    BY <1>0, <1>2, <1>3, <2>1 DEF RowsHaveTheirCause
<1>9. ASSUME NEW p \in Parties
      PROVE  Booked(ledger', {i \in Rows("payment")' \cup Rows("correction")' :
                                ledger'[i].recipient = p}) = 0
  <2> DEFINE S == {i \in Rows("payment") : ledger[i].recipient = p}
             T == {i \in new : ledger'[i].recipient = p}
  <2>1. {i \in Rows("payment")' \cup Rows("correction")' : ledger'[i].recipient = p} = S \cup T
    BY <1>2, <1>4, <1>5, <1>6
  <2>2. /\ S \in SUBSET (DOMAIN ledger') /\ T \in SUBSET (DOMAIN ledger')
        /\ S \in SUBSET (DOMAIN ledger) /\ S \cap T = {}
    BY <1>2, <1>4
  <2>3. Booked(ledger', T) + Booked(ledger, S) = 0
    BY <1>1
  <2> HIDE DEF S, T
  <2>4. Booked(ledger', S \cup T) = Booked(ledger', S) + Booked(ledger', T)
    BY <1>2, <2>2, BookedTogether
  <2>5. Booked(ledger', S) = Booked(ledger, S)
    BY <1>2, <2>2
  <2>6. Booked(ledger', S) \in Int /\ Booked(ledger', T) \in Int
    BY <1>2, <2>2, BookedIsInt
  <2>7. Booked(ledger', S \cup T) = 0
    BY <2>3, <2>4, <2>5, <2>6
  <2> QED
    BY <2>1, <2>7
<1>10. ReversalCancelsPayment'
  BY <1>9 DEF ReversalCancelsPayment
<1> QED
  BY <1>7, <1>8, <1>10 DEF MoneyInv

-----------------------------------------------------------------------------
(* A refund.                                                                *)

\* What other rows are written, and whoever else moves, a refund that stays where it is
\* keeps what is its own.
LEMMA RefundKept ==
  ASSUME TypeOK, NEW f \in Refunds, RefundInv(f),
         NEW more \in Seq(LedgerRow), ledger' = ledger \o more,
         \A n \in DOMAIN more : more[n].refund # f,
         status'[f] = status[f], final_amount'[f] = final_amount[f],
         components'[f] = components[f], seen'[f] = seen[f],
         f \in approving' => f \in approving
  PROVE  RefundInv(f)'
<1>0. /\ ledger \in Seq(LedgerRow) /\ Len(ledger) \in Nat /\ Len(more) \in Nat
      /\ DOMAIN ledger = 1 .. Len(ledger) /\ seen[f] \in Nat
  BY DEF TypeOK
<1>1. /\ Len(ledger') = Len(ledger) + Len(more)
      /\ DOMAIN ledger \subseteq DOMAIN ledger'
      /\ \A i \in DOMAIN ledger : ledger'[i] = ledger[i]
      /\ \A i \in DOMAIN ledger' \ DOMAIN ledger : ledger'[i].refund # f
      /\ \A S \in SUBSET (DOMAIN ledger) : Booked(ledger', S) = Booked(ledger, S)
  BY <1>0, AppendedRows
<1>2. RowsOf(f)' = RowsOf(f)
  BY <1>1 DEF RowsOf
<1>3. ASSUME ReadFits(f) PROVE ReadFits(f)'
  <2>1. 1 .. seen[f] \in SUBSET (DOMAIN ledger)
    BY <1>0, <1>3 DEF ReadFits
  <2>2. Booked(ledger', 1 .. seen[f]) = Booked(ledger, 1 .. seen[f])
    BY <1>1, <2>1
  <2> QED
    BY <1>0, <1>1, <1>3, <2>2 DEF ReadFits
<1>4. ASSUME BookedWhole(f) PROVE BookedWhole(f)'
  <2>1. PICK m, n \in 0 .. Len(ledger) :
          /\ seen[f] <= m /\ m < n
          /\ RowsOf(f) = m + 1 .. n
          /\ Booked(ledger, m + 1 .. n) = - final_amount[f]
    BY <1>4 DEF BookedWhole
  <2>2. m \in 0 .. Len(ledger') /\ n \in 0 .. Len(ledger')
    BY <1>0, <1>1
  <2>3. m + 1 .. n \in SUBSET (DOMAIN ledger)
    BY <1>0
  <2>4. Booked(ledger', m + 1 .. n) = Booked(ledger, m + 1 .. n)
    BY <1>1, <2>3
  <2>5. /\ seen'[f] <= m /\ m < n
        /\ RowsOf(f)' = m + 1 .. n
        /\ Booked(ledger', m + 1 .. n) = - final_amount'[f]
    BY <1>2, <2>1, <2>4
  <2> QED
    BY <2>2, <2>5 DEF BookedWhole
<1> QED
  BY <1>2, <1>3, <1>4 DEF RefundInv, BreakdownIsComplete

\* An approval books its refund: after what it read, together and in full.
LEMMA RefundIsWhole ==
  ASSUME TypeOK, NEW f \in Refunds, RefundInv(f), CommitApproval(f)
  PROVE  RefundInv(f)'
<1> DEFINE m == Len(ledger)
           n == Len(ledger')
           more == RefundEntries(f)
<1>0. /\ ledger \in Seq(LedgerRow) /\ m \in Nat /\ DOMAIN ledger = 1 .. m
      /\ seen[f] \in Nat /\ final_amount[f] \in Nat
  BY DEF TypeOK
<1>1. /\ status[f] = "in_review" /\ ReadFits(f) /\ final_amount[f] > 0
      /\ BreakdownIsComplete(final_amount[f], components[f])
      /\ RowsOf(f) = {}
  BY DEF CommitApproval, RefundInv
<1>2. /\ status'[f] = "returned" /\ f \notin approving' /\ ledger' = ledger \o more
      /\ seen' = seen /\ final_amount' = final_amount
  BY DEF CommitApproval, decisionVars, TypeOK
<1>3. /\ more \in Seq(LedgerRow) /\ Len(more) > 0
      /\ \A k \in DOMAIN more : more[k].refund = f
      /\ Booked(ledger', DOMAIN ledger' \ DOMAIN ledger) = - final_amount[f]
  BY <1>1, <1>2, RefundRows
<1> HIDE DEF more
<1>4. /\ ledger' \in Seq(LedgerRow)
      /\ n = m + Len(more) /\ Len(more) \in Nat
      /\ \A i \in DOMAIN ledger : ledger'[i] = ledger[i]
      /\ \A i \in DOMAIN ledger' \ DOMAIN ledger : ledger'[i].refund = f
      /\ \A S \in SUBSET (DOMAIN ledger) : Booked(ledger', S) = Booked(ledger, S)
  BY <1>0, <1>2, <1>3, AppendedRows
<1>5. DOMAIN ledger' = 1 .. n /\ n \in Nat /\ m < n
  BY <1>0, <1>3, <1>4
<1>6. DOMAIN ledger' \ DOMAIN ledger = m + 1 .. n
  BY <1>0, <1>5
<1>7. RowsOf(f)' = m + 1 .. n
  BY <1>1, <1>4, <1>5, <1>6, <1>0 DEF RowsOf
<1>8. ReadFits(f)'
  <2>1. 1 .. seen[f] \in SUBSET (DOMAIN ledger)
    BY <1>0, <1>1 DEF ReadFits
  <2>2. Booked(ledger', 1 .. seen[f]) = Booked(ledger, 1 .. seen[f])
    BY <1>4, <2>1
  <2>3. seen[f] <= n
    BY <1>0, <1>1, <1>5 DEF ReadFits
  <2> QED
    BY <1>1, <1>2, <2>2, <2>3 DEF ReadFits
<1>9. BookedWhole(f)'
  <2>1. m \in 0 .. n /\ n \in 0 .. n
    BY <1>0, <1>5
  <2>2. seen'[f] <= m /\ Booked(ledger', m + 1 .. n) = - final_amount'[f]
    BY <1>1, <1>2, <1>3, <1>6 DEF ReadFits
  <2> HIDE DEF m
  <2> QED
    BY <1>5, <1>7, <2>1, <2>2 DEF BookedWhole
<1> QED
  BY <1>2, <1>8, <1>9 DEF RefundInv

-----------------------------------------------------------------------------
(* Every step keeps the invariant.                                          *)

\* The money, step by step.
LEMMA MoneyInductive ==
  ASSUME RefundsInv, [Next]_vars
  PROVE  MoneyInv'
<1>0. TypeOK /\ NothingBeforePayment /\ MoneyInv /\ ledger \in Seq(LedgerRow)
  BY DEF RefundsInv, TypeOK
<1>1. ASSUME UNCHANGED <<transaction, arrived, ledger>>
      PROVE  MoneyInv'
  <2>1. /\ << >> \in Seq(LedgerRow) /\ ledger' = ledger \o << >>
        /\ DOMAIN << >> = {}
    BY <1>0, <1>1
  <2>2. \A n \in DOMAIN << >> : << >>[n].entry_type = "refund"
    BY <2>1
  <2> QED
    BY <1>0, <1>1, <2>1, <2>2, MoneyKept
<1>2. ASSUME NEW f \in Refunds, CommitApproval(f)
      PROVE  MoneyInv'
  <2>1. /\ final_amount[f] > 0 /\ BreakdownIsComplete(final_amount[f], components[f])
        /\ ledger' = ledger \o RefundEntries(f) /\ UNCHANGED <<transaction, arrived>>
    BY <1>2 DEF CommitApproval, RefundsInv, RefundInv, paymentVars
  <2>2. /\ RefundEntries(f) \in Seq(LedgerRow)
        /\ \A n \in DOMAIN RefundEntries(f) : RefundEntries(f)[n].entry_type = "refund"
    BY <1>0, <2>1, RefundRows
  <2> QED
    BY <1>0, <2>1, <2>2, MoneyKept
<1>3. ASSUME NEW f \in Refunds,
             \/ RequestRefund(f)
             \/ \E amount \in Finals : \E parts \in [Parties -> 0 .. amount] :
                  SubmitRefundDecision(f, amount, parts)
             \/ BeginApproval(f) \/ AbortApproval(f) \/ RejectRefund(f)
      PROVE  UNCHANGED <<transaction, arrived, ledger>>
  BY <1>3 DEF RequestRefund, SubmitRefundDecision, BeginApproval, AbortApproval, RejectRefund,
              paymentVars
<1>4. ExpireInvoice => UNCHANGED <<transaction, arrived, ledger>>
  BY DEF ExpireInvoice
<1>5. UNCHANGED vars => UNCHANGED <<transaction, arrived, ledger>>
  BY DEF vars, paymentVars
<1> QED
  BY <1>0, <1>1, <1>2, <1>3, <1>4, <1>5, PaymentIsWhole, ReversalIsWhole DEF Next

\* A refund that a step is not about stays as it is.
LEMMA OtherRefundsKept ==
  ASSUME RefundsInv, NEW f \in Refunds,
         \/ \E door \in {"payme", "manual"}, amount \in Amounts : ConfirmPayment(door, amount)
         \/ ExpireInvoice
         \/ RecordReversal
         \/ UNCHANGED vars
         \/ \E g \in Refunds \ {f} :
              \/ RequestRefund(g)
              \/ \E amount \in Finals : \E parts \in [Parties -> 0 .. amount] :
                   SubmitRefundDecision(g, amount, parts)
              \/ BeginApproval(g) \/ CommitApproval(g) \/ AbortApproval(g) \/ RejectRefund(g)
  PROVE  RefundInv(f)'
<1>0. /\ TypeOK /\ MoneyInv /\ ledger \in Seq(LedgerRow) /\ rules \in Seq(Rule)
      /\ RefundInv(f) /\ f # NoRefund
  BY RefundsAssumption DEF RefundsInv, TypeOK
<1>1. ASSUME ledger' = ledger, status'[f] = status[f], final_amount'[f] = final_amount[f],
             components'[f] = components[f], seen'[f] = seen[f],
             f \in approving' => f \in approving
      PROVE  RefundInv(f)'
  <2>1. /\ << >> \in Seq(LedgerRow) /\ ledger' = ledger \o << >>
        /\ DOMAIN << >> = {}
    BY <1>0, <1>1
  <2>2. \A n \in DOMAIN << >> : << >>[n].refund # f
    BY <2>1
  <2> QED
    BY <1>0, <1>1, <2>1, <2>2, RefundKept
<1>2. ASSUME NEW door \in {"payme", "manual"}, NEW amount \in Amounts,
             ConfirmPayment(door, amount)
      PROVE  RefundInv(f)'
  <2> DEFINE rows == EntriesForShares(SplitPayment(amount, rules), NoRefund)
  <2>1. amount \in Nat /\ Fits(amount, rules)
    BY <1>2, RefundsAssumption DEF ConfirmPayment
  <2>2. rows \in Seq(LedgerRow) /\ \A n \in DOMAIN rows : rows[n].refund # f
    BY <1>0, <2>1, PaymentRows
  <2>3. /\ ledger' = ledger \o rows
        /\ UNCHANGED <<status, final_amount, components, approving, seen>>
    BY <1>2 DEF ConfirmPayment, decisionVars
  <2> HIDE DEF rows
  <2> QED
    BY <1>0, <2>2, <2>3, RefundKept
<1>3. ASSUME RecordReversal PROVE RefundInv(f)'
  <2>1. Corrections \in Seq(LedgerRow) /\ \A n \in DOMAIN Corrections : Corrections[n].refund # f
    BY <1>0, CorrectionRows
  <2>2. /\ ledger' = ledger \o Corrections
        /\ UNCHANGED <<status, final_amount, components, approving, seen>>
    BY <1>3 DEF RecordReversal, decisionVars
  <2> QED
    BY <1>0, <2>1, <2>2, RefundKept
<1>4. ASSUME NEW g \in Refunds \ {f}, CommitApproval(g)
      PROVE  RefundInv(f)'
  <2>1. final_amount[g] > 0 /\ BreakdownIsComplete(final_amount[g], components[g])
    BY <1>4 DEF CommitApproval, RefundsInv, RefundInv
  <2>2. /\ RefundEntries(g) \in Seq(LedgerRow)
        /\ \A n \in DOMAIN RefundEntries(g) : RefundEntries(g)[n].refund # f
    BY <1>0, <2>1, RefundRows
  <2>3. /\ ledger' = ledger \o RefundEntries(g)
        /\ status'[f] = status[f] /\ (f \in approving' => f \in approving)
        /\ UNCHANGED <<final_amount, components, seen>>
    BY <1>0, <1>4 DEF CommitApproval, decisionVars, TypeOK
  <2> QED
    BY <1>0, <2>2, <2>3, RefundKept
<1>5. ASSUME NEW g \in Refunds \ {f},
             \/ RequestRefund(g)
             \/ \E amount \in Finals : \E parts \in [Parties -> 0 .. amount] :
                  SubmitRefundDecision(g, amount, parts)
             \/ BeginApproval(g) \/ AbortApproval(g) \/ RejectRefund(g)
      PROVE  RefundInv(f)'
  <2>1. /\ ledger' = ledger /\ status'[f] = status[f]
        /\ final_amount'[f] = final_amount[f] /\ components'[f] = components[f]
        /\ seen'[f] = seen[f] /\ (f \in approving' => f \in approving)
    BY <1>0, <1>5 DEF RequestRefund, SubmitRefundDecision, BeginApproval, AbortApproval,
                      RejectRefund, decisionVars, TypeOK
  <2> QED
    BY <1>1, <2>1
<1>6. ASSUME ExpireInvoice \/ UNCHANGED vars PROVE RefundInv(f)'
  BY <1>1, <1>6 DEF ExpireInvoice, vars, decisionVars
<1> QED
  BY <1>2, <1>3, <1>4, <1>5, <1>6

\* The steps of the refund itself.
LEMMA OwnStepsKeep ==
  ASSUME RefundsInv, NEW f \in Refunds,
         \/ RequestRefund(f)
         \/ \E amount \in Finals : \E parts \in [Parties -> 0 .. amount] :
              SubmitRefundDecision(f, amount, parts)
         \/ BeginApproval(f) \/ CommitApproval(f) \/ AbortApproval(f) \/ RejectRefund(f)
  PROVE  RefundInv(f)'
<1>0. /\ TypeOK /\ RefundInv(f) /\ ledger \in Seq(LedgerRow)
      /\ DOMAIN ledger = 1 .. Len(ledger) /\ Len(ledger) \in Nat
  BY DEF RefundsInv, TypeOK
<1>1. ASSUME RequestRefund(f) PROVE RefundInv(f)'
  <2>1. /\ status[f] = "none" /\ status'[f] = "requested"
        /\ UNCHANGED <<ledger, final_amount, components, approving, seen>>
    BY <1>0, <1>1 DEF RequestRefund, decisionVars, TypeOK
  <2>2. RowsOf(f) = {} /\ f \notin approving
    BY <1>0, <2>1 DEF RefundInv
  <2> QED
    BY <2>1, <2>2 DEF RefundInv, RowsOf
<1>2. ASSUME NEW amount \in Finals, NEW parts \in [Parties -> 0 .. amount],
             SubmitRefundDecision(f, amount, parts)
      PROVE  RefundInv(f)'
  <2>1. /\ status[f] = "requested" /\ status'[f] = "in_review"
        /\ final_amount'[f] = amount /\ components'[f] = parts
        /\ BreakdownIsComplete(amount, parts)
        /\ UNCHANGED <<ledger, approving, seen>>
    BY <1>0, <1>2 DEF SubmitRefundDecision, TypeOK
  <2>2. RowsOf(f) = {} /\ f \notin approving
    BY <1>0, <2>1 DEF RefundInv
  <2>3. amount > 0
    BY RefundsAssumption
  <2> QED
    BY <2>1, <2>2, <2>3 DEF RefundInv, RowsOf, BreakdownIsComplete
<1>3. ASSUME BeginApproval(f) PROVE RefundInv(f)'
  <2>1. /\ status[f] = "in_review" /\ seen'[f] = Len(ledger)
        /\ final_amount[f] <= Booked(ledger, DOMAIN ledger)
        /\ UNCHANGED <<ledger, status, final_amount, components>>
    BY <1>0, <1>3 DEF BeginApproval, decisionVars, TypeOK, Balance, Total
  <2>2. ReadFits(f)'
    BY <1>0, <2>1 DEF ReadFits
  <2> QED
    BY <1>0, <2>1, <2>2 DEF RefundInv, RowsOf, BreakdownIsComplete
<1>4. ASSUME CommitApproval(f) PROVE RefundInv(f)'
  BY <1>0, <1>4, RefundIsWhole
<1>5. ASSUME AbortApproval(f) PROVE RefundInv(f)'
  <2>1. /\ f \notin approving' /\ UNCHANGED <<ledger, status, final_amount, components, seen>>
    BY <1>5 DEF AbortApproval, decisionVars
  <2> QED
    BY <1>0, <2>1 DEF RefundInv, RowsOf, BreakdownIsComplete, ReadFits, BookedWhole
<1>6. ASSUME RejectRefund(f) PROVE RefundInv(f)'
  <2>1. /\ status[f] = "in_review" /\ status'[f] = "rejected" /\ f \notin approving
        /\ UNCHANGED <<ledger, approving>>
    BY <1>0, <1>6 DEF RejectRefund, TypeOK
  <2> QED
    BY <1>0, <2>1 DEF RefundInv, RowsOf
<1> QED
  BY <1>1, <1>2, <1>3, <1>4, <1>5, <1>6

\* An invoice that was just issued satisfies the invariant.
LEMMA RefundsInitially == Init => RefundsInv
<1> SUFFICES ASSUME Init PROVE RefundsInv
  OBVIOUS
<1>1. ledger = << >> /\ DOMAIN ledger = {} /\ ledger \in Seq(LedgerRow)
  BY DEF Init
<1>2. price \in Prices /\ price \in Nat /\ rules \in RuleSets
  BY RefundsAssumption DEF Init
<1>3. TypeOK
  <2>1. status \in [Refunds -> REFUND_STATUSES]
    BY DEF Init, REFUND_STATUSES
  <2> QED
    BY <1>1, <1>2, <2>1 DEF Init, TypeOK
<1>4. NothingBeforePayment
  BY DEF Init, NothingBeforePayment
<1>5. \A type : Rows(type) = {}
  BY <1>1 DEF Rows
<1>6. Booked(ledger, {}) = 0
  BY SumOfNone DEF Booked
<1>7. MoneyInv
  BY <1>1, <1>5, <1>6 DEF Init, MoneyInv, SplitLosesNothing, ReversalCancelsPayment,
                          RowsHaveTheirCause
<1>8. \A f \in Refunds : RefundInv(f)
  BY <1>1 DEF Init, RefundInv, RowsOf
<1> QED
  BY <1>3, <1>4, <1>7, <1>8 DEF RefundsInv

\* Every request, commit, rollback and sweep keeps the invariant.
LEMMA RefundsInductive == RefundsInv /\ [Next]_vars => RefundsInv'
<1> SUFFICES ASSUME RefundsInv, [Next]_vars PROVE RefundsInv'
  OBVIOUS
<1>1. TypeOK' /\ NothingBeforePayment'
  BY TypesKept, PaymentComesFirst DEF RefundsInv
<1>2. MoneyInv'
  BY MoneyInductive
<1>3. ASSUME NEW f \in Refunds PROVE RefundInv(f)'
  BY OtherRefundsKept, OwnStepsKeep DEF Next
<1> QED
  BY <1>1, <1>2, <1>3 DEF RefundsInv

\* The ledger, the payment and the refunds agree in every reachable state, in the way
\* RefundsInv says.
THEOREM RefundsInvariant == Spec => []RefundsInv
BY RefundsInitially, RefundsInductive, PTL DEF Spec

-----------------------------------------------------------------------------
(* What it says.                                                            *)

\* Every column keeps its type: no status the table does not know, no row of nobody.
THEOREM TypeCorrect == Spec => []TypeOK
<1>1. RefundsInv => TypeOK
  BY DEF RefundsInv
<1> QED
  BY <1>1, RefundsInvariant, PTL

\* Whatever the rules and the rounding, the rows of the payment add up to what arrived, and
\* none of them is below zero.
THEOREM NothingIsLost == Spec => []SplitLosesNothing
<1>1. RefundsInv => SplitLosesNothing
  BY DEF RefundsInv, MoneyInv
<1> QED
  BY <1>1, RefundsInvariant, PTL

\* After a reversal nobody keeps anything of the transaction, whatever was refunded between.
THEOREM ReversalCancels == Spec => []ReversalCancelsPayment
<1>1. RefundsInv => ReversalCancelsPayment
  BY DEF RefundsInv, MoneyInv
<1> QED
  BY <1>1, RefundsInvariant, PTL

\* However approvals, rejections and failed requests cross, a returned refund is in the
\* ledger once and in full, any other one not at all.
THEOREM BookedExactlyOnce == Spec => []RefundBookedOnce
<1>1. RefundsInv => RefundBookedOnce
  <2> SUFFICES ASSUME RefundsInv, NEW f \in Refunds
               PROVE  Booked(ledger, RowsOf(f))
                        = IF status[f] = "returned" THEN - final_amount[f] ELSE 0
    BY DEF RefundBookedOnce
  <2>1. RefundInv(f)
    BY DEF RefundsInv
  <2>2. CASE status[f] = "returned"
    BY <2>1, <2>2 DEF RefundInv, BookedWhole
  <2>3. CASE status[f] # "returned"
    <3>1. RowsOf(f) = {}
      BY <2>1, <2>3 DEF RefundInv
    <3>2. Booked(ledger, {}) = 0
      BY SumOfNone DEF Booked
    <3> QED
      BY <2>3, <3>1, <3>2
  <2> QED
    BY <2>2, <2>3
<1> QED
  BY <1>1, RefundsInvariant, PTL

\* An approval that saw every row before its own leaves a balance of zero or more, on any
\* invoice: what overdraws the ledger is never one approval, only two that cross.
THEOREM FreshApprovalsFit == Spec => []FreshApprovalFits
<1>1. RefundsInv => FreshApprovalFits
  <2> SUFFICES ASSUME RefundsInv, NEW f \in Refunds, status[f] = "returned", SawAll(f)
               PROVE  BalanceAfter(f) >= 0
    BY DEF FreshApprovalFits
  <2>1. /\ ledger \in Seq(LedgerRow) /\ Len(ledger) \in Nat
        /\ DOMAIN ledger = 1 .. Len(ledger)
        /\ seen[f] \in Nat /\ final_amount[f] \in Nat
    BY DEF RefundsInv, TypeOK
  <2>2. ReadFits(f) /\ BookedWhole(f)
    BY DEF RefundsInv, RefundInv
  <2>3. PICK m, n \in 0 .. Len(ledger) :
          /\ seen[f] <= m /\ m < n
          /\ RowsOf(f) = m + 1 .. n
          /\ Booked(ledger, m + 1 .. n) = - final_amount[f]
    BY <2>2 DEF BookedWhole
  <2>4. LastRow(f) = n
    <3>1. n \in RowsOf(f) /\ \A j \in RowsOf(f) : j <= n
      BY <2>1, <2>3
    <3>2. \A i \in RowsOf(f) : (\A j \in RowsOf(f) : j <= i) => i = n
      BY <2>1, <2>3, <3>1
    <3> QED
      BY <3>1, <3>2 DEF LastRow
  <2>5. Cardinality(RowsOf(f)) = n - m
    <3>1. Cardinality(m + 1 .. n) = n - (m + 1) + 1
      BY <2>1, <2>3, FS_Interval
    <3> QED
      BY <2>1, <2>3, <3>1
  <2>6. seen[f] = m
    BY <2>1, <2>3, <2>4, <2>5 DEF SawAll
  <2>7. final_amount[f] <= Booked(ledger, 1 .. m)
    BY <2>2, <2>6 DEF ReadFits
  <2>8. /\ 1 .. m \in SUBSET (DOMAIN ledger) /\ m + 1 .. n \in SUBSET (DOMAIN ledger)
        /\ (1 .. m) \cap (m + 1 .. n) = {} /\ (1 .. m) \cup (m + 1 .. n) = 1 .. n
    BY <2>1, <2>3
  <2>9. Booked(ledger, 1 .. n) = Booked(ledger, 1 .. m) + Booked(ledger, m + 1 .. n)
    <3>1. Booked(ledger, (1 .. m) \cup (m + 1 .. n))
            = Booked(ledger, 1 .. m) + Booked(ledger, m + 1 .. n)
      BY <2>1, <2>8, BookedTogether
    <3> QED
      BY <2>8, <3>1
  <2>10. Booked(ledger, 1 .. m) \in Int
    BY <2>1, <2>8, BookedIsInt
  <2> QED
    BY <2>1, <2>3, <2>4, <2>7, <2>9, <2>10 DEF BalanceAfter
<1> QED
  BY <1>1, RefundsInvariant, PTL

-----------------------------------------------------------------------------
(* The balance.                                                             *)

\* What was given back, and what is kept of what arrived.
GivenBack(f) == IF status[f] = "returned" THEN final_amount[f] ELSE 0
AllGivenBack == SumFunctionOnSet([f \in Refunds |-> GivenBack(f)], Refunds)
Kept == IF transaction = "reversed" THEN 0 ELSE arrived

BalanceAccounted == Balance = Kept - AllGivenBack

\* New rows change the balance by what they add up to.
LEMMA BalanceGrows ==
  ASSUME NEW rows \in Seq(LedgerRow), NEW more \in Seq(LedgerRow)
  PROVE  LET all == rows \o more
         IN /\ Total(rows) \in Int /\ Booked(all, DOMAIN all \ DOMAIN rows) \in Int
            /\ Total(all) = Total(rows) + Booked(all, DOMAIN all \ DOMAIN rows)
<1> DEFINE all == rows \o more
           new == DOMAIN all \ DOMAIN rows
<1>1. /\ all \in Seq(LedgerRow) /\ DOMAIN rows \subseteq DOMAIN all
      /\ Booked(all, DOMAIN rows) = Booked(rows, DOMAIN rows)
  BY AppendedRows
<1> HIDE DEF all
<1>2. DOMAIN rows \cup new = DOMAIN all /\ DOMAIN rows \cap new = {}
  BY <1>1
<1>3. new \in SUBSET (DOMAIN all)
  OBVIOUS
<1> HIDE DEF new
<1>4. Booked(all, DOMAIN rows \cup new) = Booked(all, DOMAIN rows) + Booked(all, new)
  BY <1>1, <1>2, <1>3, BookedTogether
<1>5. Booked(all, new) \in Int /\ Booked(rows, DOMAIN rows) \in Int
  BY <1>1, <1>3, BookedIsInt
<1> QED
  BY <1>1, <1>2, <1>4, <1>5 DEF all, new, Total

\* The corrections of a reversal add up to what arrived, below zero.
LEMMA CorrectionsTotal ==
  ASSUME TypeOK, SplitLosesNothing
  PROVE  Booked(ledger \o Corrections, DOMAIN (ledger \o Corrections) \ DOMAIN ledger)
           = - arrived
<1> DEFINE D == Rows("payment")
           list == SetToSeq(D)
           g == [i \in DOMAIN ledger |-> ledger[i].amount]
           more == Corrections
           all == ledger \o more
           new == DOMAIN all \ DOMAIN ledger
<1>0. ledger \in Seq(LedgerRow) /\ more \in Seq(LedgerRow) /\ arrived \in Nat
  BY CorrectionRows DEF TypeOK
<1>1. D \subseteq DOMAIN ledger
  BY DEF Rows
<1> HIDE DEF D
<1>2. IsFiniteSet(D)
  BY <1>0, <1>1, BookedIsInt
<1>3. list \in Seq(D) /\ \A n \in DOMAIN list : list[n] \in D
  <2>1. list \in Seq(D)
    BY <1>2, SetToSeqLists
  <2> QED
    BY <2>1
<1>4. /\ DOMAIN more = DOMAIN list
      /\ \A n \in DOMAIN list : more[n].amount = - ledger[list[n]].amount
  BY DEF Corrections, Entry, D
<1> HIDE DEF more, list
<1>5. \A n \in DOMAIN more : g[list[n]] = - more[n].amount
  <2> SUFFICES ASSUME NEW n \in DOMAIN more PROVE g[list[n]] = - more[n].amount
    OBVIOUS
  <2>1. list[n] \in DOMAIN ledger
    BY <1>1, <1>3, <1>4
  <2>2. ledger[list[n]] \in LedgerRow
    BY <1>0, <2>1
  <2>3. ledger[list[n]].amount \in Int
    BY <2>2, RowFields
  <2>4. more[n].amount = - ledger[list[n]].amount /\ g[list[n]] = ledger[list[n]].amount
    BY <1>4, <2>1
  <2> QED
    BY <2>3, <2>4
<1>6. new = {i \in DOMAIN all \ DOMAIN ledger : list[i - Len(ledger)] \in D}
  <2>1. \A i \in DOMAIN all \ DOMAIN ledger : i - Len(ledger) \in DOMAIN more
    BY <1>0, AppendedRows
  <2> QED
    BY <1>3, <1>4, <2>1
<1>7. SumFunctionOnSet(g, D) = arrived
  BY DEF SplitLosesNothing, Booked, D
<1> HIDE DEF g, new
<1>8. Booked(all, {i \in DOMAIN all \ DOMAIN ledger : list[i - Len(ledger)] \in D})
        + SumFunctionOnSet(g, D) = 0
  <2>1. DOMAIN more = DOMAIN list /\ D \in SUBSET D
    BY <1>4
  <2> QED
    BY <1>0, <1>2, <1>5, <2>1, OppositeRows DEF list
<1>9. Booked(all, new) + arrived = 0
  BY <1>6, <1>7, <1>8
<1>10. Booked(all, new) \in Int
  BY <1>0, BalanceGrows DEF new
<1>11. Booked(all, new) = - arrived
  BY <1>0, <1>9, <1>10
<1> QED
  BY <1>11 DEF new, more

\* Who is not returned yet, or stays as it is, changes nothing of what was given back.
LEMMA GivenBackKept ==
  ASSUME \A f \in Refunds : GivenBack(f)' = GivenBack(f)
  PROVE  AllGivenBack' = AllGivenBack
<1> DEFINE g == [f \in Refunds |-> GivenBack(f)]
           h == [f \in Refunds |-> GivenBack(f)']
<1>1. \A f \in Refunds : h[f] = g[f]
  OBVIOUS
<1> HIDE DEF g, h
<1>2. SumFunctionOnSet(h, Refunds) = SumFunctionOnSet(g, Refunds)
  BY <1>1, SumOfSame, RefundsAssumption
<1> QED
  BY <1>2 DEF g, h, AllGivenBack

\* One more refund is given back.
LEMMA GivenBackGrows ==
  ASSUME TypeOK, TypeOK', NEW f \in Refunds,
         \A e \in Refunds \ {f} : GivenBack(e)' = GivenBack(e),
         GivenBack(f) = 0
  PROVE  AllGivenBack' = AllGivenBack + GivenBack(f)'
<1> DEFINE g == [e \in Refunds |-> GivenBack(e)]
           h == [e \in Refunds |-> GivenBack(e)']
           rest == Refunds \ {f}
<1>1. /\ \A e \in Refunds : g[e] \in Int
      /\ \A e \in Refunds : h[e] \in Int
  BY DEF TypeOK, GivenBack
<1>2. \A e \in rest : h[e] = g[e]
  OBVIOUS
<1>3. g[f] = 0 /\ h[f] = GivenBack(f)'
  OBVIOUS
<1>4. IsFiniteSet(Refunds) /\ IsFiniteSet(rest)
  BY RefundsAssumption, FS_Subset
<1> HIDE DEF g, h
<1>5. /\ SumFunctionOnSet(g, Refunds) = g[f] + SumFunctionOnSet(g, rest)
      /\ SumFunctionOnSet(h, Refunds) = h[f] + SumFunctionOnSet(h, rest)
  BY <1>1, <1>4, SumTakes
<1>6. SumFunctionOnSet(h, rest) = SumFunctionOnSet(g, rest)
  BY <1>2, <1>4, SumOfSame
<1>7. SumFunctionOnSet(g, rest) \in Int
  BY <1>1, <1>4, SumIsInt
<1>8. AllGivenBack = SumFunctionOnSet(g, Refunds) /\ AllGivenBack' = SumFunctionOnSet(h, Refunds)
  BY DEF AllGivenBack, g, h
<1>9. h[f] \in Int
  BY <1>1
<1> HIDE DEF rest
<1> QED
  BY <1>3, <1>5, <1>6, <1>7, <1>8, <1>9

\* A sum of whole amounts.
LEMMA GivenBackIsInt == TypeOK => AllGivenBack \in Int
<1> DEFINE g == [e \in Refunds |-> GivenBack(e)]
<1> SUFFICES ASSUME TypeOK PROVE AllGivenBack \in Int
  OBVIOUS
<1>1. \A e \in Refunds : g[e] \in Int
  BY DEF TypeOK, GivenBack
<1> HIDE DEF g
<1>2. SumFunctionOnSet(g, Refunds) \in Int
  BY <1>1, SumIsInt, RefundsAssumption
<1> QED
  BY <1>2 DEF AllGivenBack, g

\* Every step changes the balance by what the step is about.
LEMMA BalanceInductive ==
  ASSUME RefundsInv, RefundsInv', BalanceAccounted, [Next]_vars
  PROVE  BalanceAccounted'
<1>0. /\ TypeOK /\ TypeOK' /\ NothingBeforePayment /\ SplitLosesNothing
      /\ ledger \in Seq(LedgerRow) /\ rules \in Seq(Rule) /\ arrived \in Nat
      /\ AllGivenBack \in Int /\ Balance = Total(ledger) /\ Balance' = Total(ledger')
  BY RefundsAssumption, GivenBackIsInt DEF RefundsInv, TypeOK, MoneyInv, Balance
<1>1. ASSUME UNCHANGED <<ledger, transaction, arrived>>,
             \A f \in Refunds : GivenBack(f)' = GivenBack(f)
      PROVE  BalanceAccounted'
  <2>1. AllGivenBack' = AllGivenBack
    BY <1>1, GivenBackKept
  <2> QED
    BY <1>0, <1>1, <2>1 DEF BalanceAccounted, Kept
<1>2. ASSUME NEW door \in {"payme", "manual"}, NEW amount \in Amounts,
             ConfirmPayment(door, amount)
      PROVE  BalanceAccounted'
  <2> DEFINE rows == EntriesForShares(SplitPayment(amount, rules), NoRefund)
  <2>1. amount \in Nat /\ Fits(amount, rules)
    BY <1>2, RefundsAssumption DEF ConfirmPayment
  <2>2. rows \in Seq(LedgerRow) /\ Booked(rows, DOMAIN rows) = amount
    BY <1>0, <2>1, PaymentRows
  <2>3. /\ ledger = << >> /\ ledger' = ledger \o rows
        /\ transaction = "none" /\ arrived = 0
        /\ transaction' # "reversed" /\ arrived' = amount
        /\ UNCHANGED <<status, final_amount>>
    BY <1>0, <1>2 DEF ConfirmPayment, NothingBeforePayment, decisionVars
  <2> HIDE DEF rows
  <2>4. ledger' = rows
    BY <2>2, <2>3
  <2>5. Total(ledger') = amount
    BY <2>2, <2>4 DEF Total
  <2>6. Total(ledger) = 0
    BY <2>3, SumOfNone DEF Total, Booked
  <2>7. AllGivenBack' = AllGivenBack
    BY <2>3, GivenBackKept DEF GivenBack
  <2>8. AllGivenBack = 0
    BY <1>0, <2>3, <2>6 DEF BalanceAccounted, Kept
  <2> QED
    BY <1>0, <2>1, <2>3, <2>5, <2>7, <2>8 DEF BalanceAccounted, Kept
<1>3. ASSUME RecordReversal PROVE BalanceAccounted'
  <2>1. /\ ledger' = ledger \o Corrections /\ transaction = "payme"
        /\ transaction' = "reversed" /\ UNCHANGED <<arrived, status, final_amount>>
    BY <1>3 DEF RecordReversal, decisionVars
  <2>2. Corrections \in Seq(LedgerRow)
    BY <1>0, CorrectionRows
  <2>3. Total(ledger') = Total(ledger) - arrived
    <3>1. Booked(ledger', DOMAIN ledger' \ DOMAIN ledger) = - arrived
      BY <1>0, <2>1, CorrectionsTotal
    <3>2. /\ Total(ledger) \in Int
          /\ Total(ledger') = Total(ledger) + Booked(ledger', DOMAIN ledger' \ DOMAIN ledger)
      BY <1>0, <2>1, <2>2, BalanceGrows
    <3> QED
      BY <1>0, <3>1, <3>2
  <2>4. AllGivenBack' = AllGivenBack
    BY <2>1, GivenBackKept DEF GivenBack
  <2> QED
    BY <1>0, <2>1, <2>3, <2>4 DEF BalanceAccounted, Kept
<1>4. ASSUME NEW f \in Refunds, CommitApproval(f)
      PROVE  BalanceAccounted'
  <2>1. /\ status[f] = "in_review" /\ final_amount[f] > 0
        /\ BreakdownIsComplete(final_amount[f], components[f])
    BY <1>4 DEF CommitApproval, RefundsInv, RefundInv
  <2>2. /\ ledger' = ledger \o RefundEntries(f) /\ status'[f] = "returned"
        /\ \A e \in Refunds \ {f} : status'[e] = status[e]
        /\ UNCHANGED <<transaction, arrived, final_amount>>
    BY <1>0, <1>4 DEF CommitApproval, decisionVars, paymentVars, TypeOK
  <2>3. /\ RefundEntries(f) \in Seq(LedgerRow)
        /\ Booked(ledger', DOMAIN ledger' \ DOMAIN ledger) = - final_amount[f]
    BY <1>0, <2>1, <2>2, RefundRows
  <2>4. /\ Total(ledger) \in Int
        /\ Total(ledger') = Total(ledger) + Booked(ledger', DOMAIN ledger' \ DOMAIN ledger)
    BY <1>0, <2>2, <2>3, BalanceGrows
  <2>5. GivenBack(f) = 0 /\ GivenBack(f)' = final_amount[f]
    BY <2>1, <2>2 DEF GivenBack
  <2>6. \A e \in Refunds \ {f} : GivenBack(e)' = GivenBack(e)
    BY <2>2 DEF GivenBack
  <2>7. AllGivenBack' = AllGivenBack + final_amount[f]
    BY <1>0, <2>5, <2>6, GivenBackGrows
  <2>8. final_amount[f] \in Nat
    BY <1>0 DEF TypeOK
  <2>9. Total(ledger') = Total(ledger) - final_amount[f]
    BY <2>3, <2>4, <2>8
  <2> QED
    BY <1>0, <2>2, <2>7, <2>8, <2>9 DEF BalanceAccounted, Kept
<1>5. ASSUME NEW f \in Refunds,
             \/ RequestRefund(f)
             \/ \E amount \in Finals : \E parts \in [Parties -> 0 .. amount] :
                  SubmitRefundDecision(f, amount, parts)
             \/ BeginApproval(f) \/ AbortApproval(f) \/ RejectRefund(f)
      PROVE  BalanceAccounted'
  <2>1. UNCHANGED <<ledger, transaction, arrived>>
    BY <1>5 DEF RequestRefund, SubmitRefundDecision, BeginApproval, AbortApproval,
                RejectRefund, paymentVars
  <2>2. \A e \in Refunds : GivenBack(e)' = GivenBack(e)
    BY <1>0, <1>5 DEF RequestRefund, SubmitRefundDecision, BeginApproval, AbortApproval,
                      RejectRefund, decisionVars, GivenBack, TypeOK
  <2> QED
    BY <1>1, <2>1, <2>2
<1>6. ASSUME ExpireInvoice \/ UNCHANGED vars PROVE BalanceAccounted'
  BY <1>1, <1>6 DEF ExpireInvoice, vars, paymentVars, decisionVars, GivenBack
<1> QED
  BY <1>2, <1>3, <1>4, <1>5, <1>6 DEF Next

\* The balance the approvals read is accounted for in every state: what arrived, unless it
\* was reversed, less every refund that was returned.  So a balance below zero, which
\* crossing approvals and a reversal after a refund can leave, is refunds and nothing else.
THEOREM BalanceIsAccounted == Spec => []BalanceAccounted
<1>1. Init => BalanceAccounted
  <2> SUFFICES ASSUME Init PROVE BalanceAccounted
    OBVIOUS
  <2>1. Balance = 0
    BY SumOfNone DEF Init, Balance, Total, Booked
  <2> DEFINE g == [f \in Refunds |-> GivenBack(f)]
  <2>2. \A f \in Refunds : g[f] = 0
    BY DEF Init, GivenBack
  <2> HIDE DEF g
  <2>3. SumFunctionOnSet(g, Refunds) = 0
    BY <2>2, SumOfZeros, RefundsAssumption
  <2>4. AllGivenBack = 0 /\ Kept = 0
    BY <2>3 DEF AllGivenBack, g, Kept, Init
  <2> QED
    BY <2>1, <2>4 DEF BalanceAccounted
<1>2. RefundsInv /\ RefundsInv' /\ BalanceAccounted /\ [Next]_vars => BalanceAccounted'
  BY BalanceInductive
<1> QED
  BY <1>1, <1>2, RefundsInvariant, PTL DEF Spec
=============================================================================
