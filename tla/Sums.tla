---------------------------------- MODULE Sums ----------------------------------
(***************************************************************************)
(* Sums of finitely many numbers, as Boards and Comparison count them: the *)
(* sum of the n[i] is the number of pairs of an i with one of 1 .. n[i].   *)
(* So it can be reasoned about without induction: what is cut into         *)
(* disjoint parts has as many members as the numbers of the parts add up   *)
(* to.                                                                     *)
(***************************************************************************)
EXTENDS FiniteSetTheorems, FunctionTheorems, TLAPS

\* The pairs that stand for a sum of finitely many numbers are finitely many.
LEMMA PairsAreFinite ==
    ASSUME NEW I, IsFiniteSet(I), NEW n, \A i \in I : n[i] \in Nat
    PROVE  IsFiniteSet(UNION {{i} \X (1 .. n[i]) : i \in I})
<1> DEFINE rows == [i \in I |-> {i} \X (1 .. n[i])]
           all == {{i} \X (1 .. n[i]) : i \in I}
<1>1. rows \in Surjection(I, all)
    <2>1. rows \in [I -> all] OBVIOUS
    <2>2. \A t \in all : \E i \in I : rows[i] = t OBVIOUS
    <2> QED BY <2>1, <2>2, Fun_IsSurj
<1>2. IsFiniteSet(all) BY <1>1, FS_Surjection
<1>3. \A i \in I : IsFiniteSet({i} \X (1 .. n[i]))
    <2> SUFFICES ASSUME NEW i \in I PROVE IsFiniteSet({i} \X (1 .. n[i])) OBVIOUS
    <2>1. IsFiniteSet({i}) BY FS_Singleton
    <2>2. IsFiniteSet(1 .. n[i]) BY FS_Interval
    <2> QED BY <2>1, <2>2, FS_Product
<1>4. \A T \in all : IsFiniteSet(T) BY <1>3
<1> QED BY <1>2, <1>4, FS_UNION

\* h numbers the members of S from 1 to k.
Numbers(h, k, S) ==
    /\ h \in [1 .. k -> S]
    /\ \A a, b \in 1 .. k : h[a] = h[b] => a = b
    /\ \A x \in S : \E a \in 1 .. k : h[a] = x

LEMMA FiniteIsNumbered ==
    ASSUME NEW S, IsFiniteSet(S)
    PROVE  Cardinality(S) \in Nat /\ \E h : Numbers(h, Cardinality(S), S)
<1>1. Cardinality(S) \in Nat /\ ExistsBijection(1 .. Cardinality(S), S) BY FS_CardinalityType
<1>2. PICK h \in Bijection(1 .. Cardinality(S), S) : TRUE BY <1>1 DEF ExistsBijection
<1>3. PICK nums : nums = 1 .. Cardinality(S) OBVIOUS
<1>4. h \in Bijection(nums, S) BY <1>3
<1>5. /\ h \in [nums -> S]
      /\ \A a, b \in nums : h[a] = h[b] => a = b
      /\ \A x \in S : \E a \in nums : h[a] = x
    BY <1>4, Fun_BijectionProperties
<1>6. Numbers(h, Cardinality(S), S) BY <1>3, <1>5, Zenon DEF Numbers
<1> QED BY <1>1, <1>6

\* The sum of the numbers n of the members of I.
SumOver(n, I) == Cardinality(UNION {{i} \X (1 .. n[i]) : i \in I})

\* Whole is cut into finitely many disjoint parts, of n members each.
Splits(Part, n, I, Whole) ==
    /\ IsFiniteSet(I) /\ IsFiniteSet(Whole)
    /\ \A i \in I : Part[i] \subseteq Whole /\ n[i] = Cardinality(Part[i])
    /\ \A x \in Whole : \E i \in I : x \in Part[i]
    /\ \A i, j \in I : i # j => Part[i] \cap Part[j] = {}

\* A finite set cut into disjoint parts is counted part by part.
LEMMA PartsAddUp ==
    ASSUME NEW I, NEW Whole, NEW Part, NEW n, Splits(Part, n, I, Whole)
    PROVE  Cardinality(Whole) = SumOver(n, I)
<1>0. /\ IsFiniteSet(I) /\ IsFiniteSet(Whole)
      /\ \A i \in I : Part[i] \subseteq Whole /\ n[i] = Cardinality(Part[i])
      /\ \A x \in Whole : \E i \in I : x \in Part[i]
      /\ \A i, j \in I : i # j => Part[i] \cap Part[j] = {}
    BY DEF Splits
<1> USE <1>0
<1> DEFINE pairs == UNION {{i} \X (1 .. n[i]) : i \in I}
           count == [i \in I |-> CHOOSE h : Numbers(h, n[i], Part[i])]
           member == [p \in pairs |-> count[p[1]][p[2]]]
<1>1. \A i \in I : n[i] \in Nat /\ Numbers(count[i], n[i], Part[i])
    <2> SUFFICES ASSUME NEW i \in I PROVE n[i] \in Nat /\ Numbers(count[i], n[i], Part[i])
        OBVIOUS
    <2>1. IsFiniteSet(Part[i]) BY FS_Subset
    <2>2. n[i] \in Nat /\ \E h : Numbers(h, n[i], Part[i]) BY <2>1, FiniteIsNumbered
    <2> QED BY <2>2
<1>2. \A i \in I : /\ count[i] \in [1 .. n[i] -> Part[i]]
                   /\ \A a, b \in 1 .. n[i] : count[i][a] = count[i][b] => a = b
                   /\ \A x \in Part[i] : \E a \in 1 .. n[i] : count[i][a] = x
    BY <1>1 DEF Numbers
<1> HIDE DEF count
<1>3. \A p \in pairs : p[1] \in I /\ p[2] \in 1 .. n[p[1]] /\ p = <<p[1], p[2]>>
    OBVIOUS
<1>4. \A i \in I : \A a \in 1 .. n[i] : <<i, a>> \in pairs
    OBVIOUS
<1> HIDE DEF pairs
<1>a. \A p \in pairs : member[p] \in Part[p[1]]
    <2> SUFFICES ASSUME NEW p \in pairs PROVE count[p[1]][p[2]] \in Part[p[1]] OBVIOUS
    <2>1. p[1] \in I /\ p[2] \in 1 .. n[p[1]] BY <1>3
    <2>2. count[p[1]] \in [1 .. n[p[1]] -> Part[p[1]]] BY <2>1, <1>2
    <2> QED BY <2>1, <2>2
<1>5. member \in [pairs -> Whole] BY <1>a, <1>3
<1>6. \A p, q \in pairs : member[p] = member[q] => p = q
    <2> SUFFICES ASSUME NEW p \in pairs, NEW q \in pairs, member[p] = member[q] PROVE p = q
        OBVIOUS
    <2>1. member[p] \in Part[p[1]] /\ member[q] \in Part[q[1]] BY <1>a
    <2>2. p[1] = q[1] BY <2>1, <1>3
    <2>3. count[p[1]][p[2]] = count[p[1]][q[2]] BY <2>2
    <2>4. p[2] = q[2] BY <2>2, <2>3, <1>2, <1>3
    <2> QED BY <2>2, <2>4, <1>3
<1>7. \A x \in Whole : \E p \in pairs : member[p] = x
    <2> SUFFICES ASSUME NEW x \in Whole PROVE \E p \in pairs : member[p] = x OBVIOUS
    <2>1. PICK i \in I : x \in Part[i] OBVIOUS
    <2>2. PICK a \in 1 .. n[i] : count[i][a] = x BY <1>2, <2>1
    <2>3. <<i, a>> \in pairs /\ member[<<i, a>>] = x BY <1>4, <2>1, <2>2
    <2> QED BY <2>3
<1>8. member \in Bijection(pairs, Whole)
    <2> HIDE DEF member
    <2> QED BY <1>5, <1>6, <1>7, Fun_IsBij
<1>9. IsFiniteSet(pairs) BY <1>1, PairsAreFinite DEF pairs
<1> QED BY <1>8, <1>9, FS_Bijection DEF ExistsBijection, pairs, SumOver

LEMMA TwoParts ==
    ASSUME NEW A, IsFiniteSet(A), NEW B, IsFiniteSet(B), A \cap B = {}
    PROVE  /\ IsFiniteSet(A \cup B)
           /\ Cardinality(A \cup B) = Cardinality(A) + Cardinality(B)
           /\ Cardinality(A) \in Nat /\ Cardinality(B) \in Nat
<1>1. Cardinality(A) \in Nat /\ Cardinality(B) \in Nat BY FS_CardinalityType
<1>2. Cardinality(A \cap B) = 0 BY FS_EmptySet
<1>3. /\ IsFiniteSet(A \cup B)
      /\ Cardinality(A \cup B) = Cardinality(A) + Cardinality(B) - Cardinality(A \cap B)
    BY FS_Union, Zenon
<1> QED BY <1>1, <1>2, <1>3

\* area cuts whole into the parts that Ix names.
Cuts(area, Ix, whole) ==
    /\ IsFiniteSet(Ix) /\ IsFiniteSet(whole)
    /\ \A i \in Ix : area[i] \subseteq whole
    /\ \A u \in whole : \E i \in Ix : u \in area[i]
    /\ \A i, j \in Ix : i # j => area[i] \cap area[j] = {}

\* What is of some kind, counted part by part.
CountsOf(n, X, area, Ix) == \A i \in Ix : n[i] = Cardinality(X \cap area[i])

LEMMA CountAddsUp ==
    ASSUME NEW area, NEW Ix, NEW whole, Cuts(area, Ix, whole), NEW X, NEW n, CountsOf(n, X, area, Ix)
    PROVE  Cardinality(X \cap whole) = SumOver(n, Ix)
<1> DEFINE part == [i \in Ix |-> X \cap area[i]]
<1>1. IsFiniteSet(whole) BY DEF Cuts
<1>2. IsFiniteSet(X \cap whole) BY <1>1, FS_Intersection
<1>3. \A i \in Ix : part[i] \subseteq X \cap whole /\ n[i] = Cardinality(part[i])
    BY DEF Cuts, CountsOf
<1>4. \A u \in X \cap whole : \E i \in Ix : u \in part[i] BY DEF Cuts
<1>5. \A i, j \in Ix : i # j => part[i] \cap part[j] = {} BY DEF Cuts
<1>6. IsFiniteSet(Ix) BY DEF Cuts
<1> HIDE DEF part
<1>7. Splits(part, n, Ix, X \cap whole) BY <1>2, <1>3, <1>4, <1>5, <1>6 DEF Splits
<1> QED BY <1>7, PartsAddUp

\* The numbers v of what is of some kind, added up part by part.
VotesOf(n, v, X, area, Ix) ==
    \A i \in Ix : /\ \A u \in X \cap area[i] : v[u] \in Nat
                 /\ n[i] = SumOver(v, X \cap area[i])

LEMMA VotesAddUp ==
    ASSUME NEW area, NEW Ix, NEW whole, Cuts(area, Ix, whole), NEW X, NEW v, NEW n,
           VotesOf(n, v, X, area, Ix)
    PROVE  SumOver(v, X \cap whole) = SumOver(n, Ix)
<1> DEFINE votes(S) == UNION {{u} \X (1 .. v[u]) : u \in S}
           part == [i \in Ix |-> votes(X \cap area[i])]
<1>0. \A S : SumOver(v, S) = Cardinality(votes(S)) BY DEF SumOver
<1>1. IsFiniteSet(X \cap whole)
    BY FS_Intersection DEF Cuts
<1>2. \A u \in X \cap whole : v[u] \in Nat BY DEF Cuts, VotesOf
<1>3. IsFiniteSet(votes(X \cap whole)) BY <1>1, <1>2, PairsAreFinite
<1>4. \A i \in Ix : part[i] \subseteq votes(X \cap whole) /\ n[i] = Cardinality(part[i])
    <2> SUFFICES ASSUME NEW i \in Ix
                 PROVE  /\ votes(X \cap area[i]) \subseteq votes(X \cap whole)
                        /\ n[i] = Cardinality(votes(X \cap area[i]))
        OBVIOUS
    <2>1. X \cap area[i] \subseteq X \cap whole BY DEF Cuts
    <2>2. votes(X \cap area[i]) \subseteq votes(X \cap whole) BY <2>1
    <2>3. n[i] = SumOver(v, X \cap area[i]) BY DEF VotesOf
    <2> QED BY <2>2, <2>3, <1>0
<1>5. \A i \in Ix : \A p \in part[i] : p[1] \in area[i] BY DEF Cuts
<1>6. \A p \in votes(X \cap whole) : \E i \in Ix : p \in part[i]
    <2> SUFFICES ASSUME NEW u \in X \cap whole, NEW p \in {u} \X (1 .. v[u])
                 PROVE  \E i \in Ix : p \in part[i]
        OBVIOUS
    <2>1. PICK i \in Ix : u \in area[i] BY DEF Cuts
    <2>2. u \in X \cap area[i] BY <2>1
    <2>3. p \in part[i] BY <2>2
    <2> QED BY <2>3
<1>7. \A i, j \in Ix : i # j => part[i] \cap part[j] = {}
    <2> HIDE DEF part
    <2> QED BY <1>5 DEF Cuts
<1>8. IsFiniteSet(Ix) BY DEF Cuts
<1> HIDE DEF part, votes
<1>9. Splits(part, n, Ix, votes(X \cap whole)) BY <1>3, <1>4, <1>6, <1>7, <1>8 DEF Splits
<1> QED BY <1>0, <1>9, PartsAddUp

LEMMA SumIsCount ==
    ASSUME NEW I, IsFiniteSet(I), NEW n, \A i \in I : n[i] \in Nat
    PROVE  SumOver(n, I) \in Nat
    BY PairsAreFinite, FS_CardinalityType DEF SumOver

\* A sum is at least as large as the sum over fewer of its members, and as each of them.
LEMMA FewerSumLess ==
    ASSUME NEW I, IsFiniteSet(I), NEW n, \A i \in I : n[i] \in Nat, NEW J \in SUBSET I
    PROVE  SumOver(n, J) <= SumOver(n, I)
<1> DEFINE pairs(K) == UNION {{i} \X (1 .. n[i]) : i \in K}
<1>1. IsFiniteSet(pairs(I)) BY PairsAreFinite
<1>2. pairs(J) \in SUBSET pairs(I) OBVIOUS
<1> HIDE DEF pairs
<1>3. Cardinality(pairs(J)) <= Cardinality(pairs(I)) BY <1>1, <1>2, FS_Subset
<1> QED BY <1>3 DEF SumOver, pairs

LEMMA SumOfOne ==
    ASSUME NEW i, NEW n, n[i] \in Nat PROVE SumOver(n, {i}) = n[i]
<1>1. UNION {{j} \X (1 .. n[j]) : j \in {i}} = {i} \X (1 .. n[i]) OBVIOUS
<1>2. IsFiniteSet({i}) /\ Cardinality({i}) = 1 BY FS_Singleton
<1>3. IsFiniteSet(1 .. n[i]) /\ Cardinality(1 .. n[i]) = n[i] BY FS_Interval
<1>4. Cardinality({i} \X (1 .. n[i])) = Cardinality({i}) * Cardinality(1 .. n[i])
    BY <1>2, <1>3, FS_Product, Zenon
<1>5. 1 * n[i] = n[i] OBVIOUS
<1>6. Cardinality({i} \X (1 .. n[i])) = n[i] BY <1>2, <1>3, <1>4, <1>5, Zenon
<1> QED BY <1>1, <1>6 DEF SumOver
\* A sum depends on the numbers it adds, and not on those that are zero.
LEMMA SumDepends ==
    ASSUME NEW I, NEW n, NEW m, \A i \in I : n[i] = m[i]
    PROVE  SumOver(n, I) = SumOver(m, I)
<1>1. {{i} \X (1 .. n[i]) : i \in I} = {{i} \X (1 .. m[i]) : i \in I} OBVIOUS
<1> QED BY <1>1 DEF SumOver

LEMMA SumSkipsZeros ==
    ASSUME NEW I, NEW n, NEW J \in SUBSET I, \A i \in I : i \in J \/ n[i] = 0
    PROVE  SumOver(n, J) = SumOver(n, I)
<1> DEFINE all == UNION {{i} \X (1 .. n[i]) : i \in I}
           some == UNION {{i} \X (1 .. n[i]) : i \in J}
<1>1. some \subseteq all OBVIOUS
<1>2. ASSUME NEW i \in I, NEW p \in {i} \X (1 .. n[i]) PROVE p \in some
    <2>1. n[i] # 0 BY <1>2
    <2>2. i \in J BY <2>1
    <2> QED BY <2>2
<1>3. all = some BY <1>1, <1>2
<1> QED BY <1>3 DEF SumOver
=============================================================================
