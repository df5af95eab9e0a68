------------------------ MODULE MigrationHistoryProofs ------------------------
(***************************************************************************)
(* Theorems about MigrationHistory, for any number of developers, of       *)
(* migrations and of commands that are cut short.                          *)
(*                                                                         *)
(* The first part is about lists in order and the merge of two of them     *)
(* (PendingMigrations): a recursion over both, for which the library has no*)
(* induction that can be used here, so that it is climbed by sets of       *)
(* numbers (Climb).  The second part is the inductive invariant, of five   *)
(* parts, each with the steps that could disturb it: what rows tell        *)
(* (IInv), what files, rows and commands hold (TypeInv), what is written   *)
(* down (Written), the order of one pusher (Ordered), and the files of a   *)
(* developer on his own (Lone).                                            *)
(***************************************************************************)
EXTENDS MCMigrationHistory, FiniteSetTheorems, WellFoundedInduction, TLAPS

-----------------------------------------------------------------------------
(* Sorted lists *)

\* A strict order of the members of a set, which compares any two of them.
Orders(before, set) ==
    /\ \A x \in set : <<x, x>> \notin before
    /\ \A x, y, z \in set : <<x, y>> \in before /\ <<y, z>> \in before => <<x, z>> \in before
    /\ \A x, y \in set : x = y \/ <<x, y>> \in before \/ <<y, x>> \in before

\* A list without repetitions of the members of a set, in order.
Lists(list, set, before) ==
    /\ list \in Seq(set)
    /\ \A i, j \in 1..Len(list) : i < j => <<list[i], list[j]>> \in before
    /\ \A v \in set : \E i \in 1..Len(list) : list[i] = v

Below(v, set, before) == {u \in set : <<u, v>> \in before}

\* As many members are smaller than the n-th one as are listed before it.
LEMMA RanksDiffer ==
    ASSUME NEW set, IsFiniteSet(set), NEW before, Orders(before, set),
           NEW v \in set, NEW w \in set, <<v, w>> \in before
    PROVE  Cardinality(Below(v, set, before)) < Cardinality(Below(w, set, before))
<1> DEFINE V == Below(v, set, before)
           W == Below(w, set, before)
<1>1. V \subseteq W /\ v \in W /\ v \notin V /\ W \subseteq set
    BY DEF Orders, Below
<1>2. IsFiniteSet(W)
    BY <1>1, FS_Subset
<1>3. IsFiniteSet(V) /\ Cardinality(V) <= Cardinality(W) /\ (Cardinality(W) = Cardinality(V) => W = V)
    BY <1>1, <1>2, FS_Subset
<1>4. Cardinality(V) \in Nat /\ Cardinality(W) \in Nat
    BY <1>2, <1>3, FS_CardinalityType
<1> QED BY <1>1, <1>3, <1>4

\* An element has fewer below it than the set has elements.
LEMMA RankIsBounded ==
    ASSUME NEW set, IsFiniteSet(set), NEW before, Orders(before, set), NEW v \in set
    PROVE  Cardinality(Below(v, set, before)) \in 0..(Cardinality(set) - 1)
<1> DEFINE V == Below(v, set, before)
<1>1. V \subseteq set /\ v \notin V
    BY DEF Orders, Below
<1>2. IsFiniteSet(V) /\ Cardinality(V) <= Cardinality(set) /\ (Cardinality(set) = Cardinality(V) => set = V)
    BY <1>1, FS_Subset
<1>3. Cardinality(V) \in Nat /\ Cardinality(set) \in Nat
    BY <1>2, FS_CardinalityType
<1> QED BY <1>1, <1>2, <1>3

\* Every rank is that of one member.
LEMMA RanksAreAll ==
    ASSUME NEW set, IsFiniteSet(set), NEW before, Orders(before, set),
           NEW k \in 0..(Cardinality(set) - 1)
    PROVE  \E v \in set : Cardinality(Below(v, set, before)) = k
<1> DEFINE n == Cardinality(set)
           T == 0..(n - 1)
<1>1. PICK rank : rank = [v \in set |-> Cardinality(Below(v, set, before))]
    OBVIOUS
<1>2. n \in Nat
    BY FS_CardinalityType
<1>3. IsFiniteSet(T) /\ Cardinality(T) = n
    BY <1>2, FS_Interval
<1>4. rank \in [set -> T]
    BY <1>1, RankIsBounded
<1>5. ASSUME NEW v \in set, NEW w \in set, rank[v] = rank[w] PROVE v = w
    <2>1. \A x, y \in set : <<x, y>> \in before => rank[x] < rank[y]
        BY <1>1, RanksDiffer
    <2>2. rank[v] \in Int
        BY <1>2, <1>4
    <2>3. ~(rank[v] < rank[w]) /\ ~(rank[w] < rank[v])
        BY <1>5, <2>2
    <2> QED BY <2>1, <2>3 DEF Orders
<1> HIDE DEF T
<1>6. rank \in Injection(set, T)
    BY <1>4, <1>5 DEF Injection, IsInjective
<1>7. rank \in Surjection(set, T)
    BY <1>3, <1>6, FS_Injection
<1>8. \E v \in set : rank[v] = k
    <2>1. k \in T
        BY DEF T
    <2> QED BY <1>7, <2>1 DEF Surjection
<1> QED BY <1>1, <1>8

\* What a directory listing, or a query that orders its rows, returns.
LEMMA SortedLists ==
    ASSUME NEW set, IsFiniteSet(set), NEW before, Orders(before, set)
    PROVE  Lists(Sorted(set, before), set, before) /\ Len(Sorted(set, before)) = Cardinality(set)
<1> DEFINE n == Cardinality(set)
           Rank(v) == Cardinality(Below(v, set, before))
           s == Sorted(set, before)
<1>1. n \in Nat
    BY FS_CardinalityType
<1>2. s = [k \in 1..n |-> CHOOSE v \in set : Rank(v) = k - 1]
    BY DEF Sorted, Below
<1>3. ASSUME NEW k \in 1..n PROVE s[k] \in set /\ Rank(s[k]) = k - 1
    <2>1. k - 1 \in 0..(n - 1)
        BY <1>1
    <2>2. \E v \in set : Rank(v) = k - 1
        BY <2>1, RanksAreAll
    <2> QED BY <1>2, <2>2
<1> HIDE DEF s
<1>4. s \in Seq(set) /\ Len(s) = n
    BY <1>1, <1>2, <1>3
<1>5. ASSUME NEW i \in 1..n, NEW j \in 1..n, i < j PROVE <<s[i], s[j]>> \in before
    <2>1. Rank(s[i]) = i - 1 /\ Rank(s[j]) = j - 1 /\ s[i] \in set /\ s[j] \in set
        BY <1>3
    <2>2. s[i] # s[j]
        BY <1>1, <1>5, <2>1
    <2>3. <<s[j], s[i]>> \in before => Rank(s[j]) < Rank(s[i])
        BY <2>1, RanksDiffer
    <2>4. ~(j - 1 < i - 1)
        BY <1>1, <1>5
    <2> QED BY <2>1, <2>2, <2>3, <2>4 DEF Orders
<1>6. ASSUME NEW v \in set PROVE \E i \in 1..n : s[i] = v
    <2>1. Rank(v) \in 0..(n - 1)
        BY RankIsBounded
    <2>2. PICK i \in 1..n : i - 1 = Rank(v)
        <3>1. Rank(v) + 1 \in 1..n /\ (Rank(v) + 1) - 1 = Rank(v)
            BY <1>1, <2>1
        <3> QED BY <3>1
    <2>3. s[i] \in set /\ Rank(s[i]) = Rank(v)
        BY <1>3, <2>2
    <2>4. ~(Rank(s[i]) < Rank(v)) /\ ~(Rank(v) < Rank(s[i]))
        BY <2>1, <2>3
    <2>5. s[i] = v
        BY <2>3, <2>4, RanksDiffer DEF Orders
    <2> QED BY <2>5
<1> QED BY <1>4, <1>5, <1>6 DEF s, Lists

\* Before the i-th member of a list stand the smaller ones.
LEMMA ListedBefore ==
    ASSUME NEW set, NEW before, Orders(before, set), NEW s, Lists(s, set, before),
           NEW i \in 1..Len(s), NEW j \in 1..Len(s)
    PROVE  s[i] \in set /\ (<<s[i], s[j]>> \in before <=> i < j) /\ (s[i] = s[j] <=> i = j)
<1>1. s[i] \in set /\ s[j] \in set /\ Len(s) \in Nat
    BY SMTT(60) DEF Lists
<1>2. i < j \/ i = j \/ j < i
    BY <1>1
<1>3. CASE i < j
    BY <1>1, <1>3 DEF Lists, Orders
<1>4. CASE j < i
    <2>1. <<s[j], s[i]>> \in before
        BY <1>4 DEF Lists
    <2>2. ~(i < j) /\ i # j
        BY <1>1, <1>4
    <2>3. <<s[i], s[j]>> \notin before /\ s[i] # s[j]
        BY <1>1, <2>1 DEF Orders
    <2> QED BY <1>1, <2>2, <2>3
<1>5. CASE i = j
    BY <1>1, <1>5 DEF Orders
<1> QED BY <1>2, <1>3, <1>4, <1>5

\* A list in order has no element twice.
LEMMA ListedOnce ==
    ASSUME NEW set, NEW before, Orders(before, set), NEW s, Lists(s, set, before)
    PROVE  \A i, j \in 1..Len(s) : s[i] = s[j] => i = j
<1> SUFFICES ASSUME NEW i \in 1..Len(s), NEW j \in 1..Len(s), s[i] = s[j] PROVE i = j
    OBVIOUS
<1>1. Len(s) \in Nat /\ s[i] \in set /\ <<s[i], s[i]>> \notin before
    BY SMTT(60) DEF Lists, Orders
<1>2. ~(i < j) /\ ~(j < i)
    BY <1>1 DEF Lists
<1> QED BY <1>1, <1>2

\* There is one list only.
LEMMA ListsAreSorted ==
    ASSUME NEW set, IsFiniteSet(set), NEW before, Orders(before, set), NEW s, Lists(s, set, before)
    PROVE  s = Sorted(set, before)
<1> DEFINE n == Len(s)
           Rank(v) == Cardinality(Below(v, set, before))
<1>1. s \in Seq(set) /\ n \in Nat
    BY DEF Lists
<1>2. ASSUME NEW k \in 1..n PROVE s[k] \in set /\ Rank(s[k]) = k - 1
    <2>1. s[k] \in set
        BY <1>1
    <2> DEFINE first == [i \in 1..(k - 1) |-> s[i]]
               below == Below(s[k], set, before)
    <2>2. \A i \in 1..(k - 1) : i \in 1..n /\ s[i] \in set /\ <<s[i], s[k]>> \in before
        BY <1>1, ListedBefore
    <2>3. \A i, j \in 1..(k - 1) : first[i] = first[j] => i = j
        <3>1. \A i, j \in 1..n : s[i] = s[j] => i = j
            BY ListedOnce
        <3> QED BY <2>2, <3>1
    <2>4. \A i \in 1..(k - 1) : first[i] \in below
        BY <2>2 DEF Below
    <2>5. \A v \in below : \E i \in 1..(k - 1) : first[i] = v
        <3> SUFFICES ASSUME NEW v \in below PROVE \E i \in 1..(k - 1) : first[i] = v
            OBVIOUS
        <3>1. v \in set /\ <<v, s[k]>> \in before
            BY DEF Below
        <3>2. PICK i \in 1..n : s[i] = v
            BY <3>1 DEF Lists
        <3>3. i < k
            BY <3>1, <3>2, ListedBefore
        <3>4. i \in 1..(k - 1)
            BY <1>1, <3>3
        <3> QED BY <3>2, <3>4
    <2>6. first \in Bijection(1..(k - 1), below)
        <3> HIDE DEF below
        <3>1. first \in [1..(k - 1) -> below]
            BY <2>4
        <3> HIDE DEF first
        <3> QED BY <2>3, <2>5, <3>1 DEF Bijection, Injection, Surjection, IsInjective
    <2>7. IsFiniteSet(1..(k - 1)) /\ Cardinality(1..(k - 1)) = k - 1
        <3>1. k - 1 \in Nat /\ 1 \in Int /\ k - 1 \in Int
            BY <1>1
        <3>2. IsFiniteSet(1..(k - 1)) /\ Cardinality(1..(k - 1)) = IF 1 > k - 1 THEN 0 ELSE k - 1 - 1 + 1
            BY <3>1, FS_Interval
        <3> QED BY <3>1, <3>2
    <2> HIDE DEF first, below
    <2>8. Cardinality(below) = Cardinality(1..(k - 1))
        BY <2>6, <2>7, FS_Bijection DEF ExistsBijection
    <2> QED BY <2>1, <2>7, <2>8 DEF below
<1>3. n = Cardinality(set)
    <2>1. s \in Bijection(1..n, set)
        <3>1. s \in [1..n -> set]
            BY <1>1
        <3>2. \A i, j \in 1..n : s[i] = s[j] => i = j
            BY ListedOnce
        <3>3. \A v \in set : \E i \in 1..n : s[i] = v
            BY DEF Lists
        <3> QED BY <3>1, <3>2, <3>3 DEF Bijection, Injection, Surjection, IsInjective
    <2>2. IsFiniteSet(1..n) /\ Cardinality(1..n) = n
        BY SMTT(60), <1>1, FS_Interval
    <2> QED BY <2>1, <2>2, FS_Bijection DEF ExistsBijection
<1>4. ASSUME NEW k \in 1..n PROVE s[k] = CHOOSE v \in set : Rank(v) = k - 1
    <2>1. s[k] \in set /\ Rank(s[k]) = k - 1
        BY <1>2
    <2>2. ASSUME NEW v \in set, Rank(v) = k - 1 PROVE v = s[k]
        <3>1. PICK i \in 1..n : s[i] = v
            BY DEF Lists
        <3>2. i - 1 = k - 1
            BY <1>2, <2>2, <3>1
        <3>3. i = k
            BY <1>1, <3>2
        <3> QED BY <3>1, <3>3
    <2> HIDE DEF Rank
    <2>3. PICK v : v = CHOOSE u \in set : Rank(u) = k - 1
        OBVIOUS
    <2>4. v \in set /\ Rank(v) = k - 1
        BY <2>1, <2>3
    <2> QED BY <2>2, <2>3, <2>4
<1>5. Sorted(set, before) = [k \in 1..n |-> CHOOSE v \in set : Rank(v) = k - 1]
    BY <1>3 DEF Sorted, Below
<1>6. s = [k \in 1..n |-> s[k]]
    BY <1>1
<1> HIDE DEF Rank
<1> QED BY <1>4, <1>5, <1>6

-----------------------------------------------------------------------------
(* Lists that are put together *)

\* Two lists in order are one, where all of the first comes before the second.
LEMMA Joined ==
    ASSUME NEW before, NEW A, NEW B, NEW a, NEW b, Lists(a, A, before), Lists(b, B, before),
           \A x \in A, y \in B : <<x, y>> \in before
    PROVE  Lists(a \o b, A \union B, before)
<1>1. a \in Seq(A \union B) /\ b \in Seq(A \union B) /\ Len(a) \in Nat /\ Len(b) \in Nat
    BY DEF Lists
<1>2. PICK c : c = a \o b
    OBVIOUS
<1>3. c \in Seq(A \union B) /\ Len(c) = Len(a) + Len(b)
    BY <1>1, <1>2
<1>4. \A i \in 1..Len(a) : c[i] = a[i] /\ i \in 1..Len(c) /\ c[i] \in A
    BY <1>1, <1>2, <1>3 DEF Lists
<1>5. \A i \in 1..Len(b) : c[Len(a) + i] = b[i] /\ Len(a) + i \in 1..Len(c) /\ b[i] \in B
    <2>1. \A i \in 1..Len(b) : c[Len(a) + i] = b[i] /\ Len(a) + i \in 1..Len(c)
        BY <1>1, <1>2, <1>3
    <2>2. \A i \in 1..Len(b) : b[i] \in B
        BY DEF Lists
    <2> QED BY <2>1, <2>2
<1>6. \A k \in 1..Len(c) : k \in 1..Len(a) \/ \E m \in 1..Len(b) : k = Len(a) + m
    <2> SUFFICES ASSUME NEW k \in 1..Len(c), k \notin 1..Len(a)
                 PROVE  \E m \in 1..Len(b) : k = Len(a) + m
        OBVIOUS
    <2>1. k - Len(a) \in 1..Len(b) /\ k = Len(a) + (k - Len(a))
        BY <1>1, <1>3
    <2> QED BY <2>1
<1>7. ASSUME NEW i \in 1..Len(c), NEW j \in 1..Len(c), i < j PROVE <<c[i], c[j]>> \in before
    <2>1. CASE j \in 1..Len(a)
        <3>1. i \in 1..Len(a)
            BY <1>1, <1>3, <1>7, <2>1
        <3> QED BY <1>4, <1>7, <2>1, <3>1 DEF Lists
    <2>2. ASSUME NEW m \in 1..Len(b), j = Len(a) + m PROVE <<c[i], c[j]>> \in before
        <3>1. c[j] = b[m] /\ b[m] \in B
            BY <1>5, <2>2
        <3>2. CASE i \in 1..Len(a)
            BY <1>4, <3>1, <3>2
        <3>3. ASSUME NEW n \in 1..Len(b), i = Len(a) + n PROVE <<c[i], c[j]>> \in before
            <4>1. n < m
                BY <1>1, <1>7, <2>2, <3>3
            <4>2. c[i] = b[n]
                BY <1>5, <3>3
            <4> QED BY <3>1, <4>1, <4>2 DEF Lists
        <3> QED BY <1>6, <3>2, <3>3
    <2> QED BY <1>6, <2>1, <2>2
<1>8. ASSUME NEW v \in A \union B PROVE \E i \in 1..Len(c) : c[i] = v
    <2>1. CASE v \in A
        <3>1. PICK i \in 1..Len(a) : a[i] = v
            BY <2>1 DEF Lists
        <3> QED BY <1>4, <3>1
    <2>2. CASE v \in B
        <3>1. PICK i \in 1..Len(b) : b[i] = v
            BY <2>2 DEF Lists
        <3> QED BY <1>5, <3>1
    <2> QED BY <2>1, <2>2
<1> QED BY <1>2, <1>3, <1>7, <1>8 DEF Lists

\* The list of one element.
LEMMA OneListed == ASSUME NEW v, NEW before PROVE Lists(<<v>>, {v}, before)
BY DEF Lists

\* The list of none.
LEMMA NoneListed == ASSUME NEW before PROVE Lists(<<>>, {}, before)
BY DEF Lists

\* A smaller one is put in front.
LEMMA PutInFront ==
    ASSUME NEW before, NEW S, NEW s, Lists(s, S, before), NEW v, \A u \in S : <<v, u>> \in before
    PROVE  Lists(<<v>> \o s, {v} \union S, before)
BY OneListed, Joined

\* What is listed from some place on.
From(s, k) == {s[m] : m \in k..Len(s)}

\* What is left at a place of a list is the element there and what is left behind it.
LEMMA FromHere ==
    ASSUME NEW before, NEW S, Orders(before, S), NEW s, Lists(s, S, before), NEW k \in 1..Len(s)
    PROVE  /\ From(s, k) = {s[k]} \union From(s, k + 1) /\ s[k] \in S
           /\ \A u \in From(s, k + 1) : <<s[k], u>> \in before /\ u # s[k] /\ u \in S
<1>1. s \in Seq(S) /\ Len(s) \in Nat
    BY DEF Lists
<1>2. From(s, k) = {s[k]} \union From(s, k + 1)
    <2>1. k..Len(s) = {k} \union (k + 1)..Len(s)
        BY <1>1
    <2> QED BY <2>1 DEF From
<1>3. ASSUME NEW m \in (k + 1)..Len(s) PROVE <<s[k], s[m]>> \in before /\ s[m] # s[k] /\ s[m] \in S
    <2>1. m \in 1..Len(s) /\ k < m
        BY <1>1
    <2>2. <<s[k], s[m]>> \in before
        BY <2>1 DEF Lists
    <2>3. s[m] \in S /\ s[k] \in S
        BY <1>1, <2>1
    <2> QED BY <2>2, <2>3 DEF Orders
<1>4. s[k] \in S
    BY <1>1
<1> QED BY <1>2, <1>3, <1>4 DEF From

\* All is left at the start of a list, and nothing behind its end.
LEMMA FromStartAndEnd ==
    ASSUME NEW before, NEW S, NEW s, Lists(s, S, before)
    PROVE  From(s, 1) = S /\ \A k \in Nat : k > Len(s) => From(s, k) = {}
<1>1. s \in Seq(S) /\ Len(s) \in Nat
    BY DEF Lists
<1>2. From(s, 1) = S
    <2>1. \A m \in 1..Len(s) : s[m] \in S
        BY <1>1
    <2>2. \A v \in S : \E m \in 1..Len(s) : s[m] = v
        BY DEF Lists
    <2> QED BY <2>1, <2>2 DEF From
<1>3. ASSUME NEW k \in Nat, k > Len(s) PROVE From(s, k) = {}
    <2>1. k..Len(s) = {}
        BY <1>1, <1>3
    <2> QED BY <2>1 DEF From
<1> QED BY <1>2, <1>3

\* The rest of a list is the list of what is left.
LEMMA FromIsListed ==
    ASSUME NEW before, NEW S, NEW s, Lists(s, S, before), NEW k \in 1..(Len(s) + 1)
    PROVE  Lists(SubSeq(s, k, Len(s)), From(s, k), before)
<1>1. s \in Seq(S) /\ Len(s) \in Nat
    BY DEF Lists
<1>2. PICK t : t = SubSeq(s, k, Len(s))
    OBVIOUS
<1>3. /\ t \in Seq(S) /\ Len(t) = Len(s) - k + 1
      /\ \A i \in 1..Len(t) : t[i] = s[k + i - 1] /\ k + i - 1 \in k..Len(s) /\ k + i - 1 \in 1..Len(s)
    BY <1>1, <1>2
<1>4. \A i \in 1..Len(t) : t[i] \in From(s, k)
    BY <1>3 DEF From
<1>5. t \in Seq(From(s, k))
    BY <1>3, <1>4
<1>6. ASSUME NEW i \in 1..Len(t), NEW j \in 1..Len(t), i < j PROVE <<t[i], t[j]>> \in before
    <2>1. k + i - 1 < k + j - 1
        BY <1>1, <1>3, <1>6
    <2> QED BY <1>3, <2>1 DEF Lists
<1>7. ASSUME NEW v \in From(s, k) PROVE \E i \in 1..Len(t) : t[i] = v
    <2>1. PICK m \in k..Len(s) : s[m] = v
        BY DEF From
    <2>2. m - k + 1 \in 1..Len(t) /\ k + (m - k + 1) - 1 = m
        BY <1>1, <1>3
    <2> QED BY <1>3, <2>1, <2>2
<1> QED BY <1>2, <1>5, <1>6, <1>7 DEF Lists

\* When the smaller ones are left out, the others remain.
LEMMA DropSmaller ==
    ASSUME NEW before, NEW A, IsFiniteSet(A), NEW B, IsFiniteSet(B), Orders(before, A \union B),
           \A x \in A, y \in B : <<x, y>> \in before,
           NEW s, Lists(s, A \union B, before)
    PROVE  Drop(s, Cardinality(A)) = Sorted(B, before)
<1>1. Orders(before, A) /\ Orders(before, B)
    BY DEF Orders
<1> DEFINE a == Sorted(A, before)
           b == Sorted(B, before)
<1>2. Lists(a, A, before) /\ Len(a) = Cardinality(A) /\ Lists(b, B, before)
    BY <1>1, SortedLists
<1> HIDE DEF a, b
<1>3. Lists(a \o b, A \union B, before)
    BY <1>2, Joined
<1>4. IsFiniteSet(A \union B)
    BY FS_Union
<1>5. s = a \o b
    BY <1>3, <1>4, ListsAreSorted
<1>6. a \in Seq(A) /\ b \in Seq(B) /\ Len(a) \in Nat /\ Len(b) \in Nat
    BY <1>2 DEF Lists
<1>7. SubSeq(a \o b, Len(a) + 1, Len(a \o b)) = b
    <2> PICK c : c = a \o b
        OBVIOUS
    <2>1. a \in Seq(A \union B) /\ b \in Seq(A \union B)
        BY <1>6
    <2>2. c \in Seq(A \union B) /\ Len(c) = Len(a) + Len(b) /\ \A i \in 1..Len(b) : c[Len(a) + i] = b[i]
        BY <1>6, <2>1
    <2> PICK t : t = SubSeq(c, Len(a) + 1, Len(c))
        OBVIOUS
    <2>3. Len(t) = Len(b) /\ t \in Seq(A \union B) /\ \A i \in 1..Len(b) : t[i] = c[Len(a) + i]
        BY <1>6, <2>2
    <2>4. \A i \in 1..Len(b) : t[i] = b[i]
        BY <2>2, <2>3
    <2>5. t = b
        BY <2>1, <2>3, <2>4
    <2> QED BY <2>5
<1> QED BY <1>2, <1>5, <1>7 DEF Drop, b

-----------------------------------------------------------------------------
(* The loop over both lists *)

\* What the loop does where it stands, and the places that are before it.
LoopBody(local, remote, before, step, at) ==
    LET i == at[1]
        j == at[2]
    IN  IF j > Len(local)
        THEN [missing |-> SubSeq(remote, i, Len(remote)), unapplied |-> <<>>]
        ELSE IF i > Len(remote) THEN [missing |-> <<>>, unapplied |-> <<>>]
        ELSE IF remote[i] = local[j] THEN step[<<i + 1, j + 1>>]
        ELSE IF <<remote[i], local[j]>> \in before
             THEN Missing(remote[i], step[<<i + 1, j>>])
             ELSE Unapplied(local[j], step[<<i, j + 1>>])

Left(local, remote, at) == (Len(remote) + 1 - at[1]) + (Len(local) + 1 - at[2])

IsLoop(local, remote, before, step) ==
    \A at \in Places(local, remote) : step[at] = LoopBody(local, remote, before, step, at)

\* Every turn of the loop goes on to a later place.
LEMMA LoopGoesOn ==
    ASSUME NEW local, NEW remote, Len(local) \in Nat, Len(remote) \in Nat, NEW before, NEW f, NEW g,
           NEW at \in Places(local, remote),
           \A to \in Places(local, remote) : Left(local, remote, to) < Left(local, remote, at) => f[to] = g[to]
    PROVE  LoopBody(local, remote, before, f, at) = LoopBody(local, remote, before, g, at)
<1>1. PICK i \in 1..(Len(remote) + 1), j \in 1..(Len(local) + 1) : at = <<i, j>>
    BY DEF Places
<1>2. at[1] = i /\ at[2] = j
    BY <1>1
<1>3. ASSUME i <= Len(remote), j <= Len(local)
      PROVE  /\ f[<<i + 1, j + 1>>] = g[<<i + 1, j + 1>>]
             /\ f[<<i + 1, j>>] = g[<<i + 1, j>>] /\ f[<<i, j + 1>>] = g[<<i, j + 1>>]
    <2>1. /\ i \in 1..(Len(remote) + 1) /\ i + 1 \in 1..(Len(remote) + 1)
          /\ j \in 1..(Len(local) + 1) /\ j + 1 \in 1..(Len(local) + 1)
        BY <1>3
    <2>2. /\ <<i + 1, j + 1>> \in Places(local, remote) /\ <<i + 1, j>> \in Places(local, remote)
          /\ <<i, j + 1>> \in Places(local, remote)
        BY <2>1 DEF Places
    <2>3. ASSUME NEW k \in Int, NEW m \in Int PROVE Left(local, remote, <<k, m>>) = (Len(remote) + 1 - k) + (Len(local) + 1 - m)
        BY DEF Left
    <2>4. /\ Left(local, remote, <<i + 1, j + 1>>) < Left(local, remote, at)
          /\ Left(local, remote, <<i + 1, j>>) < Left(local, remote, at)
          /\ Left(local, remote, <<i, j + 1>>) < Left(local, remote, at)
        BY <1>1, <2>3
    <2> QED BY <2>2, <2>4
<1>4. i \in Int /\ j \in Int
    OBVIOUS
<1>5. CASE j > Len(local)
    BY <1>2, <1>5 DEF LoopBody
<1>6. CASE ~(j > Len(local)) /\ i > Len(remote)
    BY <1>2, <1>6 DEF LoopBody
<1>7. CASE ~(j > Len(local)) /\ ~(i > Len(remote))
    <2>1. /\ f[<<i + 1, j + 1>>] = g[<<i + 1, j + 1>>]
          /\ f[<<i + 1, j>>] = g[<<i + 1, j>>] /\ f[<<i, j + 1>>] = g[<<i, j + 1>>]
        BY <1>3, <1>4, <1>7
    <2> QED BY <1>2, <2>1 DEF LoopBody
<1> QED BY <1>5, <1>6, <1>7

\* A set of numbers has a least one.
LEMMA LeastOne ==
    ASSUME NEW T \in SUBSET Nat, T # {}
    PROVE  \E n \in T : \A m \in T : n <= m
<1>1. PICK R : R = OpToRel(<, Nat)
    OBVIOUS
<1>2. IsWellFoundedOn(R, Nat)
    BY <1>1, NatLessThanWellFounded
<1>3. R = {x \in Nat \X Nat : x[1] < x[2]}
    BY <1>1 DEF OpToRel
<1>4. PICK n \in T : \A m \in T : ~(<<m, n>> \in R)
    BY <1>2, WFMin
<1>5. \A m \in T : ~(m < n)
    BY <1>3, <1>4
<1> QED BY <1>5

\* What is in a set with 0 and with the next of each member.
LEMMA Climb ==
    ASSUME NEW T, 0 \in T, \A n \in Nat : n \in T => n + 1 \in T
    PROVE  \A n \in Nat : n \in T
<1>1. SUFFICES ASSUME Nat \ T # {} PROVE FALSE
    OBVIOUS
<1>2. PICK n \in Nat \ T : \A m \in Nat \ T : n <= m
    BY <1>1, LeastOne
<1>3. n # 0 /\ n - 1 \in Nat /\ n - 1 \notin Nat \ T
    BY <1>2
<1>4. (n - 1) + 1 = n
    BY <1>2
<1> QED BY <1>2, <1>3, <1>4

\* The loop ends.
LEMMA LoopEnds ==
    ASSUME NEW local, NEW remote, Len(local) \in Nat, Len(remote) \in Nat, NEW before
    PROVE  \E step : step = [at \in Places(local, remote) |-> LoopBody(local, remote, before, step, at)]
<1> DEFINE P == Places(local, remote)
           W(at) == Left(local, remote, at)
           Does(f, at) == LoopBody(local, remote, before, f, at)
           Good(f, n) == f = [at \in P |-> f[at]] /\ \A at \in P : W(at) < n => f[at] = Does(f, at)
           T == {n \in Nat : \E f : Good(f, n)}
<1>1. \A at \in P : W(at) \in Nat /\ W(at) < Len(local) + Len(remote) + 1
    BY DEF Places, Left
<1>2. 0 \in T
    <2>1. PICK f : f = [at \in P |-> 0]
        OBVIOUS
    <2>2. f = [at \in P |-> f[at]]
        BY <2>1
    <2>3. \A at \in P : ~(W(at) < 0)
        BY <1>1
    <2> QED BY <2>2, <2>3
<1>3. ASSUME NEW n \in Nat, n \in T PROVE n + 1 \in T
    <2>1. PICK f : Good(f, n)
        BY <1>3
    <2>2. PICK g : g = [at \in P |-> IF W(at) < n THEN f[at] ELSE Does(f, at)]
        OBVIOUS
    <2>3. \A at \in P : W(at) < n => g[at] = f[at]
        BY <2>2
    <2>4. ASSUME NEW at \in P, W(at) <= n PROVE g[at] = Does(g, at)
        <3>1. g[at] = Does(f, at)
            BY <2>1, <2>2
        <3>2. \A to \in P : W(to) < W(at) => f[to] = g[to]
            <4>1. \A to \in P : W(to) < W(at) => W(to) < n
                BY <1>1, <2>4
            <4> HIDE DEF P, W, Does, Good
            <4> QED BY <2>3, <4>1
        <3>3. Does(f, at) = Does(g, at)
            BY <3>2, LoopGoesOn
        <3> HIDE DEF Does, Good, W, P
        <3> QED BY <3>1, <3>3
    <2> HIDE DEF Does, W, P
    <2>5. g = [at \in P |-> g[at]]
        BY <2>2
    <2>6. \A at \in P : W(at) < n + 1 => g[at] = Does(g, at)
        BY <1>1, <2>4
    <2>7. Good(g, n + 1)
        BY <2>5, <2>6
    <2> QED BY <2>7
<1> HIDE DEF T
<1>4. Len(local) + Len(remote) + 1 \in T
    BY <1>2, <1>3, Climb
<1>5. PICK f : Good(f, Len(local) + Len(remote) + 1)
    BY <1>4 DEF T
<1> HIDE DEF Does, W, P
<1>6. \A at \in P : f[at] = Does(f, at)
    BY <1>1, <1>5
<1>7. f = [at \in P |-> Does(f, at)]
    BY <1>5, <1>6
<1> QED BY <1>7 DEF P, Does

\* Merge goes through places, each of which is decided by those behind it.
LEMMA MergeIsLoop ==
    ASSUME NEW local, NEW remote, Len(local) \in Nat, Len(remote) \in Nat, NEW before
    PROVE  \E step : IsLoop(local, remote, before, step) /\ Merge(local, remote, before) = step[<<1, 1>>]
<1> DEFINE Loop(f) == f = [at \in Places(local, remote) |-> LoopBody(local, remote, before, f, at)]
<1>1. PICK step : step = CHOOSE f : Loop(f)
    OBVIOUS
<1>2. Loop(step)
    BY <1>1, LoopEnds
<1>3. Merge(local, remote, before) = step[<<1, 1>>]
    BY <1>1 DEF Merge, LoopBody
<1>4. IsLoop(local, remote, before, step)
    BY <1>2 DEF IsLoop
<1> QED BY <1>3, <1>4

-----------------------------------------------------------------------------
(* What the loop finds *)

OlderThanSome(R, before, v) == \E r \in R : <<v, r>> \in before

\* At a place of the loop: what is missing, and when nothing is, what is
\* unapplied, of the files F and the rows R that are still to be read.
Finds(result, F, R, before) ==
    /\ result = [missing |-> result.missing, unapplied |-> result.unapplied]
    /\ Lists(result.missing, R \ F, before)
    /\ R \subseteq F => Lists(result.unapplied, {v \in F \ R : OlderThanSome(R, before, v)}, before)

\* When all files were compared, the rows that are left have no file.
LEMMA FindsAtEnd ==
    ASSUME NEW before, NEW F, NEW R, NEW s, F = {} \/ (R = {} /\ s = <<>>), Lists(s, R, before)
    PROVE  Finds([missing |-> s, unapplied |-> <<>>], F, R, before)
<1>1. R \subseteq F => {v \in F \ R : OlderThanSome(R, before, v)} = {}
    BY DEF OlderThanSome
<1>2. Lists(s, R \ F, before)
    <2>1. R \ F = R
        OBVIOUS
    <2> QED BY <2>1
<1> QED BY <1>1, <1>2, NoneListed DEF Finds

\* A file and a row of one version are neither missing nor unapplied.
LEMMA FindsEqual ==
    ASSUME NEW before, NEW S, Orders(before, S), NEW F, NEW R, F \subseteq S, R \subseteq S, NEW x \in S,
           \A u \in F : <<x, u>> \in before /\ u # x, \A u \in R : <<x, u>> \in before /\ u # x,
           NEW result, Finds(result, F, R, before)
    PROVE  Finds(result, {x} \union F, {x} \union R, before)
<1>1. ({x} \union R) \ ({x} \union F) = R \ F
    OBVIOUS
<1>2. {x} \union R \subseteq {x} \union F <=> R \subseteq F
    OBVIOUS
<1>3. \A v \in F \ R : OlderThanSome({x} \union R, before, v) <=> OlderThanSome(R, before, v)
    <2>1. \A v \in F : <<v, x>> \notin before
        BY DEF Orders
    <2> QED BY <2>1 DEF OlderThanSome
<1>4. {v \in ({x} \union F) \ ({x} \union R) : OlderThanSome({x} \union R, before, v)} = {v \in F \ R : OlderThanSome(R, before, v)}
    BY <1>3
<1> QED BY <1>1, <1>2, <1>4 DEF Finds

\* What a step of the merge adds.
LEMMA AddedInFront ==
    ASSUME NEW result, result = [missing |-> result.missing, unapplied |-> result.unapplied], NEW x
    PROVE  /\ Missing(x, result) = [missing |-> <<x>> \o result.missing, unapplied |-> result.unapplied]
           /\ Unapplied(x, result) = [missing |-> result.missing, unapplied |-> <<x>> \o result.unapplied]
<1>1. PICK m, u : m = result.missing /\ u = result.unapplied
    OBVIOUS
<1>2. result = [missing |-> m, unapplied |-> u]
    BY <1>1
<1>3. /\ [result EXCEPT !.missing = <<x>> \o m] = [missing |-> <<x>> \o m, unapplied |-> u]
      /\ [result EXCEPT !.unapplied = <<x>> \o u] = [missing |-> m, unapplied |-> <<x>> \o u]
    <2>1. PICK a, b : a = <<x>> \o m /\ b = <<x>> \o u
        OBVIOUS
    <2>2. /\ [result EXCEPT !.missing = a] = [missing |-> a, unapplied |-> u]
          /\ [result EXCEPT !.unapplied = b] = [missing |-> m, unapplied |-> b]
        BY <1>2
    <2> QED BY <2>1, <2>2
<1> QED BY <1>1, <1>3 DEF Missing, Unapplied

\* A row that is older than all files that are left has no file.
LEMMA FindsMissing ==
    ASSUME NEW before, NEW S, Orders(before, S), NEW F, NEW R, F \subseteq S, R \subseteq S, NEW x \in S,
           \A u \in F : <<x, u>> \in before, \A u \in R : <<x, u>> \in before /\ u # x,
           NEW result, Finds(result, F, R, before)
    PROVE  Finds(Missing(x, result), F, {x} \union R, before)
<1>1. x \notin F
    BY DEF Orders
<1>2. ({x} \union R) \ F = {x} \union (R \ F)
    BY <1>1
<1>3. Lists(<<x>> \o result.missing, {x} \union (R \ F), before)
    BY PutInFront DEF Finds
<1>4. PICK new : new = Missing(x, result)
    OBVIOUS
<1>5. new = [missing |-> <<x>> \o result.missing, unapplied |-> result.unapplied]
    BY <1>4, AddedInFront DEF Finds
<1>6. new.missing = <<x>> \o result.missing /\ new = [missing |-> new.missing, unapplied |-> new.unapplied]
    BY <1>5
<1>7. ~({x} \union R \subseteq F)
    BY <1>1
<1> QED BY <1>2, <1>3, <1>4, <1>6, <1>7 DEF Finds

\* A file that is older than all rows that are left was not applied.
LEMMA FindsUnapplied ==
    ASSUME NEW before, NEW S, Orders(before, S), NEW F, NEW R, F \subseteq S, R \subseteq S, NEW y \in S,
           \A u \in F : <<y, u>> \in before /\ u # y, \A u \in R : <<y, u>> \in before, R # {},
           NEW result, Finds(result, F, R, before)
    PROVE  Finds(Unapplied(y, result), {y} \union F, R, before)
<1>1. y \notin R
    BY DEF Orders
<1>2. R \ ({y} \union F) = R \ F /\ (R \subseteq {y} \union F <=> R \subseteq F)
    BY <1>1
<1> DEFINE U == {v \in F \ R : OlderThanSome(R, before, v)}
<1>3. {v \in ({y} \union F) \ R : OlderThanSome(R, before, v)} = {y} \union U
    <2>1. OlderThanSome(R, before, y)
        BY DEF OlderThanSome
    <2> QED BY <1>1, <2>1
<1>4. PICK new : new = Unapplied(y, result)
    OBVIOUS
<1>6. new = [missing |-> result.missing, unapplied |-> <<y>> \o result.unapplied]
    BY <1>4, AddedInFront DEF Finds
<1>7. /\ new.missing = result.missing /\ new.unapplied = <<y>> \o result.unapplied
      /\ new = [missing |-> new.missing, unapplied |-> new.unapplied]
    BY <1>6
<1>5. ASSUME R \subseteq F PROVE Lists(<<y>> \o result.unapplied, {y} \union U, before)
    <2>1. Lists(result.unapplied, U, before)
        BY <1>5 DEF Finds
    <2>2. \A u \in U : <<y, u>> \in before
        OBVIOUS
    <2> HIDE DEF U
    <2> QED BY <2>1, <2>2, PutInFront
<1> HIDE DEF U
<1>8. Lists(new.missing, R \ ({y} \union F), before)
    BY <1>2, <1>7 DEF Finds
<1>9. R \subseteq {y} \union F => Lists(new.unapplied, {y} \union U, before)
    BY <1>2, <1>5, <1>7
<1> QED BY <1>3, <1>4, <1>7, <1>8, <1>9 DEF Finds

\* Where the loop stands, it finds what is to be found behind.
LEMMA LoopFinds ==
    ASSUME NEW before, NEW F, NEW R, Orders(before, F \union R),
           NEW local, NEW remote, Lists(local, F, before), Lists(remote, R, before),
           NEW step, IsLoop(local, remote, before, step),
           NEW i \in 1..(Len(remote) + 1), NEW j \in 1..(Len(local) + 1),
           j <= Len(local) /\ i <= Len(remote) =>
              /\ Finds(step[<<i + 1, j + 1>>], From(local, j + 1), From(remote, i + 1), before)
              /\ Finds(step[<<i + 1, j>>], From(local, j), From(remote, i + 1), before)
              /\ Finds(step[<<i, j + 1>>], From(local, j + 1), From(remote, i), before)
    PROVE  Finds(step[<<i, j>>], From(local, j), From(remote, i), before)
<1>1. Orders(before, F) /\ Orders(before, R)
    BY DEF Orders
<1>2. local \in Seq(F) /\ remote \in Seq(R) /\ Len(local) \in Nat /\ Len(remote) \in Nat
    BY DEF Lists
<1>3. step[<<i, j>>] = LoopBody(local, remote, before, step, <<i, j>>)
    BY DEF IsLoop, Places
<1>4. CASE j > Len(local)
    <2>1. step[<<i, j>>] = [missing |-> SubSeq(remote, i, Len(remote)), unapplied |-> <<>>]
        BY <1>3, <1>4 DEF LoopBody
    <2>2. From(local, j) = {}
        BY <1>2, <1>4, FromStartAndEnd
    <2>3. Lists(SubSeq(remote, i, Len(remote)), From(remote, i), before)
        BY FromIsListed
    <2> QED BY <2>1, <2>2, <2>3, FindsAtEnd
<1>5. CASE ~(j > Len(local)) /\ i > Len(remote)
    <2>1. step[<<i, j>>] = [missing |-> <<>>, unapplied |-> <<>>]
        BY <1>3, <1>5 DEF LoopBody
    <2>2. From(remote, i) = {}
        BY <1>2, <1>5, FromStartAndEnd
    <2> QED BY <2>1, <2>2, NoneListed, FindsAtEnd
<1>6. CASE ~(j > Len(local)) /\ ~(i > Len(remote))
    <2> DEFINE x == remote[i]
               y == local[j]
    <2>1. i \in 1..Len(remote) /\ j \in 1..Len(local) /\ j <= Len(local) /\ i <= Len(remote)
        BY <1>2, <1>6
    <2>2. /\ From(local, j) = {y} \union From(local, j + 1) /\ y \in F
          /\ \A u \in From(local, j + 1) : <<y, u>> \in before /\ u # y /\ u \in F
        BY <1>1, <2>1, FromHere
    <2>3. /\ From(remote, i) = {x} \union From(remote, i + 1) /\ x \in R
          /\ \A u \in From(remote, i + 1) : <<x, u>> \in before /\ u # x /\ u \in R
        BY <1>1, <2>1, FromHere
    <2>4. step[<<i, j>>] = IF x = y THEN step[<<i + 1, j + 1>>]
                           ELSE IF <<x, y>> \in before THEN Missing(x, step[<<i + 1, j>>])
                           ELSE Unapplied(y, step[<<i, j + 1>>])
        BY <1>3, <1>6 DEF LoopBody
    <2> DEFINE F1 == From(local, j + 1)
               R1 == From(remote, i + 1)
               S == F \union R
    <2>5. /\ Finds(step[<<i + 1, j + 1>>], F1, R1, before)
          /\ Finds(step[<<i + 1, j>>], {y} \union F1, R1, before)
          /\ Finds(step[<<i, j + 1>>], F1, {x} \union R1, before)
        BY <2>1, <2>2, <2>3
    <2>6. F1 \subseteq S /\ R1 \subseteq S /\ x \in S /\ y \in S
        BY <2>2, <2>3
    <2> HIDE DEF x, y
    <2>7. \A u, v, w \in S : <<u, v>> \in before /\ <<v, w>> \in before => <<u, w>> \in before
        BY DEF Orders
    <2>8. \A u \in F1 : <<y, u>> \in before /\ u # y
        BY <2>2
    <2>9. \A u \in R1 : <<x, u>> \in before /\ u # x
        BY <2>3
    <2> HIDE DEF F1, R1, S
    <2>10. Orders(before, S)
        BY DEF S
    <2>11. CASE x = y
        BY <2>2, <2>3, <2>4, <2>5, <2>6, <2>8, <2>9, <2>10, <2>11, FindsEqual DEF F1, R1
    <2>12. CASE x # y /\ <<x, y>> \in before
        <3>1. \A u \in {y} \union F1 : <<x, u>> \in before
            BY <2>6, <2>7, <2>8, <2>12
        <3>2. {y} \union F1 \subseteq S
            BY <2>6
        <3> QED BY <2>2, <2>3, <2>4, <2>5, <2>6, <2>9, <2>10, <2>12, <3>1, <3>2, FindsMissing DEF F1, R1
    <2>13. CASE x # y /\ <<x, y>> \notin before
        <3>1. <<y, x>> \in before
            BY <2>6, <2>10, <2>13 DEF Orders
        <3>2. \A u \in {x} \union R1 : <<y, u>> \in before
            BY <2>6, <2>7, <2>9, <3>1
        <3>3. {x} \union R1 \subseteq S /\ {x} \union R1 # {}
            BY <2>6
        <3> DEFINE R2 == {x} \union R1
        <3>4. Finds(step[<<i, j + 1>>], F1, R2, before)
            BY <2>5
        <3> HIDE DEF R2
        <3>5. Finds(Unapplied(y, step[<<i, j + 1>>]), {y} \union F1, R2, before)
            BY <2>6, <2>8, <2>10, <3>2, <3>3, <3>4, FindsUnapplied DEF R2
        <3>6. step[<<i, j>>] = Unapplied(y, step[<<i, j + 1>>])
            BY <2>4, <2>13
        <3> QED BY <2>2, <2>3, <3>5, <3>6 DEF F1, R1, R2
    <2> QED BY <2>11, <2>12, <2>13
<1> QED BY <1>4, <1>5, <1>6

\* The loop finds the rows without a file, and when there are none, the files
\* without a row that are older than a row.
LEMMA MergeFinds ==
    ASSUME NEW before, NEW F, NEW R, Orders(before, F \union R),
           NEW local, NEW remote, Lists(local, F, before), Lists(remote, R, before)
    PROVE  Finds(Merge(local, remote, before), F, R, before)
<1>1. local \in Seq(F) /\ remote \in Seq(R) /\ Len(local) \in Nat /\ Len(remote) \in Nat
    BY DEF Lists
<1>2. PICK step : IsLoop(local, remote, before, step) /\ Merge(local, remote, before) = step[<<1, 1>>]
    BY <1>1, MergeIsLoop
<1> DEFINE n == Len(remote)
           m == Len(local)
           At(i, j) == Finds(step[<<i, j>>], From(local, j), From(remote, i), before)
           T == {k \in Nat : \A i \in 1..(n + 1), j \in 1..(m + 1) : (n + 1 - i) + (m + 1 - j) <= k => At(i, j)}
<1>3. ASSUME NEW i \in 1..(n + 1), NEW j \in 1..(m + 1),
             j <= m /\ i <= n => At(i + 1, j + 1) /\ At(i + 1, j) /\ At(i, j + 1)
      PROVE  At(i, j)
    BY <1>2, <1>3, LoopFinds
<1> HIDE DEF At
<1>4. 0 \in T
    <2>1. ASSUME NEW i \in 1..(n + 1), NEW j \in 1..(m + 1), (n + 1 - i) + (m + 1 - j) <= 0 PROVE At(i, j)
        <3>1. ~(j <= m)
            BY <1>1, <2>1
        <3> QED BY <1>3, <3>1
    <2> QED BY <2>1
<1>5. ASSUME NEW k \in Nat, k \in T PROVE k + 1 \in T
    <2>1. ASSUME NEW i \in 1..(n + 1), NEW j \in 1..(m + 1), (n + 1 - i) + (m + 1 - j) <= k + 1 PROVE At(i, j)
        <3>1. ASSUME j <= m /\ i <= n PROVE At(i + 1, j + 1) /\ At(i + 1, j) /\ At(i, j + 1)
            <4>1. /\ i + 1 \in 1..(n + 1) /\ j + 1 \in 1..(m + 1)
                  /\ (n + 1 - (i + 1)) + (m + 1 - (j + 1)) <= k
                  /\ (n + 1 - (i + 1)) + (m + 1 - j) <= k
                  /\ (n + 1 - i) + (m + 1 - (j + 1)) <= k
                BY <1>1, <2>1, <3>1
            <4> QED BY <1>5, <4>1
        <3> QED BY <1>3, <3>1
    <2> QED BY <2>1
<1> HIDE DEF T
<1>6. n + m \in T
    BY <1>1, <1>4, <1>5, Climb
<1>7. At(1, 1)
    <2>1. 1 \in 1..(n + 1) /\ 1 \in 1..(m + 1) /\ (n + 1 - 1) + (m + 1 - 1) <= n + m
        BY <1>1
    <2> QED BY <1>6, <2>1 DEF T
<1>8. From(local, 1) = F /\ From(remote, 1) = R
    BY FromStartAndEnd
<1> QED BY <1>2, <1>7, <1>8 DEF At

-----------------------------------------------------------------------------
(* The list of pending files *)

\* Files without a row that are older than a row.
Late(F, R, before) == {v \in F \ R : OlderThanSome(R, before, v)}

\* What the code should find.
PendingOf(F, R, before) ==
    IF R \ F # {} THEN Outcome("missing local", Sorted(R \ F, before))
    ELSE IF Late(F, R, before) # {} THEN Outcome("missing remote", Sorted(Late(F, R, before), before))
    ELSE Outcome("none", Sorted(F \ R, before))

\* The list of the empty set is empty.
LEMMA NothingListed ==
    ASSUME NEW before, NEW S, NEW s, Lists(s, S, before)
    PROVE  s = <<>> <=> S = {}
<1>1. s \in Seq(S) /\ Len(s) \in Nat
    BY DEF Lists
<1>2. CASE s = <<>>
    BY <1>2 DEF Lists
<1>3. CASE s # <<>>
    <2>1. s[1] \in S
        BY <1>1, <1>3
    <2> QED BY <1>3, <2>1
<1> QED BY <1>2, <1>3

\* What orders a set orders its parts.
LEMMA PartsAreOrdered ==
    ASSUME NEW before, NEW S, IsFiniteSet(S), Orders(before, S), NEW P \in SUBSET S
    PROVE  IsFiniteSet(P) /\ Orders(before, P)
BY FS_Subset DEF Orders

\* Behind the files that have a row, or are older than one, come the others.
LEMMA BehindTheLate ==
    ASSUME NEW before, NEW F, NEW R, IsFiniteSet(F), Orders(before, F), R \subseteq F,
           NEW local, Lists(local, F, before)
    PROVE  /\ Drop(local, Cardinality(R) + Cardinality(Late(F, R, before)))
                 = Sorted((F \ R) \ Late(F, R, before), before)
           /\ \A u \in Late(F, R, before), w \in (F \ R) \ Late(F, R, before) : <<u, w>> \in before
<1> DEFINE U == Late(F, R, before)
           A == R \union U
           B == (F \ R) \ U
<1>1. U \subseteq F /\ R \cap U = {} /\ A \union B = F
    BY DEF Late
<1>2. ASSUME NEW x \in A, NEW y \in B PROVE <<x, y>> \in before
    <2>1. y \in F /\ y \notin R /\ \A r \in R : <<y, r>> \notin before
        BY DEF Late, OlderThanSome
    <2>2. \A r \in R : <<r, y>> \in before
        BY <2>1 DEF Orders
    <2>3. ASSUME x \in U PROVE <<x, y>> \in before
        <3>1. PICK r \in R : <<x, r>> \in before
            BY <2>3 DEF Late, OlderThanSome
        <3>2. <<r, y>> \in before
            BY <2>2
        <3> QED BY <1>1, <2>1, <2>3, <3>1, <3>2 DEF Orders
    <2> HIDE DEF U
    <2> QED BY <2>2, <2>3
<1> HIDE DEF U
<1>3. IsFiniteSet(R) /\ IsFiniteSet(U) /\ IsFiniteSet(A) /\ IsFiniteSet(B)
    BY <1>1, FS_Subset
<1>4. Cardinality(A) = Cardinality(R) + Cardinality(U)
    <2>1. Cardinality(R \cap U) = 0
        BY <1>1, FS_EmptySet
    <2>2. Cardinality(R) \in Nat /\ Cardinality(U) \in Nat
        BY <1>3, FS_CardinalityType
    <2>3. Cardinality(A) = Cardinality(R) + Cardinality(U) - Cardinality(R \cap U)
        BY <1>3, FS_Union
    <2> QED BY <2>1, <2>2, <2>3
<1>5. Orders(before, A \union B) /\ Lists(local, A \union B, before)
    BY <1>1
<1> HIDE DEF A, B
<1>6. Drop(local, Cardinality(A)) = Sorted(B, before)
    BY <1>2, <1>3, <1>5, DropSmaller
<1>7. \A u \in U, w \in B : <<u, w>> \in before
    BY <1>2 DEF A
<1> QED BY <1>4, <1>6, <1>7 DEF B, U

\* The fields of an outcome.
LEMMA OutcomeIs ==
    \A error, list : Outcome(error, list).error = error /\ Outcome(error, list).list = list
BY DEF Outcome

\* FindPendingMigrations and GetPendingMigrations on the sorted lists of any two
\* finite sets, in any order of version texts: rows without a file are an error,
\* then files that are older than a row, and else exactly the files without a
\* row are found, in order; --include-all finds them with the older ones, too.
THEOREM PendingFound ==
    ASSUME NEW before, NEW F, NEW R, IsFiniteSet(F), IsFiniteSet(R), Orders(before, F \union R),
           NEW local, NEW remote, local = Sorted(F, before), remote = Sorted(R, before)
    PROVE  /\ FindPendingMigrations(local, remote, before) = PendingOf(F, R, before)
           /\ R \subseteq F =>
                 GetPendingMigrations(local, remote, TRUE, before) = Outcome("none", Sorted(F \ R, before))
<1> DEFINE U == Late(F, R, before)
           merged == Merge(local, remote, before)
<1>1. /\ Orders(before, F) /\ Orders(before, R) /\ IsFiniteSet(R \ F) /\ Orders(before, R \ F)
      /\ IsFiniteSet(F \ R) /\ Orders(before, F \ R)
      /\ IsFiniteSet(U) /\ Orders(before, U) /\ U \subseteq F \ R
    <2>1. IsFiniteSet(F \union R)
        BY FS_Union
    <2>2. F \in SUBSET (F \union R) /\ R \in SUBSET (F \union R) /\ R \ F \in SUBSET (F \union R)
          /\ F \ R \in SUBSET (F \union R) /\ U \in SUBSET (F \union R) /\ U \subseteq F \ R
        BY DEF Late
    <2> HIDE DEF U
    <2> QED BY <2>1, <2>2, PartsAreOrdered
<1>2. Lists(local, F, before) /\ Lists(remote, R, before) /\ Len(remote) = Cardinality(R)
    BY <1>1, SortedLists
<1>3. Finds(merged, F, R, before)
    BY <1>2, MergeFinds
<1> HIDE DEF merged
<1>4. Lists(merged.missing, R \ F, before) /\ (R \subseteq F => Lists(merged.unapplied, U, before))
    BY <1>3 DEF Finds, Late
<1> HIDE DEF U
<1>5. merged.missing = Sorted(R \ F, before) /\ (merged.missing # <<>> <=> R \ F # {})
    BY <1>1, <1>4, ListsAreSorted, NothingListed
<1>6. ASSUME R \subseteq F
      PROVE  /\ merged.unapplied = Sorted(U, before) /\ (merged.unapplied # <<>> <=> U # {})
             /\ Len(merged.unapplied) = Cardinality(U)
    <2>1. Lists(merged.unapplied, U, before)
        BY <1>4, <1>6
    <2>2. merged.unapplied = Sorted(U, before)
        BY <1>1, <2>1, ListsAreSorted
    <2>3. Len(Sorted(U, before)) = Cardinality(U)
        BY <1>1, SortedLists
    <2> QED BY <2>1, <2>2, <2>3, NothingListed
<1>7. ASSUME R \subseteq F
      PROVE  /\ Drop(local, Len(remote) + Cardinality(U)) = Sorted((F \ R) \ U, before)
             /\ \A u \in U, w \in (F \ R) \ U : <<u, w>> \in before
    BY <1>1, <1>2, <1>7, BehindTheLate DEF U
<1>8. ASSUME R \subseteq F, U = {}
      PROVE  Drop(local, Len(remote)) = Sorted(F \ R, before)
    <2>1. Cardinality(U) = 0 /\ (F \ R) \ U = F \ R
        BY <1>8, FS_EmptySet
    <2>2. Len(remote) + Cardinality(U) = Len(remote)
        BY <1>2, <2>1, FS_CardinalityType
    <2> QED BY <1>7, <1>8, <2>1, <2>2
<1>9. FindPendingMigrations(local, remote, before) =
        IF merged.missing # <<>> THEN Outcome("missing local", merged.missing)
        ELSE IF merged.unapplied # <<>> THEN Outcome("missing remote", merged.unapplied)
        ELSE Outcome("none", Drop(local, Len(remote)))
    BY DEF FindPendingMigrations, merged
<1>10. FindPendingMigrations(local, remote, before) = PendingOf(F, R, before)
    <2>1. CASE R \ F # {}
        BY <1>5, <1>9, <2>1 DEF PendingOf
    <2>2. CASE R \ F = {} /\ U # {}
        <3>1. R \subseteq F
            BY <2>2
        <3> QED BY <1>5, <1>6, <1>9, <2>2, <3>1 DEF PendingOf, U
    <2>3. CASE R \ F = {} /\ U = {}
        <3>1. R \subseteq F
            BY <2>3
        <3> QED BY <1>5, <1>6, <1>8, <1>9, <2>3, <3>1 DEF PendingOf, U
    <2> QED BY <2>1, <2>2, <2>3
<1>11. ASSUME R \subseteq F
       PROVE  GetPendingMigrations(local, remote, TRUE, before) = Outcome("none", Sorted(F \ R, before))
    <2>1. R \ F = {}
        BY <1>11
    <2>2. CASE U = {}
        <3>1. FindPendingMigrations(local, remote, before) = Outcome("none", Sorted(F \ R, before))
            BY <1>10, <2>1, <2>2 DEF PendingOf, U
        <3> QED BY <3>1 DEF GetPendingMigrations, Outcome
    <2>3. CASE U # {}
        <3> DEFINE s == Sorted(U, before)
                   t == Sorted((F \ R) \ U, before)
        <3>1. FindPendingMigrations(local, remote, before) = Outcome("missing remote", s)
            BY <1>10, <2>1, <2>3 DEF PendingOf, U
        <3>2. Len(s) = Cardinality(U) /\ Lists(s, U, before)
            BY <1>1, SortedLists
        <3>3. Drop(local, Len(remote) + Len(s)) = t
            BY <1>7, <1>11, <3>2
        <3>4. Lists(t, (F \ R) \ U, before)
            <4>1. (F \ R) \ U \in SUBSET (F \ R)
                OBVIOUS
            <4>2. IsFiniteSet((F \ R) \ U) /\ Orders(before, (F \ R) \ U)
                BY <1>1, <4>1, PartsAreOrdered
            <4> QED BY <4>2, SortedLists
        <3> HIDE DEF s, t
        <3>5. Lists(s \o t, U \union ((F \ R) \ U), before)
            BY <1>7, <1>11, <3>2, <3>4, Joined
        <3>6. U \union ((F \ R) \ U) = F \ R
            BY <1>1
        <3>7. s \o t = Sorted(F \ R, before)
            BY <1>1, <3>5, <3>6, ListsAreSorted
        <3>8. GetPendingMigrations(local, remote, TRUE, before) = Outcome("none", s \o Drop(local, Len(remote) + Len(s)))
            <4>1. PICK found : found = FindPendingMigrations(local, remote, before)
                OBVIOUS
            <4>2. found.error = "missing remote" /\ found.list = s
                BY ZenonT(90), <3>1, <4>1, OutcomeIs
            <4>3. GetPendingMigrations(local, remote, TRUE, before)
                    = Outcome("none", found.list \o Drop(local, Len(remote) + Len(found.list)))
                BY <4>1, <4>2 DEF GetPendingMigrations
            <4> QED BY <4>2, <4>3
        <3> QED BY <3>3, <3>7, <3>8
    <2> QED BY <2>2, <2>3
<1> QED BY <1>10, <1>11

-----------------------------------------------------------------------------
(* The inductive invariant *)

\* Nobody writes rows for what did not run.
Plain == team.commands \cap {"repair", "squash"} = {}

\* The body of every file, or row, is the migration it is named after.
Own(f) == DOMAIN f \subseteq Nat /\ \A v \in DOMAIN f : f[v] = <<v>>

\* The table has a row for each migration that ran, and each ran once.
Told == ran \in Seq(Nat) /\ ToSet(ran) = DOMAIN rows /\ IsInjective(ran)

Shape ==
    /\ team \in Teams /\ clock \in Nat
    /\ files = [d \in Devs |-> files[d]] /\ cmd = [d \in Devs |-> cmd[d]]
    /\ \A d \in Devs : "at" \in DOMAIN cmd[d]

IInv ==
    /\ Shape
    /\ Plain => /\ \A d \in Devs : Own(files[d]) /\ cmd[d].at \notin {"remove", "baseline"}
                /\ Own(rows) /\ Told

-----------------------------------------------------------------------------
(* Files, rows and what ran *)

\* Two collections of files, of which the first is written over the second.
LEMMA OwnUnion ==
    ASSUME NEW f, NEW g, Own(f), Own(g)
    PROVE  Own(Over(f, g)) /\ DOMAIN (Over(f, g)) = DOMAIN f \union DOMAIN g
    BY DEF Own, Over

\* A new migration is a file with a body of its own.
LEMMA OwnOne ==
    ASSUME NEW v \in Nat
    PROVE  Own(Entry(v, <<v>>)) /\ DOMAIN Entry(v, <<v>>) = {v}
    BY DEF Own, Entry

\* What a migration that has no row adds.
LEMMA Runs ==
    ASSUME NEW s \in Seq(Nat), NEW v \in Nat, v \notin ToSet(s), IsInjective(s)
    PROVE  /\ s \o <<v>> \in Seq(Nat) /\ IsInjective(s \o <<v>>)
           /\ ToSet(s \o <<v>>) = ToSet(s) \union {v}
<1> DEFINE t == s \o <<v>>
<1>1. t \in Seq(Nat) /\ Len(t) = Len(s) + 1 /\ t[Len(t)] = v /\ Len(s) \in Nat
    OBVIOUS
<1>2. \A i \in 1..Len(s) : t[i] = s[i] /\ i \in 1..Len(t) /\ s[i] # v
    BY DEF ToSet
<1>3. DOMAIN s = 1..Len(s) /\ DOMAIN t = 1..(Len(s) + 1)
    BY <1>1
<1>4. \A i \in DOMAIN t : i \in DOMAIN s \/ i = Len(t)
    BY <1>1, <1>3
<1> HIDE DEF t
<1>5. IsInjective(t)
    BY <1>1, <1>2, <1>3, <1>4 DEF IsInjective
<1>6. ToSet(t) = ToSet(s) \union {v}
    BY <1>1, <1>2, <1>3, <1>4 DEF ToSet
<1> QED BY <1>1, <1>5, <1>6 DEF t

-----------------------------------------------------------------------------
(* The steps *)

\* A step of one developer, which changes his command, files and the table.
LEMMA Changes ==
    ASSUME IInv, NEW d \in Devs, NEW c, NEW f, "at" \in DOMAIN c,
           cmd' = [cmd EXCEPT ![d] = c], files' = [files EXCEPT ![d] = f],
           UNCHANGED team, clock' \in Nat,
           Plain => Own(f) /\ c.at \notin {"remove", "baseline"} /\ Own(rows)' /\ Told'
    PROVE  IInv'
<1>1. \A e \in Devs : /\ cmd'[e] = IF e = d THEN c ELSE cmd[e]
                      /\ files'[e] = IF e = d THEN f ELSE files[e]
    BY DEF IInv, Shape
<1>2. Shape'
    BY <1>1 DEF IInv, Shape
<1>3. Plain' => /\ \A e \in Devs : Own(files'[e]) /\ cmd'[e].at \notin {"remove", "baseline"}
                /\ Own(rows)' /\ Told'
    BY <1>1 DEF IInv, Plain
<1> QED BY <1>2, <1>3 DEF IInv

\* The same for a step that leaves the files, the table or the command alone.
LEMMA KeepsFiles ==
    ASSUME IInv, NEW d \in Devs, NEW c, "at" \in DOMAIN c, Goto(d, c), UNCHANGED <<files, clock, team>>,
           Plain => c.at \notin {"remove", "baseline"} /\ Own(rows)' /\ Told'
    PROVE  IInv'
<1>1. files' = [files EXCEPT ![d] = files[d]]
    BY DEF IInv, Shape
<1>2. Plain => Own(files[d])
    BY DEF IInv
<1> QED BY <1>1, <1>2, Changes DEF Goto, IInv, Shape

\* A step that only touches files keeps the table and what it tells.
LEMMA KeepsTable ==
    ASSUME IInv, NEW d \in Devs, NEW f, files' = [files EXCEPT ![d] = f], clock' \in Nat,
           UNCHANGED <<rows, ran, cmd, team>>, Plain => Own(f)
    PROVE  IInv'
<1>1. cmd' = [cmd EXCEPT ![d] = cmd[d]]
    BY DEF IInv, Shape
<1>2. Plain => cmd[d].at \notin {"remove", "baseline"} /\ Own(rows)' /\ Told'
    BY DEF IInv, Told, Own
<1> QED BY <1>1, <1>2, Changes DEF IInv, Shape

\* A command that begins keeps what the table tells.
LEMMA Starts ==
    ASSUME IInv, NEW d \in Devs, NEW c, "at" \in DOMAIN c, Goto(d, c),
           UNCHANGED <<files, clock, rows, ran, team>>, Plain => c.at \notin {"remove", "baseline"}
    PROVE  IInv'
<1>1. Plain => Own(rows)' /\ Told'
    BY DEF IInv, Told, Own
<1> QED BY <1>1, KeepsFiles

\* Where the commands are that are running, and those that are not.
LEMMA Commands ==
    /\ "at" \in DOMAIN NoCommand /\ NoCommand.at = "none"
    /\ \A at, queue, keep : "at" \in DOMAIN Running(at, queue, keep) /\ Running(at, queue, keep).at = at
    BY DEF NoCommand, Running

\* A pull only touches files.
LEMMA PullStep ==
    ASSUME IInv, NEW d \in Devs, NEW e \in Devs, GitPull(d, e)
    PROVE  IInv'
<1> DEFINE both == UNION {{[version |-> v, body |-> files[x][v]] : v \in DOMAIN files[x]} : x \in {d, e}}
           merged == {f \in both : \A g \in both :
                         ToSet(f.body) \subseteq ToSet(g.body) /\ ToSet(f.body) # ToSet(g.body)
                            => f.body = <<>> /\ f.version # g.version}
           pulled == [v \in {f.version : f \in merged} |-> (CHOOSE f \in merged : f.version = v).body]
<1>1. files' = [files EXCEPT ![d] = pulled] /\ UNCHANGED <<clock, rows, ran, cmd, team>>
    BY DEF GitPull
<1>2. ASSUME Plain PROVE Own(pulled)
    <2>1. \A f \in both : f.version \in Nat /\ f.body = <<f.version>>
        BY <1>2 DEF IInv, Own
    <2>2. \A f \in merged : f.version \in Nat /\ f.body = <<f.version>>
        BY <2>1
    <2> HIDE DEF merged
    <2>3. ASSUME NEW v \in DOMAIN pulled PROVE v \in Nat /\ pulled[v] = <<v>>
        <3>1. PICK f \in merged : f.version = v
            BY <2>3
        <3>2. (CHOOSE g \in merged : g.version = v) \in merged
              /\ (CHOOSE g \in merged : g.version = v).version = v
            BY <3>1
        <3> QED BY <2>2, <3>1, <3>2
    <2> QED BY <2>3 DEF Own
<1> HIDE DEF pulled
<1>3. clock' \in Nat
    BY <1>1 DEF IInv, Shape
<1> QED BY <1>1, <1>2, <1>3, KeepsTable

\* A migration runs together with its row, or neither.
LEMMA ApplyStep ==
    ASSUME IInv, NEW d \in Devs, ApplyNext(d)
    PROVE  IInv'
<1> DEFINE v == Head(cmd[d].queue)
<1>1. /\ v \in DOMAIN files[d] /\ Commit(v, files[d][v]) /\ UNCHANGED <<files, clock, team>>
      /\ cmd[d].at \in {"apply", "rebuild"}
      /\ \/ Goto(d, Running(cmd[d].at, Tail(cmd[d].queue), cmd[d].keep))
         \/ Goto(d, NoCommand)
    BY DEF ApplyNext, EndCommand
<1> HIDE DEF v
<1>2. ASSUME Plain PROVE Own(rows)' /\ Told'
    <2>1. v \in Nat /\ files[d][v] = <<v>> /\ Own(rows) /\ Told
        BY <1>1, <1>2 DEF IInv, Own
    <2>2. rows' = Over(rows, Entry(v, <<v>>)) /\ ran' = ran \o <<v>> /\ v \notin DOMAIN rows
        BY <1>1, <2>1 DEF Commit
    <2> DEFINE entry == Entry(v, <<v>>)
    <2>5. Own(entry) /\ DOMAIN entry = {v}
        BY <2>1, OwnOne
    <2> HIDE DEF entry
    <2>6. Own(Over(rows, entry)) /\ DOMAIN Over(rows, entry) = DOMAIN rows \union {v}
        BY <2>1, <2>5, OwnUnion
    <2>3. Own(rows') /\ DOMAIN rows' = DOMAIN rows \union {v}
        BY <2>2, <2>6 DEF entry
    <2>4. ran' \in Seq(Nat) /\ IsInjective(ran') /\ ToSet(ran') = ToSet(ran) \union {v}
        BY <2>1, <2>2, Runs DEF Told
    <2> QED BY <2>1, <2>3, <2>4 DEF Told
<1>3. PICK c : Goto(d, c) /\ "at" \in DOMAIN c /\ c.at \notin {"remove", "baseline"}
    BY <1>1, Commands
<1> QED BY <1>1, <1>2, <1>3, KeepsFiles

\* A reset empties the table and what ran.
LEMMA ResetStep ==
    ASSUME IInv, NEW d \in Devs, Reset(d)
    PROVE  IInv'
<1>1. /\ rows' = <<>> /\ ran' = <<>> /\ UNCHANGED <<files, clock, team>>
      /\ \E c : Goto(d, c) /\ "at" \in DOMAIN c /\ c.at = "rebuild"
    BY Commands DEF Reset
<1>2. Own(rows)' /\ Told'
    BY <1>1 DEF Own, Told, ToSet, IsInjective
<1> QED BY <1>1, <1>2, KeepsFiles

\* Every step keeps it.
LEMMA NextStep ==
    ASSUME Assumptions, IInv, Next
    PROVE  IInv'
<1>1. PICK d \in team.members :
        \/ NewMigration(d)
        \/ \E e \in team.members : GitPull(d, e)
        \/ Fetch(d)
        \/ \E includeAll \in BOOLEAN : Push(d, includeAll)
        \/ ApplyNext(d)
        \/ Finish(d)
        \/ Stop(d)
        \/ \E last \in 1..Cardinality(DOMAIN rows) : Down(d, last)
        \/ Reset(d)
        \/ \E versions \in SUBSET DOMAIN files[d], all \in BOOLEAN : RepairApplied(d, versions, all)
        \/ \E versions \in SUBSET DOMAIN rows, all \in BOOLEAN : RepairReverted(d, versions, all)
        \/ \E version \in DOMAIN files[d], given \in BOOLEAN :
              SquashNothing(d, version, given) \/ Squash(d, version, given)
        \/ RemoveMerged(d)
        \/ Baseline(d)
    BY DEF Next
<1>2. team.members \subseteq Devs
    BY DEF Assumptions, IInv, Shape, Team
<1>3. d \in Devs
    BY <1>2
<1>4. CASE NewMigration(d)
    <2>1. /\ files' = [files EXCEPT ![d] = Over(files[d], Entry(clock', <<clock'>>))]
          /\ clock' = clock + 1 /\ UNCHANGED <<rows, ran, cmd, team>>
        BY <1>3, <1>4 DEF NewMigration, IInv, Shape
    <2>2. clock' \in Nat
        BY <2>1 DEF IInv, Shape
    <2>3. Plain => Own(Over(files[d], Entry(clock', <<clock'>>)))
        BY <1>3, <2>2, OwnUnion, OwnOne DEF IInv
    <2> QED BY <1>3, <2>1, <2>2, <2>3, KeepsTable
<1>5. CASE \E e \in team.members : GitPull(d, e)
    BY <1>2, <1>3, <1>5, PullStep
<1>6. CASE Fetch(d)
    <2>1. files' = [files EXCEPT ![d] = Over(rows, files[d])] /\ UNCHANGED <<clock, rows, ran, cmd, team>>
        BY <1>3, <1>6 DEF Fetch, IInv, Shape
    <2>2. Plain => Own(Over(rows, files[d]))
        BY <1>3, OwnUnion DEF IInv
    <2>3. clock' \in Nat
        BY <2>1 DEF IInv, Shape
    <2> QED BY <1>3, <2>1, <2>2, <2>3, KeepsTable
<1>7. CASE \E includeAll \in BOOLEAN : Push(d, includeAll)
    <2>1. UNCHANGED <<files, clock, rows, ran, team>> /\ \E list : Goto(d, Running("apply", list, {}))
        BY <1>7 DEF Push
    <2> QED BY <1>3, <2>1, Starts, Commands
<1>8. CASE ApplyNext(d)
    BY <1>3, <1>8, ApplyStep
<1>9. CASE Finish(d) \/ Stop(d)
    BY <1>3, <1>9, Starts, Commands DEF Finish, Stop, EndCommand
<1>10. CASE \E last \in 1..Cardinality(DOMAIN rows) : Down(d, last)
    <2>1. UNCHANGED <<files, clock, rows, ran, team>> /\ \E queue, keep : Goto(d, Running("reset", queue, keep))
        BY <1>10 DEF Down
    <2> QED BY <1>3, <2>1, Starts, Commands
<1>11. CASE Reset(d)
    BY <1>3, <1>11, ResetStep
<1>12. CASE \E versions \in SUBSET DOMAIN files[d], all \in BOOLEAN : RepairApplied(d, versions, all)
    <2>1. "repair" \in team.commands /\ UNCHANGED <<files, clock, cmd, team>>
        BY <1>12 DEF RepairApplied, Free
    <2> QED BY <2>1 DEF IInv, Shape, Plain
<1>13. CASE \E versions \in SUBSET DOMAIN rows, all \in BOOLEAN : RepairReverted(d, versions, all)
    <2>1. "repair" \in team.commands /\ UNCHANGED <<files, clock, cmd, team>>
        BY <1>13 DEF RepairReverted, Free
    <2> QED BY <2>1 DEF IInv, Shape, Plain
<1>14. CASE \E version \in DOMAIN files[d], given \in BOOLEAN :
               SquashNothing(d, version, given) \/ Squash(d, version, given)
    <2>1. PICK version, given : SquashNothing(d, version, given) \/ Squash(d, version, given)
        BY <1>14
    <2>2. "squash" \in team.commands /\ UNCHANGED <<clock, team>>
        BY <2>1 DEF SquashNothing, Squash, Chosen, Free
    <2>3. PICK f, c : files' = [files EXCEPT ![d] = f] /\ Goto(d, c) /\ "at" \in DOMAIN c
        <3>1. CASE SquashNothing(d, version, given)
            <4>1. files' = [files EXCEPT ![d] = files[d]]
                BY <1>3, <3>1 DEF SquashNothing, IInv, Shape
            <4> QED BY <3>1, <4>1, Commands DEF SquashNothing
        <3>2. CASE Squash(d, version, given)
            <4>1. PICK text, c : files' = [files EXCEPT ![d][version] = text] /\ Goto(d, c) /\ "at" \in DOMAIN c
                BY <3>2, Commands DEF Squash
            <4>2. files' = [files EXCEPT ![d] = [files[d] EXCEPT ![version] = text]]
                BY <1>3, <4>1 DEF IInv, Shape
            <4> QED BY <4>1, <4>2
        <3> QED BY <2>1, <3>1, <3>2
    <2>4. ~Plain /\ clock' \in Nat
        BY <2>2 DEF Plain, IInv, Shape
    <2> QED BY <1>3, <2>2, <2>3, <2>4, Changes DEF Goto
<1>15. CASE RemoveMerged(d)
    <2>1. /\ cmd[d].at = "remove" /\ UNCHANGED <<clock, team>>
          /\ \E f : files' = [files EXCEPT ![d] = f]
          /\ \E queue : Goto(d, Running("baseline", queue, {}))
        BY <1>15 DEF RemoveMerged
    <2>2. PICK f, c : files' = [files EXCEPT ![d] = f] /\ Goto(d, c) /\ "at" \in DOMAIN c
        BY <2>1, Commands
    <2>3. ~Plain /\ clock' \in Nat
        BY <1>3, <2>1 DEF IInv, Shape
    <2> QED BY <1>3, <2>1, <2>2, <2>3, Changes DEF Goto
<1>16. CASE Baseline(d)
    <2>1. /\ cmd[d].at = "baseline" /\ UNCHANGED <<files, clock, team>> /\ Goto(d, NoCommand)
        BY <1>16 DEF Baseline, EndCommand
    <2>2. ~Plain
        BY <1>3, <2>1 DEF IInv
    <2> QED BY <1>3, <2>1, <2>2, Commands, KeepsFiles
<1> QED BY <1>1, <1>4, <1>5, <1>6, <1>7, <1>8, <1>9, <1>10, <1>11, <1>12, <1>13, <1>14, <1>15, <1>16

-----------------------------------------------------------------------------
(* The theorem *)

\* At first nothing ran and there is no row.
LEMMA InitHolds == ASSUME Init PROVE IInv
<1>1. Shape
    BY Commands DEF Init, Shape
<1>2. Own(<<>>) /\ \A d \in Devs : files[d] = <<>> /\ cmd[d].at = "none"
    BY Commands DEF Init, Own
<1>3. Told
    BY DEF Init, Told, ToSet, IsInjective
<1> QED BY <1>1, <1>2, <1>3 DEF Init, IInv

\* It tells what ran.
LEMMA IInvTells == ASSUME IInv PROVE HistoryTellsWhatRan
<1>1. ASSUME Plain PROVE Applied = DOMAIN rows
    <2>1. \A v \in DOMAIN rows : rows[v] = <<v>> /\ ToSet(<<v>>) = {v}
        BY <1>1 DEF IInv, Own, ToSet
    <2>2. \A v \in DOMAIN rows : ToSet(rows[v]) = {v}
        BY <2>1
    <2>3. \A m : m \in Applied <=> \E v \in DOMAIN rows : m \in ToSet(rows[v])
        BY DEF Applied
    <2>4. \A m : m \in Applied <=> m \in DOMAIN rows
        BY <2>2, <2>3
    <2> QED BY <2>4
<1> QED BY <1>1 DEF IInv, Told, HistoryTellsWhatRan, Plain
-----------------------------------------------------------------------------
(* What files, rows and commands hold *)

\* A table of bodies that are made of the first n migrations.
Holds(f, n) == DOMAIN f \subseteq 1..n /\ \A v \in DOMAIN f : f[v] \in Seq(1..n)

CommandOf(n) ==
    [at : {"none", "apply", "reset", "rebuild", "remove", "baseline"}, queue : Seq(1..n), keep : SUBSET (1..n)]

\* The file that a squash has dumped, which is the one it was given, if any, has
\* what the files hold that are to be removed.
Dump(version, c, f) ==
    /\ version \in DOMAIN f \ c.keep /\ c.keep \subseteq DOMAIN f
    /\ c.queue # <<>> => c.queue[1] = version
    /\ \A v \in c.keep : ToSet(f[v]) \subseteq ToSet(f[version])

\* A command of this form may run; a squash has its file.
Fits(d, c, f) ==
    /\ c.at # "none" => d \in team.members \cap team.pushers
    /\ c.at \in {"remove", "baseline"} => \E version : Dump(version, c, f)

TypeInv ==
    /\ team \in Teams /\ clock \in Nat /\ clock <= team.writes
    /\ files = [d \in Devs |-> files[d]] /\ cmd = [d \in Devs |-> cmd[d]]
    /\ \A d \in Devs : /\ Holds(files[d], clock) /\ cmd[d] \in CommandOf(clock)
                       /\ Fits(d, cmd[d], files[d])
    /\ Holds(rows, clock) /\ ran \in Seq(1..clock) /\ torn \subseteq 1..clock

\* What the constants say of the team that was chosen.
LEMMA TeamsAre ==
    ASSUME Assumptions, TypeInv
    PROVE  /\ team.members \subseteq Devs /\ team.pushers \subseteq Devs
           /\ team.writes \in Nat /\ team.writes <= MaxVersion /\ clock <= MaxVersion
<1>1. team \in Team /\ MaxVersion \in Nat
    BY DEF Assumptions, TypeInv
<1>2. team.writes \in 0..MaxVersion
    BY <1>1 DEF Team
<1>3. clock \in Nat /\ clock <= team.writes
    BY DEF TypeInv
<1> QED BY <1>1, <1>2, <1>3 DEF Team

\* A sequence over a set is one over a larger set.
LEMMA SeqInside == ASSUME NEW A, NEW B, A \subseteq B, NEW s \in Seq(A) PROVE s \in Seq(B)
<1>1. s = [i \in 1..Len(s) |-> s[i]] /\ Len(s) \in Nat /\ \A i \in 1..Len(s) : s[i] \in A
    OBVIOUS
<1>2. s \in [1..Len(s) -> B]
    BY <1>1
<1> QED BY <1>1, <1>2

\* Time goes on.
LEMMA LaterHolds ==
    ASSUME NEW n \in Nat, NEW m \in Nat, n <= m
    PROVE  /\ \A f : Holds(f, n) => Holds(f, m)
           /\ \A s : s \in Seq(1..n) => s \in Seq(1..m)
           /\ \A c : c \in CommandOf(n) => c \in CommandOf(m)
<1>1. 1..n \subseteq 1..m
    OBVIOUS
<1>2. ASSUME NEW s \in Seq(1..n) PROVE s \in Seq(1..m)
    BY <1>1
<1> DEFINE A == 1..n
           B == 1..m
<1>3. A \subseteq B /\ Seq(A) \subseteq Seq(B)
    BY <1>1, <1>2
<1> HIDE DEF A, B
<1>4. ASSUME NEW f, Holds(f, n) PROVE Holds(f, m)
    BY <1>3, <1>4 DEF Holds, A, B
<1>5. ASSUME NEW c \in CommandOf(n) PROVE c \in CommandOf(m)
    <2>1. c \in [at : {"none", "apply", "reset", "rebuild", "remove", "baseline"}, queue : Seq(A), keep : SUBSET A]
        BY DEF CommandOf, A
    <2>2. c \in [at : {"none", "apply", "reset", "rebuild", "remove", "baseline"}, queue : Seq(B), keep : SUBSET B]
        BY <1>3, <2>1
    <2> QED BY <2>2 DEF CommandOf, B
<1> QED BY <1>2, <1>4, <1>5

\* A step of one developer.
LEMMA TypeChanges ==
    ASSUME TypeInv, NEW d \in Devs, NEW f, NEW c, UNCHANGED team,
           clock' \in Nat, clock <= clock', clock' <= team.writes,
           files' = [files EXCEPT ![d] = f], cmd' = [cmd EXCEPT ![d] = c],
           Holds(f, clock'), Holds(rows', clock'), ran' \in Seq(1..clock'),
           torn' \subseteq 1..clock', c \in CommandOf(clock'), Fits(d, c, f)
    PROVE  TypeInv'
<1>1. clock \in Nat /\ files = [e \in Devs |-> files[e]] /\ cmd = [e \in Devs |-> cmd[e]]
    BY DEF TypeInv
<1>2. \A e \in Devs : /\ files'[e] = IF e = d THEN f ELSE files[e]
                      /\ cmd'[e] = IF e = d THEN c ELSE cmd[e]
    BY <1>1
<1>3. files' = [e \in Devs |-> files'[e]] /\ cmd' = [e \in Devs |-> cmd'[e]]
    BY <1>1
<1>4. ASSUME NEW e \in Devs
      PROVE  Holds(files'[e], clock') /\ cmd'[e] \in CommandOf(clock') /\ Fits(e, cmd[e], files[e])'
    <2>1. CASE e = d
        BY <1>2, <2>1 DEF Fits
    <2>2. CASE e # d
        <3>1. Holds(files[e], clock) /\ cmd[e] \in CommandOf(clock) /\ Fits(e, cmd[e], files[e])
            BY DEF TypeInv
        <3>2. Holds(files[e], clock') /\ cmd[e] \in CommandOf(clock')
            BY <1>1, <3>1, LaterHolds
        <3> QED BY <1>2, <2>2, <3>1, <3>2 DEF Fits
    <2> QED BY <2>1, <2>2
<1> QED BY <1>3, <1>4 DEF TypeInv

\* The same where files, or where the command, stay.
LEMMA TypeCommand ==
    ASSUME TypeInv, NEW d \in Devs, NEW c, UNCHANGED <<files, clock, team, torn>>, Goto(d, c),
           Holds(rows', clock), ran' \in Seq(1..clock), c \in CommandOf(clock), Fits(d, c, files[d])
    PROVE  TypeInv'
<1>1. /\ files' = [files EXCEPT ![d] = files[d]] /\ Holds(files[d], clock) /\ clock \in Nat /\ clock <= team.writes
      /\ torn' \subseteq 1..clock
    BY DEF TypeInv
<1>2. clock' = clock /\ clock <= clock' /\ clock' <= team.writes /\ clock' \in Nat
    BY <1>1
<1> QED BY <1>1, <1>2, TypeChanges DEF Goto

\* A step that only writes files of known versions keeps the types.
LEMMA TypeFiles ==
    ASSUME TypeInv, NEW d \in Devs, NEW f, UNCHANGED <<rows, ran, cmd, team, torn>>,
           clock' \in Nat, clock <= clock', clock' <= team.writes,
           files' = [files EXCEPT ![d] = f], Holds(f, clock'), cmd[d].at = "none"
    PROVE  TypeInv'
<1>1. /\ cmd' = [cmd EXCEPT ![d] = cmd[d]] /\ clock \in Nat /\ Holds(rows, clock) /\ ran \in Seq(1..clock)
      /\ cmd[d] \in CommandOf(clock) /\ Fits(d, cmd[d], files[d]) /\ torn \subseteq 1..clock
    BY DEF TypeInv
<1>2. /\ Holds(rows', clock') /\ ran' \in Seq(1..clock') /\ cmd[d] \in CommandOf(clock')
      /\ torn' \subseteq 1..clock'
    BY <1>1, LaterHolds
<1>3. Fits(d, cmd[d], f)
    BY <1>1 DEF Fits
<1> QED BY <1>1, <1>2, <1>3, TypeChanges

\* A command that ends keeps the types.
LEMMA TypeEnds ==
    ASSUME TypeInv, NEW d \in Devs, UNCHANGED <<files, clock, team, torn>>, EndCommand(d),
           Holds(rows', clock), ran' \in Seq(1..clock)
    PROVE  TypeInv'
<1>1. NoCommand \in CommandOf(clock)
    BY DEF NoCommand, CommandOf
<1>2. Fits(d, NoCommand, files[d])
    BY DEF NoCommand, Fits
<1> QED BY <1>1, <1>2, TypeCommand DEF EndCommand

\* A command that begins with a queue of known versions keeps the types.
LEMMA TypeStarts ==
    ASSUME TypeInv, NEW d \in Devs, UNCHANGED <<files, clock, team, torn>>,
           NEW at \in {"apply", "reset", "rebuild"},
           NEW queue \in Seq(1..clock), NEW keep \in SUBSET (1..clock),
           Goto(d, Running(at, queue, keep)), d \in team.members \cap team.pushers,
           Holds(rows', clock), ran' \in Seq(1..clock)
    PROVE  TypeInv'
<1>1. Running(at, queue, keep) \in CommandOf(clock)
    BY DEF Running, CommandOf
<1>2. Fits(d, Running(at, queue, keep), files[d])
    BY DEF Running, Fits
<1> QED BY <1>1, <1>2, TypeCommand

\* Tables that are put together.
LEMMA OverHolds ==
    ASSUME NEW n \in Nat, NEW f, NEW g, Holds(f, n), Holds(g, n)
    PROVE  Holds(Over(f, g), n)
BY DEF Holds, Over

\* A part of a table has the types of the table.
LEMMA PartHolds ==
    ASSUME NEW n \in Nat, NEW f, Holds(f, n), NEW set, set \subseteq DOMAIN f
    PROVE  Holds(Table(f, set), n)
BY DEF Holds, Table

\* A table of one entry has its types.
LEMMA EntryHolds ==
    ASSUME NEW n \in Nat, NEW v \in 1..n, NEW body \in Seq(1..n)
    PROVE  Holds(Entry(v, body), n)
BY DEF Holds, Entry

\* Versions in the order of time.
LEMMA TimeOrders ==
    ASSUME Assumptions, NEW set, set \subseteq Versions
    PROVE  /\ IsFiniteSet(set) /\ Orders(Older, set)
           /\ \A u, v \in set : <<u, v>> \in Older <=> u < v
<1>1. MaxVersion \in Nat /\ Versions = 1..MaxVersion
    BY DEF Assumptions, Versions
<1>2. IsFiniteSet(1..MaxVersion)
    BY <1>1, FS_Interval
<1>3. IsFiniteSet(set)
    BY <1>1, <1>2, FS_Subset
<1>4. set \subseteq Nat
    BY <1>1
<1>5. ASSUME NEW u \in set, NEW v \in set PROVE <<u, v>> \in Older <=> u < v
    <2>1. <<u, v>> \in Versions \X Versions
        OBVIOUS
    <2> QED BY <2>1 DEF Older
<1>6. Orders(Older, set)
    <2>1. \A x \in set : <<x, x>> \notin Older
        BY <1>4, <1>5
    <2>2. \A x, y, z \in set : <<x, y>> \in Older /\ <<y, z>> \in Older => <<x, z>> \in Older
        <3>1. \A x, y, z \in set : x < y /\ y < z => x < z
            BY <1>4
        <3> QED BY <1>5, <3>1
    <2>3. \A x, y \in set : x = y \/ <<x, y>> \in Older \/ <<y, x>> \in Older
        <3>1. \A x, y \in set : x = y \/ x < y \/ y < x
            BY <1>4
        <3> QED BY <1>5, <3>1
    <2> QED BY <2>1, <2>2, <2>3 DEF Orders
<1> QED BY <1>3, <1>5, <1>6

\* The versions of a finite set are listed from the oldest to the newest.
LEMMA VersionsInOrder ==
    ASSUME Assumptions, TypeInv, NEW set, set \subseteq 1..clock
    PROVE  /\ IsFiniteSet(set) /\ Orders(Older, set)
           /\ Lists(InOrder(set), set, Older) /\ Len(InOrder(set)) = Cardinality(set)
           /\ InOrder(set) \in Seq(1..clock)
           /\ \A u, v \in set : <<u, v>> \in Older <=> u < v
<1>1. clock \in Nat /\ clock <= MaxVersion /\ MaxVersion \in Nat
    BY TeamsAre DEF TypeInv, Assumptions
<1>2. set \subseteq Versions
    BY <1>1 DEF Versions
<1>3. /\ IsFiniteSet(set) /\ Orders(Older, set)
      /\ \A u, v \in set : <<u, v>> \in Older <=> u < v
    BY <1>2, TimeOrders
<1>7. Lists(InOrder(set), set, Older) /\ Len(InOrder(set)) = Cardinality(set)
    BY <1>3, SortedLists DEF InOrder
<1>8. InOrder(set) \in Seq(1..clock)
    <2>1. InOrder(set) \in Seq(set)
        BY <1>7 DEF Lists
    <2> QED BY <2>1, SeqInside
<1> QED BY <1>3, <1>7, <1>8

\* The pending files of a checkout are those that PendingOf tells.
LEMMA PendingIs ==
    ASSUME Assumptions, TypeInv, NEW d \in Devs, NEW includeAll \in BOOLEAN
    PROVE  /\ Pending(d, FALSE) = PendingOf(DOMAIN files[d], DOMAIN rows, Older)
           /\ DOMAIN rows \subseteq DOMAIN files[d] =>
                 Pending(d, TRUE) = Outcome("none", InOrder(DOMAIN files[d] \ DOMAIN rows))
           /\ Pending(d, includeAll).error = "none" =>
                 /\ DOMAIN rows \subseteq DOMAIN files[d]
                 /\ Pending(d, includeAll) = Outcome("none", InOrder(DOMAIN files[d] \ DOMAIN rows))
<1> DEFINE F == DOMAIN files[d]
           R == DOMAIN rows
           local == InOrder(F)
           remote == InOrder(R)
           found == FindPendingMigrations(local, remote, Older)
<1>1. F \subseteq 1..clock /\ R \subseteq 1..clock /\ F \union R \subseteq 1..clock
    BY DEF TypeInv, Holds
<1>2. IsFiniteSet(F) /\ IsFiniteSet(R) /\ Orders(Older, F \union R)
    BY <1>1, VersionsInOrder
<1>3. local = Sorted(F, Older) /\ remote = Sorted(R, Older)
    BY DEF InOrder
<1>4. \A all : Pending(d, all) = GetPendingMigrations(local, remote, all, Older)
    BY DEF Pending
<1> HIDE DEF F, R, local, remote
<1>5. /\ found = PendingOf(F, R, Older)
      /\ R \subseteq F => GetPendingMigrations(local, remote, TRUE, Older) = Outcome("none", InOrder(F \ R))
    BY <1>2, <1>3, PendingFound DEF InOrder
<1>6. GetPendingMigrations(local, remote, FALSE, Older) = found
    BY DEF GetPendingMigrations
<1>7. found.error = "none" => R \subseteq F /\ found = Outcome("none", InOrder(F \ R))
    <2>1. ASSUME R \ F # {} PROVE found.error = "missing local"
        BY <1>5, <2>1, OutcomeIs DEF PendingOf
    <2>2. ASSUME R \ F = {}, Late(F, R, Older) # {} PROVE found.error = "missing remote"
        BY <1>5, <2>2, OutcomeIs DEF PendingOf
    <2>3. ASSUME R \ F = {}, Late(F, R, Older) = {} PROVE found = Outcome("none", InOrder(F \ R))
        BY <1>5, <2>3 DEF PendingOf, InOrder
    <2> QED BY <2>1, <2>2, <2>3
<1>8. ASSUME ~(R \subseteq F) PROVE GetPendingMigrations(local, remote, TRUE, Older).error # "none"
    <2>1. R \ F # {}
        BY <1>8
    <2>2. found.error = "missing local"
        BY <1>5, <2>1, OutcomeIs DEF PendingOf
    <2>3. GetPendingMigrations(local, remote, TRUE, Older) = found
        BY <2>2 DEF GetPendingMigrations
    <2> QED BY <2>2, <2>3
<1>9. Pending(d, FALSE) = found /\ (R \subseteq F => Pending(d, TRUE) = Outcome("none", InOrder(F \ R)))
    BY <1>4, <1>5, <1>6
<1>10. Pending(d, TRUE).error = "none" => R \subseteq F
    BY <1>4, <1>8
<1> QED BY <1>5, <1>7, <1>9, <1>10 DEF F, R

\* What a sequence holds is in its set.
LEMMA SetOfSeq == ASSUME NEW S, NEW s \in Seq(S) PROVE ToSet(s) \subseteq S
BY DEF ToSet

\* A sequence that is part of another one.
LEMMA PartsOfSeq ==
    ASSUME NEW S, NEW s \in Seq(S), s # <<>>
    PROVE  Tail(s) \in Seq(S) /\ Head(s) \in S
    OBVIOUS
\* A squashed file holds what its files held.
LEMMA ToSetJoined ==
    ASSUME NEW A, NEW a \in Seq(A), NEW b \in Seq(A)
    PROVE  a \o b \in Seq(A) /\ ToSet(a \o b) = ToSet(a) \union ToSet(b)
<1>1. PICK c : c = a \o b
    OBVIOUS
<1>2. /\ Len(a) \in Nat /\ Len(b) \in Nat /\ DOMAIN a = 1..Len(a) /\ DOMAIN b = 1..Len(b)
      /\ c \in Seq(A) /\ DOMAIN c = 1..(Len(a) + Len(b))
    BY <1>1
<1>3. \A i \in 1..Len(a) : c[i] = a[i] /\ i \in DOMAIN c
    BY <1>1, <1>2
<1>4. \A i \in 1..Len(b) : c[Len(a) + i] = b[i] /\ Len(a) + i \in DOMAIN c
    BY <1>1, <1>2
<1>5. \A k \in DOMAIN c : k \in 1..Len(a) \/ \E m \in 1..Len(b) : k = Len(a) + m
    <2> SUFFICES ASSUME NEW k \in DOMAIN c, k \notin 1..Len(a)
                 PROVE  \E m \in 1..Len(b) : k = Len(a) + m
        OBVIOUS
    <2>1. k - Len(a) \in 1..Len(b) /\ k = Len(a) + (k - Len(a))
        BY <1>2
    <2> QED BY <2>1
<1>6. ASSUME NEW v PROVE v \in ToSet(c) <=> (v \in ToSet(a) \/ v \in ToSet(b))
    <2>1. ASSUME v \in ToSet(c) PROVE v \in ToSet(a) \/ v \in ToSet(b)
        <3>1. PICK k \in DOMAIN c : c[k] = v
            BY <2>1 DEF ToSet
        <3>2. CASE k \in 1..Len(a)
            BY <1>2, <1>3, <3>1, <3>2 DEF ToSet
        <3>3. ASSUME NEW m \in 1..Len(b), k = Len(a) + m PROVE v \in ToSet(b)
            BY <1>2, <1>4, <3>1, <3>3 DEF ToSet
        <3> QED BY <1>5, <3>2, <3>3
    <2>2. ASSUME v \in ToSet(a) PROVE v \in ToSet(c)
        BY <1>2, <1>3, <2>2 DEF ToSet
    <2>3. ASSUME v \in ToSet(b) PROVE v \in ToSet(c)
        BY <1>2, <1>4, <2>3 DEF ToSet
    <2> QED BY <2>1, <2>2, <2>3
<1> QED BY <1>1, <1>2, <1>6

\* Bodies one after the other hold what each of them holds.
LEMMA Flattened ==
    ASSUME NEW A, NEW bodies, Len(bodies) \in Nat, Len(bodies) # 0,
           \A i \in 1..Len(bodies) : bodies[i] \in Seq(A)
    PROVE  /\ FlattenSeq(bodies) \in Seq(A)
           /\ \A m : m \in ToSet(FlattenSeq(bodies)) <=> \E i \in 1..Len(bodies) : m \in ToSet(bodies[i])
<1> DEFINE n == Len(bodies)
           Up(f, i) == IF i = 1 THEN bodies[i] ELSE f[i - 1] \o bodies[i]
           Good(f, k) == f = [i \in 1..n |-> f[i]] /\ \A i \in 1..n : i <= k => f[i] = Up(f, i)
           T == {k \in Nat : \E f : Good(f, k)}
<1>1. 0 \in T
    <2>1. PICK f : f = [i \in 1..n |-> 0]
        OBVIOUS
    <2>2. f = [i \in 1..n |-> f[i]]
        BY <2>1
    <2>3. \A i \in 1..n : ~(i <= 0)
        OBVIOUS
    <2> QED BY <2>2, <2>3
<1>2. ASSUME NEW k \in Nat, k \in T PROVE k + 1 \in T
    <2>1. PICK f : Good(f, k)
        BY <1>2
    <2>2. PICK g : g = [i \in 1..n |-> IF i <= k THEN f[i] ELSE Up(f, i)]
        OBVIOUS
    <2>3. ASSUME NEW i \in 1..n, i <= k + 1 PROVE g[i] = Up(g, i)
        <3>1. g[i] = Up(f, i)
            BY <2>1, <2>2
        <3>2. CASE i = 1
            BY <3>1, <3>2
        <3>3. CASE i # 1
            <4>1. i - 1 \in 1..n /\ i - 1 <= k
                BY <2>3, <3>3
            <4>2. g[i - 1] = f[i - 1]
                BY <2>2, <4>1
            <4> QED BY <3>1, <4>2
        <3> QED BY <3>2, <3>3
    <2> HIDE DEF Up
    <2>4. g = [i \in 1..n |-> g[i]]
        BY <2>2
    <2> QED BY <2>3, <2>4
<1> HIDE DEF T
<1>3. n \in T
    BY <1>1, <1>2, Climb
<1>4. PICK f : Good(f, n)
    BY <1>3 DEF T
<1> DEFINE Loop(g) == g = [i \in 1..n |-> Up(g, i)]
<1>5. \E g : Loop(g)
    <2> HIDE DEF Up
    <2>1. Loop(f)
        BY <1>4
    <2> QED BY <2>1
<1>6. PICK flat : flat = CHOOSE g : Loop(g)
    OBVIOUS
<1>7. Loop(flat)
    <2> HIDE DEF Loop
    <2> QED BY <1>5, <1>6
<1>8. FlattenSeq(bodies) = flat[n]
    BY <1>6 DEF FlattenSeq
<1>9. \A i \in 1..n : flat[i] = Up(flat, i)
    <2> HIDE DEF Up
    <2> QED BY <1>7
<1> DEFINE Right(k) == /\ flat[k] \in Seq(A)
                       /\ \A m : m \in ToSet(flat[k]) <=> \E i \in 1..k : m \in ToSet(bodies[i])
           S == {k \in Nat : k \in 1..n => Right(k)}
<1>10. 0 \in S
    OBVIOUS
<1>11. ASSUME NEW k \in Nat, k \in S PROVE k + 1 \in S
    <2> SUFFICES ASSUME k + 1 \in 1..n PROVE Right(k + 1)
        OBVIOUS
    <2>1. CASE k = 0
        <3>1. k + 1 = 1 /\ flat[1] = bodies[1] /\ 1 \in 1..n /\ 1..1 = {1}
            BY <1>9, <2>1
        <3> QED BY <3>1
    <2>2. CASE k # 0
        <3>1. k \in 1..n /\ (k + 1) - 1 = k /\ k + 1 # 1
            BY <2>2
        <3>2. flat[k + 1] = flat[k] \o bodies[k + 1]
            BY <1>9, <3>1
        <3>3. Right(k)
            BY <1>11, <3>1
        <3>4. /\ flat[k + 1] \in Seq(A)
              /\ ToSet(flat[k + 1]) = ToSet(flat[k]) \union ToSet(bodies[k + 1])
            BY <3>2, <3>3, ToSetJoined
        <3>5. 1..(k + 1) = 1..k \union {k + 1}
            OBVIOUS
        <3> QED BY <3>3, <3>4, <3>5
    <2> QED BY <2>1, <2>2
<1> HIDE DEF S
<1>12. n \in S
    BY <1>10, <1>11, Climb
<1>13. n \in 1..n
    OBVIOUS
<1>14. Right(n)
    BY <1>12, <1>13 DEF S
<1> QED BY <1>8, <1>14

\* The dump of a squash holds what the merged files hold.
LEMMA DumpHolds ==
    ASSUME Assumptions, TypeInv, NEW d \in Devs, NEW version \in DOMAIN files[d]
    PROVE  /\ Dumped(d, version) \in Seq(1..clock)
           /\ \A m : m \in ToSet(Dumped(d, version)) <=>
                        \E v \in Merged(d, version) : m \in ToSet(files[d][v])
<1> DEFINE merged == Merged(d, version)
           s == InOrder(merged)
           bodies == [n \in 1..Cardinality(merged) |-> files[d][s[n]]]
<1>1. merged \subseteq DOMAIN files[d] /\ DOMAIN files[d] \subseteq 1..clock
    BY DEF Merged, TypeInv, Holds
<1>2. version \in merged
    BY <1>1 DEF Merged
<1> HIDE DEF merged
<1>3. IsFiniteSet(merged) /\ Lists(s, merged, Older) /\ Len(s) = Cardinality(merged)
    <2>1. merged \subseteq 1..clock
        BY <1>1
    <2> QED BY <2>1, VersionsInOrder
<1> HIDE DEF s
<1>4. /\ s \in Seq(merged) /\ Len(s) \in Nat /\ Len(s) # 0
      /\ \A i \in 1..Len(s) : s[i] \in merged
      /\ \A v \in merged : \E i \in 1..Len(s) : s[i] = v
    <2>1. s \in Seq(merged) /\ \A v \in merged : \E i \in 1..Len(s) : s[i] = v
        BY <1>3 DEF Lists
    <2>2. Len(s) \in Nat /\ \A i \in 1..Len(s) : s[i] \in merged
        BY <2>1
    <2>3. PICK i \in 1..Len(s) : s[i] = version
        BY <1>2, <2>1
    <2> QED BY <2>1, <2>2, <2>3
<1>5. Len(bodies) = Len(s) /\ \A i \in 1..Len(s) : bodies[i] = files[d][s[i]]
    BY <1>3, <1>4
<1>6. \A i \in 1..Len(s) : files[d][s[i]] \in Seq(1..clock)
    BY <1>1, <1>4 DEF TypeInv, Holds
<1> HIDE DEF bodies
<1>7. /\ FlattenSeq(bodies) \in Seq(1..clock)
      /\ \A m : m \in ToSet(FlattenSeq(bodies)) <=> \E i \in 1..Len(bodies) : m \in ToSet(bodies[i])
    <2>1. Len(bodies) \in Nat /\ Len(bodies) # 0 /\ \A i \in 1..Len(bodies) : bodies[i] \in Seq(1..clock)
        BY <1>4, <1>5, <1>6
    <2> QED BY <2>1, Flattened
<1>8. Dumped(d, version) = FlattenSeq(bodies)
    BY DEF Dumped, bodies, s, merged
<1>9. ASSUME NEW m
      PROVE  (\E i \in 1..Len(bodies) : m \in ToSet(bodies[i])) <=> (\E v \in merged : m \in ToSet(files[d][v]))
    BY <1>4, <1>5
<1> QED BY <1>7, <1>8, <1>9 DEF merged

-----------------------------------------------------------------------------
(* Every step keeps them so *)

\* What a merge of two checkouts puts in a file was in a file of one of them.
Both(d, e) == UNION {{[version |-> v, body |-> files[x][v]] : v \in DOMAIN files[x]} : x \in {d, e}}
Largest(both) ==
    {f \in both : \A g \in both :
        ToSet(f.body) \subseteq ToSet(g.body) /\ ToSet(f.body) # ToSet(g.body)
           => f.body = <<>> /\ f.version # g.version}
Pulled(merged) == [v \in {f.version : f \in merged} |-> (CHOOSE f \in merged : f.version = v).body]

\* What a pull does.
LEMMA PullIs ==
    ASSUME NEW d \in Devs, NEW e \in Devs, GitPull(d, e)
    PROVE  /\ d # e /\ cmd[d].at = "none" /\ UNCHANGED <<clock, rows, ran, cmd, team, torn>>
           /\ files' = [files EXCEPT ![d] = Pulled(Largest(Both(d, e)))]
           /\ \A f, g \in Largest(Both(d, e)) : f # g => f.version # g.version
BY DEF GitPull, Both, Largest, Pulled, Idle

\* What a pull leaves is a file of one of both.
LEMMA PulledFrom ==
    ASSUME NEW d, NEW e, NEW v \in DOMAIN Pulled(Largest(Both(d, e)))
    PROVE  \E x \in {d, e} : /\ v \in DOMAIN files[x] /\ Pulled(Largest(Both(d, e)))[v] = files[x][v]
                             /\ [version |-> v, body |-> files[x][v]] \in Largest(Both(d, e))
<1> DEFINE both == Both(d, e)
           merged == Largest(both)
<1>1. merged \subseteq both
    BY DEF Largest
<1> HIDE DEF merged
<1>2. PICK f \in merged : f.version = v
    BY DEF Pulled, merged
<1>3. PICK g : g = CHOOSE f2 \in merged : f2.version = v
    OBVIOUS
<1>4. g \in merged /\ g.version = v
    BY <1>2, <1>3
<1>5. Pulled(merged) = [u \in {f2.version : f2 \in merged} |-> (CHOOSE f2 \in merged : f2.version = u).body]
    BY DEF Pulled
<1>6. Pulled(merged)[v] = g.body
    BY <1>2, <1>3, <1>5
<1>7. PICK x \in {d, e} : \E u \in DOMAIN files[x] : g = [version |-> u, body |-> files[x][u]]
    BY <1>1, <1>4 DEF Both
<1>8. v \in DOMAIN files[x] /\ g = [version |-> v, body |-> files[x][v]]
    BY <1>4, <1>7
<1> QED BY <1>4, <1>6, <1>8 DEF merged

\* Pulling keeps the types.
LEMMA TypePull ==
    ASSUME Assumptions, TypeInv, NEW d \in Devs, NEW e \in Devs, GitPull(d, e)
    PROVE  TypeInv'
<1> DEFINE pulled == Pulled(Largest(Both(d, e)))
<1>1. Holds(pulled, clock)
    <2>1. \A x \in {d, e} : \A v \in DOMAIN files[x] : v \in 1..clock /\ files[x][v] \in Seq(1..clock)
        BY DEF TypeInv, Holds
    <2>2. \A v \in DOMAIN pulled : \E x \in {d, e} : v \in DOMAIN files[x] /\ pulled[v] = files[x][v]
        <3>1. SUFFICES ASSUME NEW v \in DOMAIN pulled
                       PROVE  \E x \in {d, e} : v \in DOMAIN files[x] /\ pulled[v] = files[x][v]
            OBVIOUS
        <3>2. v \in DOMAIN Pulled(Largest(Both(d, e)))
            OBVIOUS
        <3>3. \E x \in {d, e} : /\ v \in DOMAIN files[x] /\ Pulled(Largest(Both(d, e)))[v] = files[x][v]
                               /\ [version |-> v, body |-> files[x][v]] \in Largest(Both(d, e))
            BY <3>2, PulledFrom
        <3> QED BY <3>3
    <2> HIDE DEF pulled
    <2> QED BY <2>1, <2>2 DEF Holds
<1>2. /\ files' = [files EXCEPT ![d] = pulled] /\ UNCHANGED <<rows, ran, cmd, team, torn>> /\ clock' = clock
      /\ cmd[d].at = "none"
    BY PullIs
<1> HIDE DEF pulled
<1>3. clock \in Nat /\ clock <= team.writes /\ clock <= clock
    BY DEF TypeInv
<1> QED BY <1>1, <1>2, <1>3, TypeFiles

\* A new migration keeps the types.
LEMMA TypeNew ==
    ASSUME Assumptions, TypeInv, NEW d \in Devs, NewMigration(d)
    PROVE  TypeInv'
<1> DEFINE entry == Entry(clock', <<clock'>>)
           f == Over(files[d], entry)
<1>1. /\ files' = [files EXCEPT ![d] = f]
      /\ clock' = clock + 1 /\ clock < team.writes /\ UNCHANGED <<rows, ran, cmd, team, torn>>
      /\ cmd[d].at = "none"
    BY DEF NewMigration, Idle, TypeInv
<1>2. /\ clock \in Nat /\ team.writes \in Nat /\ clock' \in Nat /\ clock <= clock' /\ clock' <= team.writes
      /\ clock' \in 1..clock'
    BY <1>1, TeamsAre DEF TypeInv
<1>3. <<clock'>> \in Seq(1..clock')
    BY <1>2
<1>4. Holds(entry, clock')
    BY <1>2, <1>3, EntryHolds
<1>5. Holds(files[d], clock')
    <2>1. Holds(files[d], clock)
        BY DEF TypeInv
    <2> QED BY <1>2, <2>1, LaterHolds
<1> HIDE DEF entry
<1>6. Holds(f, clock')
    BY <1>2, <1>4, <1>5, OverHolds
<1> HIDE DEF f
<1> QED BY <1>1, <1>2, <1>6, TypeFiles

\* Running a migration keeps the types.
LEMMA TypeApply ==
    ASSUME Assumptions, TypeInv, NEW d \in Devs, ApplyNext(d)
    PROVE  TypeInv'
<1> DEFINE c == cmd[d]
           v == Head(c.queue)
<1>1. /\ c.at \in {"apply", "rebuild"} /\ c.queue # <<>> /\ v \in DOMAIN files[d]
      /\ rows' = Over(rows, Entry(v, files[d][v])) /\ ran' = ran \o files[d][v]
      /\ UNCHANGED <<files, clock, team, torn>>
      /\ \/ Goto(d, Running(c.at, Tail(c.queue), c.keep))
         \/ EndCommand(d)
    BY DEF ApplyNext, Commit
<1>2. /\ clock \in Nat /\ Holds(files[d], clock) /\ Holds(rows, clock) /\ ran \in Seq(1..clock)
      /\ c \in CommandOf(clock) /\ Fits(d, c, files[d])
    BY DEF TypeInv
<1>3. v \in 1..clock /\ files[d][v] \in Seq(1..clock)
    BY <1>1, <1>2 DEF Holds
<1>4. c.queue \in Seq(1..clock) /\ c.keep \in SUBSET (1..clock)
    BY <1>2 DEF CommandOf
<1>5. d \in team.members \cap team.pushers
    BY <1>1, <1>2 DEF Fits
<1> HIDE DEF v, c
<1>6. Holds(rows', clock)
    BY <1>1, <1>2, <1>3, EntryHolds, OverHolds
<1>7. ran' \in Seq(1..clock)
    BY <1>1, <1>2, <1>3
<1>8. CASE EndCommand(d)
    BY <1>1, <1>6, <1>7, <1>8, TypeEnds
<1>9. CASE Goto(d, Running(c.at, Tail(c.queue), c.keep))
    <2>1. Tail(c.queue) \in Seq(1..clock)
        BY <1>1, <1>4, PartsOfSeq
    <2> QED BY <1>1, <1>4, <1>5, <1>6, <1>7, <1>9, <2>1, TypeStarts
<1> QED BY SMTT(60), <1>1, <1>8, <1>9

\* The begin of a push keeps the types.
LEMMA TypePush ==
    ASSUME Assumptions, TypeInv, NEW d \in team.members, NEW includeAll \in BOOLEAN, Push(d, includeAll)
    PROVE  TypeInv'
<1>0. d \in Devs
    BY TeamsAre
<1>1. /\ d \in team.pushers /\ Pending(d, includeAll).error = "none"
      /\ Goto(d, Running("apply", Pending(d, includeAll).list, {})) /\ UNCHANGED <<files, clock, rows, ran, team, torn>>
    BY DEF Push, Free
<1>2. Pending(d, includeAll).list = InOrder(DOMAIN files[d] \ DOMAIN rows)
    <2>1. PICK pending : pending = Pending(d, includeAll)
        OBVIOUS
    <2>2. pending.error = "none"
        BY <1>1, <2>1
    <2>3. pending = Outcome("none", InOrder(DOMAIN files[d] \ DOMAIN rows))
        BY <1>0, <2>1, <2>2, PendingIs
    <2> QED BY <2>1, <2>3, OutcomeIs
<1>3. DOMAIN files[d] \ DOMAIN rows \subseteq 1..clock
    BY <1>0 DEF TypeInv, Holds
<1>4. InOrder(DOMAIN files[d] \ DOMAIN rows) \in Seq(1..clock)
    BY <1>3, VersionsInOrder
<1>5. Holds(rows', clock) /\ ran' \in Seq(1..clock)
    BY <1>1 DEF TypeInv
<1> QED BY <1>0, <1>1, <1>2, <1>4, <1>5, TypeStarts

\* The first elements of a sequence.
LEMMA FirstOfSeq ==
    ASSUME NEW S, NEW s \in Seq(S), NEW n \in 1..Len(s)
    PROVE  <<s[n]>> \in Seq(S) /\ SubSeq(s, 1, n) \in Seq(S)
OBVIOUS

\* The begin of a down keeps the types.
LEMMA TypeDown ==
    ASSUME Assumptions, TypeInv, NEW d \in team.members, NEW last \in Nat, Down(d, last)
    PROVE  TypeInv'
<1> DEFINE remote == InOrder(DOMAIN rows)
           total == Len(remote)
           keep == ToSet(SubSeq(remote, 1, total - last))
<1>0. d \in Devs
    BY TeamsAre
<1>1. /\ d \in team.pushers /\ last > 0 /\ last < total /\ UNCHANGED <<files, clock, rows, ran, team, torn>>
      /\ Goto(d, Running("reset", <<remote[total - last]>>, keep))
    BY DEF Down, Free
<1>2. DOMAIN rows \subseteq 1..clock
    BY DEF TypeInv, Holds
<1>3. remote \in Seq(1..clock)
    BY <1>2, VersionsInOrder
<1> HIDE DEF remote
<1>4. total - last \in 1..total /\ total \in Nat
    BY <1>1, <1>3
<1>5. <<remote[total - last]>> \in Seq(1..clock)
    BY <1>3, <1>4, FirstOfSeq
<1>6. keep \in SUBSET (1..clock)
    <2>1. SubSeq(remote, 1, total - last) \in Seq(1..clock)
        BY <1>3, <1>4, FirstOfSeq
    <2> QED BY <2>1 DEF ToSet
<1>7. Holds(rows', clock) /\ ran' \in Seq(1..clock)
    BY <1>1 DEF TypeInv
<1> HIDE DEF keep, total
<1> QED BY <1>0, <1>1, <1>5, <1>6, <1>7, TypeStarts

\* A reset keeps the types.
LEMMA TypeReset ==
    ASSUME Assumptions, TypeInv, NEW d \in Devs, Reset(d)
    PROVE  TypeInv'
<1> DEFINE set == {v \in DOMAIN files[d] : v <= cmd[d].queue[1]}
           queue == InOrder(set)
           keep == cmd[d].keep
<1>1. /\ cmd[d].at = "reset" /\ ran' = <<>> /\ rows' = <<>> /\ UNCHANGED <<files, clock, team, torn>>
      /\ Goto(d, Running("rebuild", queue, keep))
    BY DEF Reset
<1>2. set \subseteq 1..clock
    BY DEF TypeInv, Holds
<1>3. queue \in Seq(1..clock)
    BY <1>2, VersionsInOrder
<1>4. keep \in SUBSET (1..clock) /\ d \in team.members \cap team.pushers
    BY <1>1 DEF TypeInv, CommandOf, Fits
<1>5. Holds(rows', clock) /\ ran' \in Seq(1..clock)
    BY <1>1 DEF Holds
<1> HIDE DEF set, queue, keep
<1> QED BY <1>1, <1>3, <1>4, <1>5, TypeStarts

\* A repair changes nothing but rows.
LEMMA TypeRows ==
    ASSUME TypeInv, UNCHANGED <<files, clock, ran, cmd, team, torn>>, Holds(rows', clock)
    PROVE  TypeInv'
<1>1. /\ team \in Teams /\ clock \in Nat /\ clock <= team.writes
      /\ files = [d \in Devs |-> files[d]] /\ cmd = [d \in Devs |-> cmd[d]]
      /\ \A d \in Devs : /\ Holds(files[d], clock) /\ cmd[d] \in CommandOf(clock)
                         /\ Fits(d, cmd[d], files[d])
      /\ ran \in Seq(1..clock) /\ torn \subseteq 1..clock
    BY DEF TypeInv
<1>2. \A d \in Devs : Fits(d, cmd[d], files[d])'
    BY <1>1 DEF Fits
<1> QED BY <1>1, <1>2 DEF TypeInv

\* A repair keeps the types.
LEMMA TypeRepair ==
    ASSUME Assumptions, TypeInv, NEW d \in Devs, NEW versions, NEW all \in BOOLEAN,
           RepairApplied(d, versions, all) \/ (RepairReverted(d, versions, all) /\ versions \subseteq DOMAIN rows)
    PROVE  TypeInv'
<1>1. Holds(files[d], clock) /\ Holds(rows, clock) /\ clock \in Nat /\ Holds(<<>>, clock)
    BY DEF TypeInv, Holds
<1>2. CASE RepairApplied(d, versions, all)
    <2>1. /\ versions \subseteq DOMAIN files[d] /\ UNCHANGED <<files, clock, ran, cmd, team, torn>>
          /\ rows' = Over(Table(files[d], versions), IF all THEN <<>> ELSE rows)
        BY <1>2 DEF RepairApplied
    <2>2. Holds(Table(files[d], versions), clock)
        BY <1>1, <2>1, PartHolds
    <2>3. Holds(IF all THEN <<>> ELSE rows, clock)
        BY <1>1
    <2>4. Holds(rows', clock)
        BY <1>1, <2>1, <2>2, <2>3, OverHolds
    <2> QED BY <2>1, <2>4, TypeRows
<1>3. CASE RepairReverted(d, versions, all)
    <2>1. /\ UNCHANGED <<files, clock, ran, cmd, team, torn>>
          /\ rows' = IF all THEN <<>> ELSE Table(rows, DOMAIN rows \ versions)
        BY <1>3 DEF RepairReverted
    <2>2. Holds(Table(rows, DOMAIN rows \ versions), clock)
        BY <1>1, PartHolds
    <2>3. Holds(rows', clock)
        BY <1>1, <2>1, <2>2
    <2> QED BY <2>1, <2>3, TypeRows
<1> QED BY <1>2, <1>3

\* The first n parts of the dump are written to the last file, over what it
\* held, before the command goes on, or ends.
Dumps(d, version, given, n, c) ==
    /\ d \in team.pushers /\ "squash" \in team.commands /\ cmd[d].at = "none"
    /\ version \in DOMAIN files[d] /\ UNCHANGED <<clock, rows, ran, team>>
    /\ files' = [files EXCEPT ![d] = [files[d] EXCEPT ![version] = SubSeq(Dumped(d, version), 1, n)]]
    /\ torn' = torn \union (ToSet(files[d][version]) \ ToSet(SubSeq(Dumped(d, version), 1, n)))
    /\ Goto(d, c)
    /\ \/ c = NoCommand
       \/ /\ n = Len(Dumped(d, version))
          /\ c = Running("remove", Given(version, given), Merged(d, version) \ {version})

\* What a squash does that has something to merge.
LEMMA SquashIs ==
    ASSUME TypeInv, NEW d \in Devs, NEW version, NEW given, Squash(d, version, given)
    PROVE  \E n \in 0..Len(Dumped(d, version)) : \E c : Dumps(d, version, given, n, c)
<1> DEFINE body == Dumped(d, version)
<1>1. /\ d \in team.pushers /\ "squash" \in team.commands /\ cmd[d].at = "none"
      /\ version \in DOMAIN files[d] /\ UNCHANGED <<clock, rows, ran, team>>
    BY DEF Squash, Chosen, Free, Idle
<1>2. PICK n \in 0..Len(body) :
        /\ files' = [files EXCEPT ![d][version] = SubSeq(body, 1, n)]
        /\ torn' = torn \union (ToSet(files[d][version]) \ ToSet(SubSeq(body, 1, n)))
        /\ Goto(d, IF n = Len(body) THEN Running("remove", Given(version, given), Merged(d, version) \ {version})
                   ELSE NoCommand)
    BY DEF Squash
<1> HIDE DEF body
<1>3. files' = [files EXCEPT ![d] = [files[d] EXCEPT ![version] = SubSeq(body, 1, n)]]
    BY <1>2 DEF TypeInv
<1>4. PICK c : c = IF n = Len(body) THEN Running("remove", Given(version, given), Merged(d, version) \ {version})
                   ELSE NoCommand
    OBVIOUS
<1>5. c = NoCommand \/ (n = Len(body) /\ c = Running("remove", Given(version, given), Merged(d, version) \ {version}))
    BY <1>4
<1> QED BY <1>1, <1>2, <1>3, <1>4, <1>5 DEF body, Dumps

\* The version given to a squash is the queue of its command.
LEMMA GivenIs ==
    ASSUME NEW n, NEW version \in 1..n, NEW given
    PROVE  Given(version, given) \in Seq(1..n) /\ (Given(version, given) # <<>> => Given(version, given)[1] = version)
<1>1. <<version>> \in Seq(1..n) /\ <<version>>[1] = version /\ <<>> \in Seq(1..n)
    OBVIOUS
<1>2. Given(version, given) = <<version>> \/ Given(version, given) = <<>>
    BY DEF Given
<1> QED BY <1>1, <1>2

\* A squash of a single file keeps the types.
LEMMA TypeSquashNothing ==
    ASSUME Assumptions, TypeInv, NEW d \in team.members, NEW version \in DOMAIN files[d], NEW given,
           SquashNothing(d, version, given)
    PROVE  TypeInv'
<1> DEFINE c == Running("baseline", Given(version, given), {})
<1>0. d \in Devs
    BY TeamsAre
<1>1. d \in team.pushers /\ Goto(d, c) /\ UNCHANGED <<files, clock, rows, ran, team, torn>>
    BY DEF SquashNothing, Chosen, Free
<1>2. version \in 1..clock
    BY <1>0 DEF TypeInv, Holds
<1>3. Given(version, given) \in Seq(1..clock) /\ (Given(version, given) # <<>> => Given(version, given)[1] = version)
    BY <1>2, GivenIs
<1>4. c \in CommandOf(clock)
    BY <1>3 DEF CommandOf, Running
<1>5. Dump(version, c, files[d])
    BY <1>3 DEF Dump, Running
<1>6. Fits(d, c, files[d])
    BY <1>1, <1>5 DEF Fits
<1>7. Holds(rows', clock) /\ ran' \in Seq(1..clock)
    BY <1>1 DEF TypeInv
<1> HIDE DEF c
<1> QED BY <1>0, <1>1, <1>4, <1>6, <1>7, TypeCommand

\* The start of a sequence.
LEMMA StartOfSeq ==
    ASSUME NEW S, NEW s \in Seq(S), NEW n \in 0..Len(s)
    PROVE  SubSeq(s, 1, n) \in Seq(S) /\ (n = Len(s) => SubSeq(s, 1, n) = s)
OBVIOUS

\* The dump of a squash keeps the types, however much of it is written.
LEMMA TypeSquash ==
    ASSUME Assumptions, TypeInv, NEW d \in team.members, NEW version \in DOMAIN files[d], NEW given,
           Squash(d, version, given)
    PROVE  TypeInv'
<1> DEFINE body == Dumped(d, version)
           merged == Merged(d, version)
           queue == Given(version, given)
<1>0. d \in Devs
    BY TeamsAre
<1> PICK n \in 0..Len(body) : \E c : Dumps(d, version, given, n, c)
    BY <1>0, SquashIs
<1> PICK c : Dumps(d, version, given, n, c)
    OBVIOUS
<1>1. /\ d \in team.pushers /\ UNCHANGED <<clock, rows, ran, team>>
      /\ files' = [files EXCEPT ![d] = [files[d] EXCEPT ![version] = SubSeq(body, 1, n)]]
      /\ torn' = torn \union (ToSet(files[d][version]) \ ToSet(SubSeq(body, 1, n)))
      /\ Goto(d, c)
      /\ c = NoCommand \/ (n = Len(body) /\ c = Running("remove", queue, merged \ {version}))
    BY DEF Dumps
<1>2. /\ Holds(files[d], clock) /\ Holds(rows, clock) /\ ran \in Seq(1..clock) /\ clock \in Nat
      /\ clock <= team.writes /\ clock <= clock /\ torn \subseteq 1..clock
    BY <1>0 DEF TypeInv
<1>3. body \in Seq(1..clock) /\ \A m : m \in ToSet(body) <=> \E v \in merged : m \in ToSet(files[d][v])
    BY <1>0, DumpHolds
<1>4. version \in 1..clock /\ merged \subseteq DOMAIN files[d] /\ merged \subseteq 1..clock
    BY <1>2 DEF Holds, Merged
<1>5. queue \in Seq(1..clock) /\ (queue # <<>> => queue[1] = version)
    BY <1>4, GivenIs
<1> HIDE DEF body, merged, queue
<1>6. PICK text : text = SubSeq(body, 1, n)
    OBVIOUS
<1>7. text \in Seq(1..clock) /\ (n = Len(body) => text = body)
    BY <1>3, <1>6, StartOfSeq
<1>8. PICK f : f = [files[d] EXCEPT ![version] = text]
    OBVIOUS
<1>9. DOMAIN f = DOMAIN files[d] /\ f[version] = text /\ \A v \in DOMAIN files[d] \ {version} : f[v] = files[d][v]
    BY <1>8
<1>10. Holds(f, clock)
    BY <1>2, <1>7, <1>9 DEF Holds
<1>11. c \in CommandOf(clock) /\ Fits(d, c, f)
    <2>1. CASE c = NoCommand
        BY <2>1 DEF NoCommand, CommandOf, Fits
    <2>2. CASE n = Len(body) /\ c = Running("remove", queue, merged \ {version})
        <3>1. /\ c.at = "remove" /\ c.queue = queue /\ c.keep = merged \ {version}
              /\ c = [at |-> "remove", queue |-> queue, keep |-> merged \ {version}]
            BY <2>2 DEF Running
        <3>2. c \in CommandOf(clock)
            BY <1>4, <1>5, <3>1 DEF CommandOf
        <3>3. \A v \in merged \ {version} : ToSet(f[v]) \subseteq ToSet(f[version])
            BY <1>3, <1>4, <1>7, <1>9, <2>2
        <3>4. Dump(version, c, f)
            BY <1>4, <1>5, <1>9, <3>1, <3>3 DEF Dump
        <3> QED BY <1>1, <3>2, <3>4 DEF Fits
    <2> QED BY <1>1, <2>1, <2>2
<1>12. torn' \subseteq 1..clock
    <2>1. ToSet(files[d][version]) \subseteq 1..clock
        BY <1>2, SetOfSeq DEF Holds
    <2> QED BY <1>1, <1>2, <2>1
<1>13. files' = [files EXCEPT ![d] = f] /\ cmd' = [cmd EXCEPT ![d] = c] /\ clock' = clock /\ UNCHANGED <<rows, ran, team>>
    BY <1>1, <1>6, <1>8 DEF Goto
<1> QED BY <1>0, <1>2, <1>10, <1>11, <1>12, <1>13, TypeChanges

\* The removal of merged files, all or some, keeps the types.
LEMMA TypeRemove ==
    ASSUME Assumptions, TypeInv, NEW d \in Devs, RemoveMerged(d)
    PROVE  TypeInv'
<1> DEFINE c == Running("baseline", cmd[d].queue, {})
<1>1. PICK gone \in SUBSET cmd[d].keep : files' = [files EXCEPT ![d] = Table(@, DOMAIN @ \ gone)]
    BY DEF RemoveMerged
<1>2. cmd[d].at = "remove" /\ Goto(d, c) /\ UNCHANGED <<clock, rows, ran, team, torn>>
    BY DEF RemoveMerged
<1>3. PICK f : f = Table(files[d], DOMAIN files[d] \ gone)
    OBVIOUS
<1>4. /\ Holds(files[d], clock) /\ Holds(rows, clock) /\ ran \in Seq(1..clock) /\ clock \in Nat
      /\ clock <= team.writes /\ clock <= clock /\ torn \subseteq 1..clock
      /\ cmd[d] \in CommandOf(clock) /\ Fits(d, cmd[d], files[d])
    BY DEF TypeInv
<1>5. files' = [files EXCEPT ![d] = f] /\ cmd' = [cmd EXCEPT ![d] = c]
    BY <1>1, <1>2, <1>3 DEF TypeInv, Goto
<1>6. Holds(f, clock) /\ DOMAIN f = DOMAIN files[d] \ gone
    <2>1. Holds(f, clock)
        BY <1>3, <1>4, PartHolds
    <2> QED BY <1>3, <2>1 DEF Table
<1>7. c \in CommandOf(clock)
    BY <1>4 DEF CommandOf, Running
<1>8. Fits(d, c, f)
    <2>1. PICK version : Dump(version, cmd[d], files[d])
        BY <1>2, <1>4 DEF Fits
    <2>2. version \in DOMAIN f /\ (c.queue # <<>> => c.queue[1] = version) /\ c.keep = {} /\ c.at = "baseline"
        BY <1>6, <2>1 DEF Dump, Running
    <2>3. Dump(version, c, f)
        BY <2>2 DEF Dump
    <2>4. d \in team.members \cap team.pushers
        BY <1>2, <1>4 DEF Fits
    <2> QED BY <2>3, <2>4 DEF Fits
<1> HIDE DEF c
<1> QED BY <1>2, <1>4, <1>5, <1>6, <1>7, <1>8, TypeChanges

\* The first of the files there are.
LEMMA FirstInOrder ==
    ASSUME Assumptions, TypeInv, NEW d \in Devs, DOMAIN files[d] # {}
    PROVE  InOrder(DOMAIN files[d])[1] \in DOMAIN files[d]
<1> DEFINE set == DOMAIN files[d]
           s == InOrder(set)
<1>1. set \subseteq 1..clock
    BY DEF TypeInv, Holds
<1>2. Lists(s, set, Older)
    BY <1>1, VersionsInOrder
<1> HIDE DEF s, set
<1>3. s \in Seq(set) /\ \E i \in 1..Len(s) : TRUE
    BY <1>2 DEF Lists, set
<1>4. 1 \in 1..Len(s) /\ s[1] \in set
    BY <1>3
<1> QED BY <1>4 DEF s, set

\* The row of a squash keeps the types.
LEMMA TypeBaseline ==
    ASSUME Assumptions, TypeInv, NEW d \in Devs, Baseline(d)
    PROVE  TypeInv'
<1> DEFINE version == IF cmd[d].queue = <<>> THEN InOrder(DOMAIN files[d])[1] ELSE cmd[d].queue[1]
           entry == Entry(version, files[d][version])
           rest == Table(rows, {v \in DOMAIN rows : v > version})
<1>1. /\ cmd[d].at = "baseline" /\ rows' = Over(entry, rest) /\ UNCHANGED <<files, clock, ran, team, torn>>
      /\ EndCommand(d)
    BY DEF Baseline
<1>2. /\ Holds(files[d], clock) /\ Holds(rows, clock) /\ clock \in Nat /\ ran \in Seq(1..clock)
      /\ version \in DOMAIN files[d]
    <2>1. PICK v : Dump(v, cmd[d], files[d])
        BY <1>1 DEF TypeInv, Fits
    <2>2. v \in DOMAIN files[d] /\ (cmd[d].queue # <<>> => cmd[d].queue[1] = v)
        BY <2>1 DEF Dump
    <2>3. InOrder(DOMAIN files[d])[1] \in DOMAIN files[d]
        BY <2>2, FirstInOrder
    <2> QED BY <2>2, <2>3 DEF TypeInv
<1>3. version \in 1..clock /\ files[d][version] \in Seq(1..clock)
    BY <1>2 DEF Holds
<1> HIDE DEF version
<1>4. Holds(entry, clock) /\ Holds(rest, clock)
    BY <1>2, <1>3, EntryHolds, PartHolds
<1>5. Holds(rows', clock)
    BY <1>1, <1>2, <1>4, OverHolds
<1> QED BY <1>1, <1>2, <1>5, TypeEnds

\* Every action keeps the types.
LEMMA TypeNext ==
    ASSUME Assumptions, TypeInv, Next
    PROVE  TypeInv'
<1>1. PICK d \in team.members :
        \/ NewMigration(d)
        \/ \E e \in team.members : GitPull(d, e)
        \/ Fetch(d)
        \/ \E includeAll \in BOOLEAN : Push(d, includeAll)
        \/ ApplyNext(d)
        \/ Finish(d)
        \/ Stop(d)
        \/ \E last \in 1..Cardinality(DOMAIN rows) : Down(d, last)
        \/ Reset(d)
        \/ \E versions \in SUBSET DOMAIN files[d], all \in BOOLEAN : RepairApplied(d, versions, all)
        \/ \E versions \in SUBSET DOMAIN rows, all \in BOOLEAN : RepairReverted(d, versions, all)
        \/ \E version \in DOMAIN files[d], given \in BOOLEAN :
              SquashNothing(d, version, given) \/ Squash(d, version, given)
        \/ RemoveMerged(d)
        \/ Baseline(d)
    BY DEF Next
<1>2. team.members \subseteq Devs /\ d \in Devs
    BY TeamsAre
<1>3. CASE NewMigration(d)
    BY <1>2, <1>3, TypeNew
<1>4. CASE \E e \in team.members : GitPull(d, e)
    BY <1>2, <1>4, TypePull
<1>5. CASE Fetch(d)
    <2>1. /\ files' = [files EXCEPT ![d] = Over(rows, files[d])] /\ clock' = clock
          /\ UNCHANGED <<rows, ran, cmd, team, torn>> /\ cmd[d].at = "none"
        BY <1>2, <1>5 DEF Fetch, Free, Idle, TypeInv
    <2>2. Holds(rows, clock) /\ Holds(files[d], clock) /\ clock \in Nat /\ clock <= team.writes /\ clock <= clock
        BY <1>2 DEF TypeInv
    <2>3. Holds(Over(rows, files[d]), clock)
        BY <2>2, OverHolds
    <2> QED BY <1>2, <2>1, <2>2, <2>3, TypeFiles
<1>6. CASE \E includeAll \in BOOLEAN : Push(d, includeAll)
    BY <1>6, TypePush
<1>7. CASE ApplyNext(d)
    BY <1>2, <1>7, TypeApply
<1>8. CASE Finish(d) \/ Stop(d)
    <2>1. EndCommand(d) /\ UNCHANGED <<files, clock, rows, ran, team, torn>>
        BY <1>8 DEF Finish, Stop
    <2>2. Holds(rows', clock) /\ ran' \in Seq(1..clock)
        BY <2>1 DEF TypeInv
    <2> QED BY <1>2, <2>1, <2>2, TypeEnds
<1>9. CASE \E last \in 1..Cardinality(DOMAIN rows) : Down(d, last)
    <2>1. IsFiniteSet(DOMAIN rows)
        <3>1. DOMAIN rows \subseteq 1..clock
            BY DEF TypeInv, Holds
        <3> QED BY <3>1, VersionsInOrder
    <2>2. 1..Cardinality(DOMAIN rows) \subseteq Nat
        BY <2>1, FS_CardinalityType
    <2> QED BY <1>9, <2>2, TypeDown
<1>10. CASE Reset(d)
    BY <1>2, <1>10, TypeReset
<1>11. CASE \E versions \in SUBSET DOMAIN files[d], all \in BOOLEAN : RepairApplied(d, versions, all)
    BY <1>2, <1>11, TypeRepair
<1>12. CASE \E versions \in SUBSET DOMAIN rows, all \in BOOLEAN : RepairReverted(d, versions, all)
    BY <1>2, <1>12, TypeRepair
<1>13. CASE \E version \in DOMAIN files[d], given \in BOOLEAN :
               SquashNothing(d, version, given) \/ Squash(d, version, given)
    BY <1>13, TypeSquashNothing, TypeSquash
<1>14. CASE RemoveMerged(d)
    BY <1>2, <1>14, TypeRemove
<1>15. CASE Baseline(d)
    BY <1>2, <1>15, TypeBaseline
<1> QED BY <1>1, <1>3, <1>4, <1>5, <1>6, <1>7, <1>8, <1>9, <1>10, <1>11, <1>12, <1>13, <1>14, <1>15

\* The types hold at first.
LEMMA TypeInit == ASSUME Assumptions, Init PROVE TypeInv
<1>1. clock = 0 /\ rows = <<>> /\ ran = <<>> /\ torn = {} /\ team \in Teams /\ team \in Team /\ MaxVersion \in Nat
    BY DEF Init, Assumptions
<1>2. team.writes \in 0..MaxVersion
    BY <1>1 DEF Team
<1>3. clock \in Nat /\ clock <= team.writes
    BY <1>1, <1>2
<1>4. Holds(<<>>, clock) /\ ran \in Seq(1..clock) /\ torn \subseteq 1..clock
    BY <1>1 DEF Holds
<1>5. NoCommand \in CommandOf(clock) /\ \A d : Fits(d, NoCommand, <<>>)
    BY DEF NoCommand, CommandOf, Fits
<1>6. files = [d \in Devs |-> <<>>] /\ cmd = [d \in Devs |-> NoCommand]
    BY DEF Init
<1>7. files = [d \in Devs |-> files[d]] /\ cmd = [d \in Devs |-> cmd[d]]
      /\ \A d \in Devs : files[d] = <<>> /\ cmd[d] = NoCommand
    BY <1>6
<1> QED BY <1>1, <1>3, <1>4, <1>5, <1>7 DEF TypeInv

\* They are those of the run.
LEMMA TypeInvSays == ASSUME Assumptions, TypeInv PROVE TypeOK
<1>1. clock \in Nat /\ MaxVersion \in Nat /\ clock <= MaxVersion
    BY TeamsAre DEF TypeInv, Assumptions
<1>2. clock \in 0..MaxVersion /\ Versions = 1..MaxVersion
    BY <1>1 DEF Versions
<1>3. /\ \A f : Holds(f, clock) => Holds(f, MaxVersion)
      /\ \A s : s \in Seq(1..clock) => s \in Seq(1..MaxVersion)
      /\ \A c : c \in CommandOf(clock) => c \in CommandOf(MaxVersion)
    BY <1>1, LaterHolds
<1>4. \A f : Holds(f, clock) => DOMAIN f \subseteq Versions /\ \A v \in DOMAIN f : f[v] \in Seq(Versions)
    BY <1>2, <1>3 DEF Holds
<1>5. \A d \in Devs : cmd[d] \in CommandOf(MaxVersion) /\ Holds(files[d], clock)
    BY <1>3 DEF TypeInv
<1>6. cmd \in [Devs -> CommandOf(MaxVersion)]
    BY <1>5 DEF TypeInv
<1>7. ran \in Seq(Versions) /\ Holds(rows, clock) /\ torn \subseteq Versions
    BY <1>1, <1>2, <1>3 DEF TypeInv
<1>8. CommandOf(MaxVersion) = [at : {"none", "apply", "reset", "rebuild", "remove", "baseline"},
                               queue : Seq(Versions), keep : SUBSET Versions]
    BY <1>2 DEF CommandOf
<1> QED BY <1>2, <1>4, <1>5, <1>6, <1>7, <1>8 DEF TypeOK

\* Every step keeps the types.
LEMMA TypeStep == ASSUME Assumptions, TypeInv, [Next]_vars PROVE TypeInv'
<1>1. CASE UNCHANGED vars
    BY <1>1 DEF vars, TypeInv, Holds, CommandOf, Fits, Dump
<1> QED BY <1>1, TypeNext


-----------------------------------------------------------------------------
(* What an up-to-date checkout, and a repair, mean *)

\* A push that finds nothing pending, and no error, has found a row for each file.
LEMMA UpToDate == ASSUME Assumptions, IInv, TypeInv PROVE UpToDateMeansRun
<1> SUFFICES ASSUME Plain, NEW d \in Devs, Pending(d, FALSE) = Outcome("none", <<>>), NEW v \in DOMAIN files[d]
             PROVE  ToSet(files[d][v]) \subseteq ToSet(ran)
    BY DEF UpToDateMeansRun, Plain
<1> DEFINE F == DOMAIN files[d]
           R == DOMAIN rows
<1>1. Pending(d, FALSE).error = "none"
    BY OutcomeIs
<1>2. R \subseteq F /\ Outcome("none", <<>>) = Outcome("none", InOrder(F \ R))
    BY <1>1, PendingIs
<1>3. InOrder(F \ R) = <<>>
    BY <1>2, OutcomeIs
<1>4. F \ R \subseteq 1..clock
    BY DEF TypeInv, Holds
<1>5. Lists(InOrder(F \ R), F \ R, Older)
    BY <1>4, VersionsInOrder
<1>6. F \ R = {}
    <2> HIDE DEF F, R
    <2> QED BY <1>3, <1>5, NothingListed
<1>7. v \in DOMAIN rows /\ files[d][v] = <<v>> /\ ToSet(ran) = DOMAIN rows
    BY <1>6 DEF IInv, Own, Told
<1>8. ToSet(<<v>>) = {v}
    BY DEF ToSet
<1> QED BY <1>7, <1>8

\* A checkout with a file for each row is never told that one is missing.
LEMMA NoneMissing ==
    ASSUME Assumptions, NEW F, F \subseteq Versions, NEW R, R \subseteq F
    PROVE  GetPendingMigrations(InOrder(F), InOrder(R), FALSE, Older).error # "missing local"
<1> DEFINE local == InOrder(F)
           remote == InOrder(R)
           found == FindPendingMigrations(local, remote, Older)
<1>1. F \union R = F /\ R \subseteq Versions /\ R \ F = {}
    OBVIOUS
<1>2. IsFiniteSet(F) /\ IsFiniteSet(R) /\ Orders(Older, F \union R)
    BY <1>1, TimeOrders
<1>3. local = Sorted(F, Older) /\ remote = Sorted(R, Older)
    BY DEF InOrder
<1> HIDE DEF local, remote
<1>4. found = PendingOf(F, R, Older)
    BY <1>2, <1>3, PendingFound
<1>5. GetPendingMigrations(local, remote, FALSE, Older) = found
    BY DEF GetPendingMigrations
<1>6. PendingOf(F, R, Older).error # "missing local"
    <2>1. CASE Late(F, R, Older) # {}
        <3>1. PendingOf(F, R, Older).error = "missing remote"
            BY <1>1, <2>1, OutcomeIs DEF PendingOf
        <3> QED BY <3>1
    <2>2. CASE Late(F, R, Older) = {}
        <3>1. PendingOf(F, R, Older).error = "none"
            BY <1>1, <2>2, OutcomeIs DEF PendingOf
        <3> QED BY <3>1
    <2> QED BY <2>1, <2>2
<1> QED BY <1>4, <1>5, <1>6 DEF local, remote

\* A repair of everything, and a fetch, leave a row for each file.
LEMMA Agree == ASSUME Assumptions, TypeInv, TypeInv' PROVE RepairsAgreeStep
<1> SUFFICES ASSUME NEW d \in Devs, Fetch(d) \/ RepairApplied(d, DOMAIN files[d], TRUE)
             PROVE  Pending(d, FALSE)'.error # "missing local"
    BY DEF RepairsAgreeStep
<1>1. DOMAIN files'[d] \subseteq Versions
    <2>1. Holds(files[d], clock)'
        BY DEF TypeInv
    <2>2. clock' \in Nat /\ clock' <= MaxVersion /\ MaxVersion \in Nat
        <3>1. team' \in Team /\ MaxVersion \in Nat /\ clock' \in Nat /\ clock' <= team'.writes
            BY DEF Assumptions, TypeInv
        <3>2. team'.writes \in 0..MaxVersion
            BY <3>1 DEF Team
        <3> QED BY <3>1, <3>2
    <2>3. 1..clock' \subseteq 1..MaxVersion
        BY <2>2
    <2> QED BY <2>1, <2>3 DEF Holds, Versions
<1>2. DOMAIN rows' \subseteq DOMAIN files'[d]
    <2>1. CASE Fetch(d)
        <3>1. files' = [files EXCEPT ![d] = Over(rows, files[d])] /\ rows' = rows
            BY <2>1 DEF Fetch, TypeInv
        <3>2. files'[d] = Over(rows, files[d])
            BY <3>1 DEF TypeInv
        <3> QED BY <3>1, <3>2 DEF Over
    <2>2. CASE RepairApplied(d, DOMAIN files[d], TRUE)
        <3>1. rows' = Over(Table(files[d], DOMAIN files[d]), <<>>) /\ files' = files
            BY <2>2 DEF RepairApplied
        <3> QED BY <3>1 DEF Over, Table
    <2> QED BY <2>1, <2>2
<1>3. Pending(d, FALSE)' = GetPendingMigrations(InOrder(DOMAIN files'[d]), InOrder(DOMAIN rows'), FALSE, Older)
    BY DEF Pending
<1> QED BY <1>1, <1>2, <1>3, NoneMissing

-----------------------------------------------------------------------------
(* What is written down *)

Bodies(f) == UNION {ToSet(f[v]) : v \in DOMAIN f}

Written ==
    "fetch" \notin team.commands =>
       \A m \in ToSet(ran) \ torn : \E d \in Devs : m \in Bodies(files[d])

\* What is in the bodies of some files.
LEMMA InBodies == \A f, m : m \in Bodies(f) <=> \E v \in DOMAIN f : m \in ToSet(f[v])
BY DEF Bodies

\* It says that what ran is written down.
LEMMA WrittenSays == ASSUME Written PROVE RanIsWritten
BY InBodies DEF Written, RanIsWritten

\* A step that changes the files of one checkout; what they held is in them, or torn.
LEMMA WrittenFiles ==
    ASSUME TypeInv, Written, NEW d \in Devs, NEW f, UNCHANGED <<ran, team>>, torn \subseteq torn',
           files' = [files EXCEPT ![d] = f],
           \A m \in Bodies(files[d]) : m \in Bodies(f) \/ m \in torn'
    PROVE  Written'
<1>1. \A e \in Devs : files'[e] = IF e = d THEN f ELSE files[e]
    BY DEF TypeInv
<1> SUFFICES ASSUME "fetch" \notin team.commands, NEW m \in ToSet(ran) \ torn'
             PROVE  \E e \in Devs : m \in Bodies(files'[e])
    BY DEF Written
<1>2. PICK e \in Devs : m \in Bodies(files[e])
    BY DEF Written
<1>3. m \in Bodies(files'[e])
    BY <1>1, <1>2
<1> QED BY <1>3

\* A step that leaves all files alone, and runs what is in one of them.
LEMMA WrittenRuns ==
    ASSUME Written, UNCHANGED <<files, team, torn>>,
           \A m \in ToSet(ran') : m \in ToSet(ran) \/ \E d \in Devs : m \in Bodies(files[d])
    PROVE  Written'
BY DEF Written

\* Of some sets of numbers up to n, one is part of no other.
LEMMA LargestSet ==
    ASSUME NEW n \in Nat, NEW family, family # {}, \A set \in family : set \subseteq 1..n
    PROVE  \E set \in family : \A other \in family : set \subseteq other => set = other
<1> DEFINE Lacks(set) == n - Cardinality(set)
           T == {Lacks(set) : set \in family}
<1>1. IsFiniteSet(1..n) /\ Cardinality(1..n) = n
    BY SMTT(60), FS_Interval
<1>2. \A set \in family : IsFiniteSet(set) /\ Cardinality(set) \in Nat /\ Cardinality(set) <= n
    BY <1>1, FS_Subset, FS_CardinalityType
<1>3. T \in SUBSET Nat /\ T # {}
    BY <1>2
<1>4. PICK k \in T : \A j \in T : k <= j
    <2> HIDE DEF T
    <2> QED BY <1>3, LeastOne
<1>5. PICK set \in family : k = Lacks(set)
    BY <1>4
<1>6. ASSUME NEW other \in family, set \subseteq other PROVE set = other
    <2>1. Cardinality(set) <= Cardinality(other) /\ (Cardinality(other) = Cardinality(set) => set = other)
        BY <1>2, <1>6, FS_Subset
    <2>2. Lacks(set) <= Lacks(other)
        BY <1>4, <1>5
    <2> QED BY <1>2, <2>1, <2>2
<1> QED BY <1>6

\* A pull writes down again what it takes away.
LEMMA WrittenPull ==
    ASSUME Assumptions, TypeInv, Written, NEW d \in Devs, NEW e \in Devs, GitPull(d, e)
    PROVE  Written'
<1> DEFINE both == Both(d, e)
           merged == Largest(both)
           pulled == Pulled(merged)
<1>1. /\ files' = [files EXCEPT ![d] = pulled] /\ UNCHANGED <<ran, team, torn>>
      /\ \A f, g \in merged : f # g => f.version # g.version
    BY PullIs
<1>2. ASSUME NEW v \in DOMAIN pulled PROVE [version |-> v, body |-> pulled[v]] \in merged
    <2>1. PICK x \in {d, e} : /\ v \in DOMAIN files[x] /\ pulled[v] = files[x][v]
                              /\ [version |-> v, body |-> files[x][v]] \in merged
        BY PulledFrom
    <2> QED BY <2>1
<1>3. \A v \in DOMAIN files[d] : [version |-> v, body |-> files[d][v]] \in both
    BY DEF Both
<1>4. \A g \in both : ToSet(g.body) \subseteq 1..clock
    <2>1. ASSUME NEW x \in {d, e}, NEW v \in DOMAIN files[x] PROVE ToSet(files[x][v]) \subseteq 1..clock
        <3>1. files[x][v] \in Seq(1..clock)
            BY DEF TypeInv, Holds
        <3> QED BY <3>1, SetOfSeq
    <2> QED BY <2>1 DEF Both
<1>5. \A f \in both : f \notin merged =>
         \E g \in both : ToSet(f.body) \subseteq ToSet(g.body) /\ ToSet(f.body) # ToSet(g.body)
    BY DEF Largest
<1>6. DOMAIN pulled = {f.version : f \in merged} /\ merged \subseteq both
    BY DEF Pulled, Largest
<1> HIDE DEF both, merged, pulled
<1>7. ASSUME NEW m \in Bodies(files[d]) PROVE m \in Bodies(pulled)
    <2>1. PICK v \in DOMAIN files[d] : m \in ToSet(files[d][v])
        BY InBodies
    <2>2. PICK f \in both : f = [version |-> v, body |-> files[d][v]]
        BY <1>3
    <2> DEFINE family == {ToSet(g.body) : g \in {h \in both : m \in ToSet(h.body)}}
    <2>3. family # {} /\ \A set \in family : set \subseteq 1..clock
        BY <1>4, <2>1, <2>2
    <2>4. PICK set \in family : \A other \in family : set \subseteq other => set = other
        <3> HIDE DEF family
        <3> QED BY <2>3, LargestSet DEF TypeInv
    <2>5. PICK g \in both : set = ToSet(g.body) /\ m \in ToSet(g.body)
        OBVIOUS
    <2>6. g \in merged
        <3>1. \A h \in both : ToSet(g.body) \subseteq ToSet(h.body) => ToSet(g.body) = ToSet(h.body)
            BY <2>4, <2>5
        <3> QED BY <1>5, <3>1
    <2>7. g.version \in DOMAIN pulled
        BY <1>6, <2>6
    <2>8. PICK h \in merged : h = [version |-> g.version, body |-> pulled[g.version]]
        BY <1>2, <2>7
    <2>9. h.version = g.version /\ h.body = pulled[g.version]
        BY <2>8
    <2>10. h = g
        BY <1>1, <2>6, <2>9
    <2> QED BY <2>5, <2>7, <2>9, <2>10, InBodies
<1> QED BY <1>1, <1>7, WrittenFiles

\* A new migration only adds.
LEMMA WrittenNew ==
    ASSUME TypeInv, Written, NEW d \in Devs, NewMigration(d)
    PROVE  Written'
<1> DEFINE f == Over(files[d], Entry(clock', <<clock'>>))
<1>1. files' = [files EXCEPT ![d] = f] /\ UNCHANGED <<ran, team, torn>>
    BY DEF NewMigration, TypeInv
<1>2. DOMAIN files[d] \subseteq DOMAIN f /\ \A v \in DOMAIN files[d] : f[v] = files[d][v]
    BY DEF Over
<1> HIDE DEF f
<1>3. \A m \in Bodies(files[d]) : m \in Bodies(f)
    BY <1>2, InBodies
<1> QED BY <1>1, <1>3, WrittenFiles

\* What a squash cuts from its file, and does not dump, is torn.
LEMMA WrittenSquash ==
    ASSUME TypeInv, Written, NEW d \in Devs, NEW version, NEW given, Squash(d, version, given)
    PROVE  Written'
<1> PICK n \in 0..Len(Dumped(d, version)) : \E c : Dumps(d, version, given, n, c)
    BY SquashIs
<1>1. /\ version \in DOMAIN files[d] /\ UNCHANGED <<ran, team>>
      /\ files' = [files EXCEPT ![d] = [files[d] EXCEPT ![version] = SubSeq(Dumped(d, version), 1, n)]]
      /\ torn' = torn \union (ToSet(files[d][version]) \ ToSet(SubSeq(Dumped(d, version), 1, n)))
    BY DEF Dumps
<1>2. PICK text : text = SubSeq(Dumped(d, version), 1, n)
    OBVIOUS
<1>3. PICK f : f = [files[d] EXCEPT ![version] = text]
    OBVIOUS
<1>4. DOMAIN f = DOMAIN files[d] /\ f[version] = text /\ \A v \in DOMAIN files[d] \ {version} : f[v] = files[d][v]
    BY <1>1, <1>3
<1>5. torn' = torn \union (ToSet(files[d][version]) \ ToSet(text))
    BY <1>1, <1>2
<1>6. ASSUME NEW m \in Bodies(files[d]) PROVE m \in Bodies(f) \/ m \in torn'
    <2>1. PICK v \in DOMAIN files[d] : m \in ToSet(files[d][v])
        BY InBodies
    <2>2. CASE v # version
        <3>1. v \in DOMAIN f /\ m \in ToSet(f[v])
            BY <1>4, <2>1, <2>2
        <3> QED BY <3>1, InBodies
    <2>3. CASE v = version
        <3>1. m \in ToSet(text) \/ m \in torn'
            BY <1>5, <2>1, <2>3
        <3> QED BY <1>1, <1>4, <3>1, InBodies
    <2> QED BY <2>2, <2>3
<1>7. files' = [files EXCEPT ![d] = f] /\ torn \subseteq torn'
    BY <1>1, <1>2, <1>3
<1> QED BY <1>1, <1>6, <1>7, WrittenFiles

\* The merged files that are removed have been dumped.
LEMMA WrittenRemove ==
    ASSUME TypeInv, Written, NEW d \in Devs, RemoveMerged(d)
    PROVE  Written'
<1>1. PICK gone \in SUBSET cmd[d].keep : files' = [files EXCEPT ![d] = Table(@, DOMAIN @ \ gone)]
    BY DEF RemoveMerged
<1>2. cmd[d].at = "remove" /\ UNCHANGED <<ran, team, torn>>
    BY DEF RemoveMerged
<1>3. PICK version : Dump(version, cmd[d], files[d])
    BY <1>2 DEF TypeInv, Fits
<1>4. PICK f : f = Table(files[d], DOMAIN files[d] \ gone)
    OBVIOUS
<1>5. files' = [files EXCEPT ![d] = f]
    BY <1>1, <1>4 DEF TypeInv
<1>6. DOMAIN f = DOMAIN files[d] \ gone /\ \A v \in DOMAIN files[d] \ gone : f[v] = files[d][v]
    BY <1>4 DEF Table
<1>7. /\ version \in DOMAIN files[d] \ gone
      /\ \A v \in gone : ToSet(files[d][v]) \subseteq ToSet(files[d][version])
    BY <1>3 DEF Dump
<1>8. ASSUME NEW m \in Bodies(files[d]) PROVE m \in Bodies(f)
    <2>1. PICK v \in DOMAIN files[d] : m \in ToSet(files[d][v])
        BY InBodies
    <2>2. CASE v \notin gone
        BY <1>6, <2>1, <2>2, InBodies
    <2>3. CASE v \in gone
        <3>1. version \in DOMAIN f /\ m \in ToSet(f[version])
            BY <1>6, <1>7, <2>1, <2>3
        <3> QED BY <3>1, InBodies
    <2> QED BY <2>2, <2>3
<1> QED BY <1>2, <1>5, <1>8, WrittenFiles

\* What a push runs is in its file.
LEMMA WrittenApply ==
    ASSUME TypeInv, Written, NEW d \in Devs, ApplyNext(d)
    PROVE  Written'
<1> DEFINE v == Head(cmd[d].queue)
<1>1. v \in DOMAIN files[d] /\ ran' = ran \o files[d][v] /\ UNCHANGED <<files, team, torn>>
    BY DEF ApplyNext, Commit
<1> HIDE DEF v
<1>2. ran \in Seq(1..clock) /\ files[d][v] \in Seq(1..clock)
    BY <1>1 DEF TypeInv, Holds
<1>3. ToSet(ran') = ToSet(ran) \union ToSet(files[d][v])
    BY <1>1, <1>2, ToSetJoined
<1> QED BY SMTT(60), <1>1, <1>3, InBodies, WrittenRuns

\* Every step keeps it.
LEMMA WrittenStep ==
    ASSUME Assumptions, TypeInv, Written, [Next]_vars
    PROVE  Written'
<1>1. CASE UNCHANGED vars
    BY <1>1 DEF vars, Written
<1>2. ASSUME NEW d \in team.members,
        \/ NewMigration(d)
        \/ \E e \in team.members : GitPull(d, e)
        \/ Fetch(d)
        \/ \E includeAll \in BOOLEAN : Push(d, includeAll)
        \/ ApplyNext(d)
        \/ Finish(d)
        \/ Stop(d)
        \/ \E last \in 1..Cardinality(DOMAIN rows) : Down(d, last)
        \/ Reset(d)
        \/ \E versions \in SUBSET DOMAIN files[d], all \in BOOLEAN : RepairApplied(d, versions, all)
        \/ \E versions \in SUBSET DOMAIN rows, all \in BOOLEAN : RepairReverted(d, versions, all)
        \/ \E version \in DOMAIN files[d], given \in BOOLEAN :
              SquashNothing(d, version, given) \/ Squash(d, version, given)
        \/ RemoveMerged(d)
        \/ Baseline(d)
      PROVE Written'
    <2>1. team.members \subseteq Devs /\ d \in Devs
        BY TeamsAre
    <2>2. CASE NewMigration(d)
        BY <2>1, <2>2, WrittenNew
    <2>3. CASE \E e \in team.members : GitPull(d, e)
        BY <2>1, <2>3, WrittenPull
    <2>4. CASE Fetch(d)
        <3>1. "fetch" \in team.commands /\ team' = team
            BY <2>4 DEF Fetch, Free
        <3> QED BY <3>1 DEF Written
    <2>5. CASE ApplyNext(d)
        BY <2>1, <2>5, WrittenApply
    <2>6. CASE Reset(d)
        <3>1. ran' = <<>> /\ UNCHANGED <<files, team, torn>>
            BY <2>6 DEF Reset
        <3>2. ToSet(ran') = {}
            BY <3>1 DEF ToSet
        <3> QED BY <3>1, <3>2, WrittenRuns
    <2>7. CASE \/ \E version \in DOMAIN files[d], given \in BOOLEAN : Squash(d, version, given)
               \/ RemoveMerged(d)
        BY <2>1, <2>7, WrittenSquash, WrittenRemove
    <2>8. CASE \/ \E includeAll \in BOOLEAN : Push(d, includeAll)
               \/ Finish(d) \/ Stop(d) \/ Baseline(d)
               \/ \E version \in DOMAIN files[d], given \in BOOLEAN : SquashNothing(d, version, given)
               \/ \E last \in 1..Cardinality(DOMAIN rows) : Down(d, last)
               \/ \E versions \in SUBSET DOMAIN files[d], all \in BOOLEAN : RepairApplied(d, versions, all)
               \/ \E versions \in SUBSET DOMAIN rows, all \in BOOLEAN : RepairReverted(d, versions, all)
        <3>1. UNCHANGED <<files, team, ran, torn>>
            BY <2>8 DEF Push, Finish, Stop, Baseline, SquashNothing, Down, RepairApplied, RepairReverted
        <3> QED BY <3>1 DEF Written
    <2> QED BY <1>2, <2>2, <2>3, <2>4, <2>5, <2>6, <2>7, <2>8
<1> QED BY <1>1, <1>2 DEF Next

\* Nothing ran at first.
LEMMA WrittenInit == ASSUME Init PROVE Written
BY DEF Init, Written, ToSet

-----------------------------------------------------------------------------
(* Migrations run in the order they were written *)

Increasing(s) == \A i, j \in DOMAIN s : i < j => s[i] < s[j]
AllBelow(s, t) == \A i \in DOMAIN s, j \in DOMAIN t : s[i] < t[j]

OnePusherOnly == Cardinality(team.pushers) = 1 /\ team.commands \subseteq {"push", "down"}

\* What a command still has to run.
InTurn(c, s) == c.at \in {"apply", "rebuild"} => Increasing(c.queue) /\ AllBelow(s, c.queue)

Ordered == OnePusherOnly => Increasing(ran) /\ \A d \in Devs : InTurn(cmd[d], ran)

\* A list of versions from the oldest to the newest increases.
LEMMA ListedIncreases ==
    ASSUME Assumptions, NEW set, set \subseteq Versions, NEW s, Lists(s, set, Older)
    PROVE  Increasing(s)
<1>1. Orders(Older, set) /\ \A u, v \in set : <<u, v>> \in Older <=> u < v
    BY TimeOrders
<1>2. s \in Seq(set) /\ DOMAIN s = 1..Len(s)
    BY DEF Lists
<1>3. \A i, j \in 1..Len(s) : s[i] \in set /\ (<<s[i], s[j]>> \in Older <=> i < j)
    BY <1>1, ListedBefore
<1> QED BY <1>1, <1>2, <1>3 DEF Increasing

\* The head and the tail of a sequence that is not empty.
LEMMA HeadAndTail ==
    ASSUME NEW S, NEW s \in Seq(S), s # <<>>
    PROVE  /\ Head(s) = s[1] /\ Tail(s) \in Seq(S) /\ 1 \in DOMAIN s
           /\ \A i \in DOMAIN Tail(s) : i \in Nat /\ i + 1 \in DOMAIN s /\ 1 < i + 1 /\ Tail(s)[i] = s[i + 1]
           /\ \A j \in DOMAIN s : j = 1 \/ (j - 1 \in DOMAIN Tail(s) /\ s[j] = Tail(s)[j - 1])
<1>1. /\ Len(s) \in Nat /\ Len(s) # 0 /\ DOMAIN s = 1..Len(s) /\ Tail(s) \in Seq(S)
      /\ Len(Tail(s)) = Len(s) - 1 /\ DOMAIN Tail(s) = 1..(Len(s) - 1)
      /\ Head(s) = s[1]
    OBVIOUS
<1>2. \A i \in 1..(Len(s) - 1) : Tail(s)[i] = s[i + 1]
    OBVIOUS
<1>3. ASSUME NEW j \in 1..Len(s), j # 1 PROVE j - 1 \in 1..(Len(s) - 1) /\ Tail(s)[j - 1] = s[j]
    <2>1. j - 1 \in 1..(Len(s) - 1) /\ (j - 1) + 1 = j
        BY <1>1, <1>3
    <2> QED BY <1>2, <2>1
<1>4. \A i \in 1..(Len(s) - 1) : i \in Nat /\ i + 1 \in 1..Len(s) /\ 1 < i + 1
    BY <1>1
<1>5. 1 \in 1..Len(s)
    BY <1>1
<1> QED BY <1>1, <1>2, <1>3, <1>4, <1>5

\* A list that increases goes on with something newer.
LEMMA Increases ==
    ASSUME NEW s \in Seq(Nat), Increasing(s), NEW v \in Nat, AllBelow(s, <<v>>)
    PROVE  Increasing(s \o <<v>>)
<1>1. PICK t : t = s \o <<v>>
    OBVIOUS
<1>2. /\ Len(s) \in Nat /\ DOMAIN s = 1..Len(s) /\ DOMAIN t = 1..(Len(s) + 1)
      /\ t[Len(s) + 1] = v
    BY <1>1
<1>3. \A i \in 1..Len(s) : t[i] = s[i] /\ s[i] < v
    <2>1. \A i \in 1..Len(s) : t[i] = s[i]
        BY <1>1, <1>2
    <2>2. 1 \in DOMAIN <<v>> /\ <<v>>[1] = v
        OBVIOUS
    <2>3. \A i \in 1..Len(s) : s[i] < v
        BY <1>2, <2>2 DEF AllBelow
    <2> QED BY <2>1, <2>3
<1>4. ASSUME NEW i \in DOMAIN t, NEW j \in DOMAIN t, i < j PROVE t[i] < t[j]
    <2>1. i \in 1..Len(s) /\ (j \in 1..Len(s) \/ j = Len(s) + 1)
        BY <1>2, <1>4
    <2>2. CASE j \in 1..Len(s)
        BY <1>2, <1>3, <1>4, <2>1, <2>2 DEF Increasing
    <2>3. CASE j = Len(s) + 1
        BY <1>2, <1>3, <2>1, <2>3
    <2> QED BY <2>1, <2>2, <2>3
<1> QED BY <1>1, <1>4 DEF Increasing

\* It says that migrations run in order.
LEMMA OrderedSays == ASSUME Ordered PROVE RunsInOrder
BY DEF Ordered, RunsInOrder, OnePusherOnly, Increasing

\* There is one pusher, and one command.
LEMMA OnePushes ==
    ASSUME Assumptions, TypeInv, OnePusherOnly, NEW d \in team.pushers, NEW e \in team.pushers
    PROVE  d = e
<1>1. IsFiniteSet(team.pushers)
    BY TeamsAre, FS_Subset DEF Assumptions
<1>2. PICK x : team.pushers = {x}
    BY <1>1, FS_Singleton DEF OnePusherOnly
<1> QED BY <1>2

\* A step of one command, of the one pusher.
LEMMA OrderedCommand ==
    ASSUME Assumptions, TypeInv, Ordered, NEW d \in Devs, NEW c, Goto(d, c), UNCHANGED team,
           OnePusherOnly => /\ InTurn(c, ran') /\ Increasing(ran')
                            /\ (ran' = ran \/ d \in team.pushers)
    PROVE  Ordered'
<1> SUFFICES ASSUME OnePusherOnly PROVE Increasing(ran') /\ \A e \in Devs : InTurn(cmd'[e], ran')
    BY DEF Ordered, OnePusherOnly
<1>1. \A e \in Devs : cmd'[e] = IF e = d THEN c ELSE cmd[e]
    BY DEF TypeInv, Goto
<1>2. ASSUME NEW e \in Devs, e # d PROVE InTurn(cmd[e], ran')
    <2>1. CASE ran' = ran
        BY <2>1 DEF Ordered
    <2>2. CASE d \in team.pushers
        <3>1. e \notin team.pushers
            BY <1>2, <2>2, OnePushes
        <3>2. cmd[e].at = "none"
            BY <3>1 DEF TypeInv, Fits
        <3> QED BY <3>2 DEF InTurn
    <2> QED BY <2>1, <2>2
<1> QED BY <1>1, <1>2

\* The next of the queue is newer than all that ran.
LEMMA OrderedApply ==
    ASSUME Assumptions, IInv, TypeInv, Ordered, NEW d \in Devs, ApplyNext(d)
    PROVE  Ordered'
<1> DEFINE v == Head(cmd[d].queue)
           queue == cmd[d].queue
           c == Running(cmd[d].at, Tail(queue), cmd[d].keep)
<1>1. /\ cmd[d].at \in {"apply", "rebuild"} /\ queue # <<>> /\ v \in DOMAIN files[d]
      /\ ran' = ran \o files[d][v] /\ UNCHANGED team
      /\ Goto(d, c) \/ Goto(d, NoCommand)
    BY DEF ApplyNext, Commit, EndCommand
<1>2. d \in team.pushers /\ queue \in Seq(1..clock)
    BY <1>1 DEF TypeInv, Fits, CommandOf
<1>3. /\ v = queue[1] /\ 1 \in DOMAIN queue
      /\ \A i \in DOMAIN Tail(queue) : i \in Nat /\ i + 1 \in DOMAIN queue /\ 1 < i + 1 /\ Tail(queue)[i] = queue[i + 1]
    BY <1>1, <1>2, HeadAndTail
<1>4. ASSUME OnePusherOnly
      PROVE  Increasing(ran') /\ Increasing(Tail(queue)) /\ AllBelow(ran', Tail(queue))
    <2>1. Plain
        BY <1>4 DEF OnePusherOnly, Plain
    <2>2. v \in Nat /\ files[d][v] = <<v>> /\ ran \in Seq(Nat)
        BY <1>1, <2>1 DEF IInv, Own, Told
    <2>3. Increasing(ran) /\ Increasing(queue) /\ AllBelow(ran, queue)
        BY <1>1, <1>4 DEF Ordered, InTurn
    <2> HIDE DEF v, queue
    <2>4. AllBelow(ran, <<v>>)
        BY <1>3, <2>3 DEF AllBelow
    <2>5. Increasing(ran')
        BY <1>1, <2>2, <2>3, <2>4, Increases
    <2>6. Increasing(Tail(queue))
        <3>1. ASSUME NEW i \in DOMAIN Tail(queue), NEW j \in DOMAIN Tail(queue), i < j
              PROVE  Tail(queue)[i] < Tail(queue)[j]
            <4>1. i + 1 \in DOMAIN queue /\ j + 1 \in DOMAIN queue /\ i + 1 < j + 1
                BY <1>3, <3>1
            <4> QED BY <1>3, <2>3, <4>1 DEF Increasing
        <3> QED BY <3>1 DEF Increasing
    <2>7. AllBelow(ran', Tail(queue))
        <3>1. PICK t : t = ran'
            OBVIOUS
        <3>2. t = ran \o <<v>>
            BY <1>1, <2>2, <3>1
        <3>3. /\ Len(ran) \in Nat /\ DOMAIN ran = 1..Len(ran) /\ DOMAIN t = 1..(Len(ran) + 1)
              /\ t[Len(ran) + 1] = v /\ \A i \in 1..Len(ran) : t[i] = ran[i]
            BY <2>2, <3>2
        <3>4. ASSUME NEW i \in DOMAIN t, NEW j \in DOMAIN Tail(queue) PROVE t[i] < Tail(queue)[j]
            <4>1. j + 1 \in DOMAIN queue /\ 1 < j + 1 /\ Tail(queue)[j] = queue[j + 1]
                BY <1>3
            <4>2. CASE i \in 1..Len(ran)
                BY <2>3, <3>3, <4>1, <4>2 DEF AllBelow
            <4>3. CASE i = Len(ran) + 1
                BY <1>3, <2>3, <3>3, <4>1, <4>3 DEF Increasing
            <4> QED BY <3>3, <4>2, <4>3
        <3> QED BY <3>1, <3>4 DEF AllBelow
    <2> QED BY <2>5, <2>6, <2>7
<1>5. OnePusherOnly => InTurn(c, ran') /\ InTurn(NoCommand, ran')
    BY <1>4 DEF InTurn, Running, NoCommand
<1> HIDE DEF c, v, queue
<1> QED BY SMTT(60), <1>1, <1>2, <1>4, <1>5, OrderedCommand

\* What a push finds pending is newer than the rows there are.
LEMMA OrderedPush ==
    ASSUME Assumptions, IInv, TypeInv, Ordered, NEW d \in Devs, NEW includeAll \in BOOLEAN, Push(d, includeAll)
    PROVE  Ordered'
<1> DEFINE F == DOMAIN files[d]
           R == DOMAIN rows
           pending == Pending(d, includeAll)
           c == Running("apply", pending.list, {})
<1>1. /\ (IF includeAll THEN "include-all" ELSE "push") \in team.commands
      /\ pending.error = "none" /\ Goto(d, c) /\ UNCHANGED <<ran, team>>
    BY DEF Push, Free
<1>2. ASSUME OnePusherOnly PROVE Increasing(pending.list) /\ AllBelow(ran, pending.list)
    <2>1. includeAll = FALSE /\ Plain
        BY <1>1, <1>2 DEF OnePusherOnly, Plain
    <2>2. pending = PendingOf(F, R, Older) /\ R \subseteq F
          /\ pending = Outcome("none", InOrder(F \ R))
        BY <1>1, <2>1, PendingIs
    <2>3. PICK list : list = pending.list /\ list = InOrder(F \ R)
        BY <2>2, OutcomeIs
    <2>4. F \subseteq 1..clock /\ F \subseteq Versions
        <3>1. F \subseteq 1..clock
            BY DEF TypeInv, Holds
        <3>2. 1..clock \subseteq 1..MaxVersion
            BY TeamsAre DEF TypeInv, Assumptions
        <3> QED BY <3>1, <3>2 DEF Versions
    <2>5. Lists(list, F \ R, Older) /\ list \in Seq(F \ R)
        <3>1. F \ R \subseteq 1..clock
            BY <2>4
        <3>2. Lists(list, F \ R, Older)
            BY <2>3, <3>1, VersionsInOrder
        <3> QED BY <3>2 DEF Lists
    <2>6. Late(F, R, Older) = {}
        <3>1. SUFFICES ASSUME Late(F, R, Older) # {} PROVE FALSE
            OBVIOUS
        <3>2. R \ F = {}
            BY <2>2
        <3>3. PendingOf(F, R, Older).error = "missing remote"
            BY <3>1, <3>2, OutcomeIs DEF PendingOf
        <3> QED BY <1>1, <2>2, <3>3
    <2>7. ASSUME NEW v \in F \ R, NEW r \in R PROVE r < v
        <3>1. <<v, r>> \notin Older
            BY <2>6 DEF Late, OlderThanSome
        <3>2. v \in Nat /\ r \in Nat /\ (<<v, r>> \in Older <=> v < r)
            <4>1. v \in Versions /\ r \in Versions
                BY <2>2, <2>4
            <4>2. \A x, y \in Versions : <<x, y>> \in Older <=> x < y
                BY TimeOrders
            <4> QED BY <4>1, <4>2 DEF Versions
        <3>3. v # r
            OBVIOUS
        <3> QED BY <3>1, <3>2, <3>3
    <2>8. Increasing(list)
        <3>1. F \ R \subseteq Versions
            BY <2>4
        <3> QED BY <2>5, <3>1, ListedIncreases
    <2>9. AllBelow(ran, list)
        <3>1. \A i \in DOMAIN ran : ran[i] \in R
            BY <2>1 DEF IInv, Told, ToSet
        <3>2. \A j \in DOMAIN list : list[j] \in F \ R
            BY <2>5
        <3> HIDE DEF F, R
        <3> QED BY <2>7, <3>1, <3>2 DEF AllBelow
    <2> QED BY <2>3, <2>8, <2>9
<1>3. OnePusherOnly => InTurn(c, ran') /\ Increasing(ran')
    BY <1>1, <1>2 DEF InTurn, Running, Ordered
<1> HIDE DEF c
<1> QED BY <1>1, <1>3, OrderedCommand

\* A reset begins from the start.
LEMMA OrderedReset ==
    ASSUME Assumptions, TypeInv, Ordered, NEW d \in Devs, Reset(d)
    PROVE  Ordered'
<1> DEFINE set == {v \in DOMAIN files[d] : v <= cmd[d].queue[1]}
           c == Running("rebuild", InOrder(set), cmd[d].keep)
<1>1. cmd[d].at = "reset" /\ ran' = <<>> /\ UNCHANGED team /\ Goto(d, c)
    BY DEF Reset
<1>2. d \in team.pushers
    BY <1>1 DEF TypeInv, Fits
<1>3. set \subseteq 1..clock /\ set \subseteq Versions
    <2>1. set \subseteq 1..clock
        BY DEF TypeInv, Holds
    <2>2. 1..clock \subseteq 1..MaxVersion
        BY TeamsAre DEF TypeInv, Assumptions
    <2> QED BY <2>1, <2>2 DEF Versions
<1> HIDE DEF set
<1>4. Lists(InOrder(set), set, Older)
    BY <1>3, VersionsInOrder
<1>5. Increasing(InOrder(set))
    BY <1>3, <1>4, ListedIncreases
<1>6. Increasing(ran') /\ AllBelow(ran', InOrder(set))
    BY <1>1 DEF Increasing, AllBelow
<1>7. InTurn(c, ran')
    BY <1>5, <1>6 DEF InTurn, Running
<1> HIDE DEF c
<1> QED BY <1>1, <1>2, <1>6, <1>7, OrderedCommand

\* Every step keeps it.
LEMMA OrderedStep ==
    ASSUME Assumptions, IInv, TypeInv, Ordered, [Next]_vars
    PROVE  Ordered'
<1>1. CASE UNCHANGED vars
    BY <1>1 DEF vars, Ordered, OnePusherOnly, InTurn, Increasing, AllBelow
<1>2. ASSUME NEW d \in team.members,
        \/ NewMigration(d)
        \/ \E e \in team.members : GitPull(d, e)
        \/ Fetch(d)
        \/ \E includeAll \in BOOLEAN : Push(d, includeAll)
        \/ ApplyNext(d)
        \/ Finish(d)
        \/ Stop(d)
        \/ \E last \in 1..Cardinality(DOMAIN rows) : Down(d, last)
        \/ Reset(d)
        \/ \E versions \in SUBSET DOMAIN files[d], all \in BOOLEAN : RepairApplied(d, versions, all)
        \/ \E versions \in SUBSET DOMAIN rows, all \in BOOLEAN : RepairReverted(d, versions, all)
        \/ \E version \in DOMAIN files[d], given \in BOOLEAN :
              SquashNothing(d, version, given) \/ Squash(d, version, given)
        \/ RemoveMerged(d)
        \/ Baseline(d)
      PROVE Ordered'
    <2>1. d \in Devs
        BY TeamsAre
    <2>2. CASE \/ NewMigration(d)
               \/ \E e \in team.members : GitPull(d, e)
               \/ Fetch(d)
               \/ \E versions \in SUBSET DOMAIN files[d], all \in BOOLEAN : RepairApplied(d, versions, all)
               \/ \E versions \in SUBSET DOMAIN rows, all \in BOOLEAN : RepairReverted(d, versions, all)
        <3>1. UNCHANGED <<cmd, ran, team>>
            BY <2>2 DEF NewMigration, GitPull, Fetch, RepairApplied, RepairReverted
        <3> QED BY <3>1 DEF Ordered, OnePusherOnly, InTurn, Increasing, AllBelow
    <2>3. CASE \E includeAll \in BOOLEAN : Push(d, includeAll)
        BY <2>1, <2>3, OrderedPush
    <2>4. CASE ApplyNext(d)
        BY <2>1, <2>4, OrderedApply
    <2>5. CASE Reset(d)
        BY <2>1, <2>5, OrderedReset
    <2>6. CASE \/ Finish(d) \/ Stop(d) \/ Baseline(d)
               \/ \E last \in 1..Cardinality(DOMAIN rows) : Down(d, last)
               \/ \E version \in DOMAIN files[d], given \in BOOLEAN :
                     SquashNothing(d, version, given) \/ Squash(d, version, given)
               \/ RemoveMerged(d)
        <3>1. \E c : Goto(d, c) /\ c.at \in {"none", "reset", "remove", "baseline"}
            <4>1. CASE Finish(d) \/ Stop(d) \/ Baseline(d)
                BY <4>1, Commands DEF Finish, Stop, Baseline, EndCommand
            <4>2. CASE \E last \in 1..Cardinality(DOMAIN rows) : Down(d, last)
                <5>1. \E queue, keep : Goto(d, Running("reset", queue, keep))
                    BY <4>2 DEF Down
                <5> QED BY <5>1, Commands
            <4>3. CASE \/ \E version \in DOMAIN files[d], given \in BOOLEAN : SquashNothing(d, version, given)
                       \/ RemoveMerged(d)
                <5>1. \E queue, keep : Goto(d, Running("baseline", queue, keep))
                    BY <4>3 DEF SquashNothing, RemoveMerged
                <5> QED BY <5>1, Commands
            <4>4. CASE \E version \in DOMAIN files[d], given \in BOOLEAN : Squash(d, version, given)
                <5>1. PICK version \in DOMAIN files[d], given \in BOOLEAN : Squash(d, version, given)
                    BY <4>4
                <5>2. PICK n \in 0..Len(Dumped(d, version)) : \E c : Dumps(d, version, given, n, c)
                    BY <2>1, <5>1, SquashIs
                <5> QED BY <5>2, Commands DEF Dumps
            <4> QED BY <2>6, <4>1, <4>2, <4>3, <4>4
        <3>2. UNCHANGED <<ran, team>>
            BY <2>6 DEF Finish, Stop, Baseline, Down, SquashNothing, Squash, RemoveMerged
        <3>3. PICK c : Goto(d, c) /\ c.at \in {"none", "reset", "remove", "baseline"}
            BY <3>1
        <3>4. OnePusherOnly => InTurn(c, ran') /\ Increasing(ran')
            BY <3>2, <3>3 DEF InTurn, Ordered
        <3> QED BY <2>1, <3>2, <3>3, <3>4, OrderedCommand
    <2> QED BY <1>2, <2>2, <2>3, <2>4, <2>5, <2>6
<1> QED BY <1>1, <1>2 DEF Next

\* Nothing ran at first.
LEMMA OrderedInit == ASSUME Init PROVE Ordered
BY DEF Init, Ordered, Increasing, InTurn, NoCommand

-----------------------------------------------------------------------------
(* A developer on his own *)

\* With a file, all older files of the checkout have a row.
Closed(R, F) == \A u \in F, r \in R : u <= r => u \in R

\* What the command of a developer on his own has in hand: the files without a
\* row; after a down, those which it keeps and which have no row yet.
Keeps(F, R, c) ==
    /\ R \subseteq F /\ Closed(R, F)
    /\ c.at = "apply" => Lists(c.queue, F \ R, Older)
    /\ c.at = "reset" => c.queue[1] \in F /\ c.keep = {u \in F : u <= c.queue[1]}
    /\ c.at = "rebuild" => /\ c.keep \subseteq F /\ Closed(c.keep, F) /\ R \subseteq c.keep
                           /\ Lists(c.queue, c.keep \ R, Older)

Alone1 == Cardinality(team.members) = 1 /\ Plain

Lone == Alone1 => \A d \in team.members : Keeps(DOMAIN files[d], DOMAIN rows, cmd[d])

\* It says that a down keeps the rest.
LEMMA LoneSays == ASSUME Assumptions, TypeInv, Lone PROVE DownKeepsTheRestStep
<1> SUFFICES ASSUME Alone1, NEW d \in Devs, cmd[d].at = "rebuild", Finish(d)
             PROVE  DOMAIN rows = cmd[d].keep
    BY DEF DownKeepsTheRestStep, Alone1, Plain
<1>1. d \in team.members
    BY DEF TypeInv, Fits
<1>2. PICK keep, queue : keep = cmd[d].keep /\ queue = cmd[d].queue
    OBVIOUS
<1>3. DOMAIN rows \subseteq keep /\ Lists(queue, keep \ DOMAIN rows, Older) /\ queue = <<>>
    BY <1>1, <1>2 DEF Lone, Keeps, Finish
<1>4. keep \ DOMAIN rows = {}
    BY <1>3, NothingListed
<1> QED BY <1>2, <1>3, <1>4

\* A team of one has one member.
LEMMA OneMember ==
    ASSUME Assumptions, TypeInv, Alone1, NEW d \in team.members, NEW e \in team.members
    PROVE  d = e
<1>1. IsFiniteSet(team.members)
    BY TeamsAre, FS_Subset DEF Assumptions
<1>2. PICK x : team.members = {x}
    BY <1>1, FS_Singleton DEF Alone1
<1> QED BY <1>2

\* A step of the only member.
LEMMA LoneStepOf ==
    ASSUME Assumptions, TypeInv, NEW d \in team.members, UNCHANGED team,
           Alone1 => Keeps(DOMAIN files'[d], DOMAIN rows', cmd'[d])
    PROVE  Lone'
<1> SUFFICES ASSUME Alone1, NEW e \in team.members PROVE Keeps(DOMAIN files'[e], DOMAIN rows', cmd'[e])
    BY DEF Lone, Alone1, Plain
<1>1. e = d
    BY OneMember
<1> QED BY <1>1

\* The first of a list is taken off.
LEMMA FirstOff ==
    ASSUME Assumptions, NEW Q, Q \subseteq Versions, NEW s, Lists(s, Q, Older), s # <<>>
    PROVE  /\ Head(s) \in Q /\ \A u \in Q : u # Head(s) => Head(s) < u
           /\ Lists(Tail(s), Q \ {Head(s)}, Older)
<1>1. s \in Seq(Q) /\ Len(s) \in Nat /\ DOMAIN s = 1..Len(s)
    BY DEF Lists
<1>2. /\ Head(s) = s[1] /\ Tail(s) \in Seq(Q) /\ 1 \in DOMAIN s
      /\ \A i \in DOMAIN Tail(s) : i \in Nat /\ i + 1 \in DOMAIN s /\ 1 < i + 1 /\ Tail(s)[i] = s[i + 1]
      /\ \A j \in DOMAIN s : j = 1 \/ (j - 1 \in DOMAIN Tail(s) /\ s[j] = Tail(s)[j - 1])
    BY <1>1, HeadAndTail
<1>3. Orders(Older, Q) /\ \A u, v \in Q : <<u, v>> \in Older <=> u < v
    BY TimeOrders
<1>4. \A i, j \in 1..Len(s) : s[i] \in Q /\ (<<s[i], s[j]>> \in Older <=> i < j) /\ (s[i] = s[j] <=> i = j)
    BY <1>3, ListedBefore
<1>5. PICK t, v : t = Tail(s) /\ v = Head(s)
    OBVIOUS
<1>6. Len(t) \in Nat /\ DOMAIN t = 1..Len(t) /\ t = [i \in 1..Len(t) |-> t[i]]
    <2>1. t \in Seq(Q)
        BY <1>2, <1>5
    <2> QED BY <2>1
<1>7. \A i \in 1..Len(t) : t[i] = s[i + 1] /\ i + 1 \in 1..Len(s) /\ i + 1 # 1 /\ i \in Nat
    BY <1>1, <1>2, <1>5, <1>6
<1>8. \A i \in 1..Len(t) : t[i] \in Q \ {v}
    <2>1. ASSUME NEW i \in 1..Len(t) PROVE t[i] \in Q \ {v}
        <3>1. i + 1 \in 1..Len(s) /\ i + 1 # 1 /\ t[i] = s[i + 1] /\ 1 \in 1..Len(s)
            BY <1>1, <1>2, <1>7
        <3>2. s[i + 1] \in Q /\ s[i + 1] # s[1]
            BY <1>4, <3>1
        <3> QED BY <1>2, <1>5, <3>1, <3>2
    <2> QED BY <2>1
<1>9. t \in Seq(Q \ {v})
    <2>1. t \in [1..Len(t) -> Q \ {v}]
        BY <1>6, <1>8
    <2> QED BY <1>6, <2>1
<1>10. \A i, j \in 1..Len(t) : i < j => <<t[i], t[j]>> \in Older
    <2>1. \A i, j \in 1..Len(t) : i < j => i + 1 < j + 1
        BY <1>7
    <2> QED BY SMTT(60), <1>4, <1>7, <2>1
<1>11. ASSUME NEW u \in Q \ {v} PROVE \E i \in 1..Len(t) : t[i] = u
    <2>1. PICK j \in 1..Len(s) : s[j] = u
        BY DEF Lists
    <2>2. j # 1
        BY <1>2, <1>5, <2>1
    <2> QED BY <1>1, <1>2, <1>5, <1>6, <2>1, <2>2
<1>12. Lists(t, Q \ {v}, Older)
    BY <1>9, <1>10, <1>11 DEF Lists
<1>13. ASSUME NEW u \in Q, u # v PROVE v < u
    <2>1. PICK j \in 1..Len(s) : s[j] = u
        BY DEF Lists
    <2>2. j # 1 /\ 1 \in 1..Len(s) /\ s[1] = v
        BY <1>1, <1>2, <1>5, <1>13, <2>1
    <2>3. 1 < j
        BY <2>2
    <2>4. <<v, u>> \in Older /\ v \in Q
        BY <1>4, <2>1, <2>2, <2>3
    <2> QED BY <1>3, <2>4
<1> QED BY <1>2, <1>5, <1>4, <1>1, <1>12, <1>13

\* Files and rows have versions that were handed out.
LEMMA FilesAreVersions ==
    ASSUME Assumptions, TypeInv, NEW d \in Devs
    PROVE  /\ DOMAIN files[d] \subseteq 1..clock /\ DOMAIN files[d] \subseteq Versions
           /\ DOMAIN rows \subseteq 1..clock /\ DOMAIN rows \subseteq Versions /\ Versions \subseteq Nat
<1>1. DOMAIN files[d] \subseteq 1..clock /\ DOMAIN rows \subseteq 1..clock
    BY DEF TypeInv, Holds
<1>2. 1..clock \subseteq 1..MaxVersion /\ 1..MaxVersion \subseteq Nat
    BY TeamsAre DEF TypeInv, Assumptions
<1> QED BY <1>1, <1>2 DEF Versions

\* Running the next of the queue keeps it.
LEMMA LoneApply ==
    ASSUME Assumptions, IInv, TypeInv, Lone, NEW d \in team.members, ApplyNext(d)
    PROVE  Lone'
<1> DEFINE v == Head(cmd[d].queue)
<1>0. d \in Devs
    BY SMTT(60), TeamsAre
<1>1. /\ cmd[d].at \in {"apply", "rebuild"} /\ cmd[d].queue # <<>> /\ v \in DOMAIN files[d]
      /\ rows' = Over(rows, Entry(v, files[d][v])) /\ UNCHANGED <<files, team>>
      /\ Goto(d, Running(cmd[d].at, Tail(cmd[d].queue), cmd[d].keep)) \/ Goto(d, NoCommand)
    BY DEF ApplyNext, Commit, EndCommand
<1>2. DOMAIN rows' = DOMAIN rows \union {v}
    BY <1>1 DEF Over, Entry
<1>3. cmd'[d] = Running(cmd[d].at, Tail(cmd[d].queue), cmd[d].keep) \/ cmd'[d] = NoCommand
    BY <1>0, <1>1 DEF Goto, TypeInv
<1> SUFFICES ASSUME Alone1 PROVE Keeps(DOMAIN files'[d], DOMAIN rows', cmd'[d])
    BY <1>1, LoneStepOf
<1>4. Keeps(DOMAIN files[d], DOMAIN rows, cmd[d])
    BY DEF Lone
<1>5. PICK F, R, queue, keep, at :
        F = DOMAIN files[d] /\ R = DOMAIN rows /\ queue = cmd[d].queue /\ keep = cmd[d].keep /\ at = cmd[d].at
    OBVIOUS
<1>6. /\ R \subseteq F /\ Closed(R, F) /\ v \in F /\ queue # <<>> /\ v = Head(queue)
      /\ at = "apply" => Lists(queue, F \ R, Older)
      /\ at = "rebuild" => keep \subseteq F /\ Closed(keep, F) /\ R \subseteq keep /\ Lists(queue, keep \ R, Older)
      /\ at \in {"apply", "rebuild"}
    BY <1>1, <1>4, <1>5 DEF Keeps
<1>7. F \subseteq Versions /\ Versions \subseteq Nat
    BY <1>0, <1>5, FilesAreVersions
<1> HIDE DEF v
<1>8. CASE at = "apply"
    <2>1. F \ R \subseteq Versions
        BY <1>7
    <2>2. /\ v \in F \ R /\ \A u \in F \ R : u # v => v < u
          /\ Lists(Tail(queue), (F \ R) \ {v}, Older)
        BY <1>6, <1>8, <2>1, FirstOff
    <2>3. (F \ R) \ {v} = F \ (R \union {v})
        OBVIOUS
    <2>4. Closed(R \union {v}, F)
        <3>1. ASSUME NEW u \in F, u <= v PROVE u \in R \union {v}
            <4>1. u \in Nat /\ v \in Nat
                BY <1>6, <1>7
            <4> QED BY <2>2, <3>1, <4>1
        <3> QED BY <1>6, <3>1 DEF Closed
    <2>5. Keeps(F, R \union {v}, NoCommand) /\ Keeps(F, R \union {v}, Running(at, Tail(queue), keep))
        BY <1>6, <1>8, <2>2, <2>3, <2>4 DEF Keeps, NoCommand, Running
    <2> QED BY <1>1, <1>2, <1>3, <1>5, <2>5
<1>9. CASE at = "rebuild"
    <2>1. keep \ R \subseteq Versions
        BY <1>6, <1>7, <1>9
    <2>2. /\ v \in keep \ R /\ \A u \in keep \ R : u # v => v < u
          /\ Lists(Tail(queue), (keep \ R) \ {v}, Older)
        BY <1>6, <1>9, <2>1, FirstOff
    <2>3. (keep \ R) \ {v} = keep \ (R \union {v})
        OBVIOUS
    <2>4. Closed(R \union {v}, F)
        <3>1. ASSUME NEW u \in F, u <= v PROVE u \in R \union {v}
            <4>1. u \in Nat /\ v \in Nat
                BY <1>6, <1>7
            <4>2. u \in keep
                BY <1>6, <1>9, <2>2, <3>1 DEF Closed
            <4> QED BY <2>2, <3>1, <4>1, <4>2
        <3> QED BY <1>6, <3>1 DEF Closed
    <2>5. Keeps(F, R \union {v}, NoCommand)
        BY <1>6, <2>4 DEF Keeps, NoCommand
    <2>6. Keeps(F, R \union {v}, Running(at, Tail(queue), keep))
        BY <1>6, <1>9, <2>2, <2>3, <2>4 DEF Keeps, Running
    <2> QED BY <1>1, <1>2, <1>3, <1>5, <2>5, <2>6
<1> QED BY <1>6, <1>8, <1>9

\* A reset of a down keeps the versions it promised.
LEMMA LoneReset ==
    ASSUME Assumptions, IInv, TypeInv, Lone, NEW d \in team.members, Reset(d)
    PROVE  Lone'
<1> DEFINE set == {v \in DOMAIN files[d] : v <= cmd[d].queue[1]}
<1>0. d \in Devs
    BY TeamsAre
<1>1. /\ cmd[d].at = "reset" /\ rows' = <<>> /\ UNCHANGED <<files, team>>
      /\ Goto(d, Running("rebuild", InOrder(set), cmd[d].keep))
    BY DEF Reset
<1>2. cmd'[d] = Running("rebuild", InOrder(set), cmd[d].keep)
    BY <1>0, <1>1 DEF Goto, TypeInv
<1> SUFFICES ASSUME Alone1 PROVE Keeps(DOMAIN files'[d], DOMAIN rows', cmd'[d])
    BY <1>1, LoneStepOf
<1>3. cmd[d].keep = set /\ cmd[d].queue[1] \in DOMAIN files[d]
    BY <1>1 DEF Lone, Keeps
<1>4. DOMAIN files[d] \subseteq 1..clock /\ DOMAIN files[d] \subseteq Nat
    BY <1>0, FilesAreVersions
<1>5. Lists(InOrder(set), set, Older)
    <2>1. set \subseteq 1..clock
        BY <1>4
    <2> QED BY <2>1, VersionsInOrder
<1>6. Closed(set, DOMAIN files[d])
    <2>1. PICK q \in Nat : q = cmd[d].queue[1]
        BY <1>3, <1>4
    <2>2. ASSUME NEW u \in DOMAIN files[d], NEW r \in set, u <= r PROVE u \in set
        <3>1. u \in Nat /\ r \in Nat /\ r <= q
            BY <1>4, <2>1
        <3>2. u <= q
            BY <2>1, <2>2, <3>1
        <3> QED BY <2>1, <3>2
    <2> QED BY <2>2 DEF Closed
<1>8. DOMAIN rows' = {} /\ files' = files
    BY <1>1
<1>9. set \subseteq DOMAIN files[d] /\ set \ {} = set
    OBVIOUS
<1> HIDE DEF set
<1>10. Keeps(DOMAIN files[d], {}, Running("rebuild", InOrder(set), set))
    BY <1>5, <1>6, <1>9 DEF Keeps, Running, Closed
<1> QED BY <1>2, <1>3, <1>8, <1>10

\* The begin of a down.
LEMMA LoneDown ==
    ASSUME Assumptions, IInv, TypeInv, Lone, NEW d \in team.members, NEW last \in Nat, Down(d, last)
    PROVE  Lone'
<1> DEFINE R == DOMAIN rows
           F == DOMAIN files[d]
           remote == InOrder(R)
           total == Len(remote)
           keep == ToSet(SubSeq(remote, 1, total - last))
           c == Running("reset", <<remote[total - last]>>, keep)
<1>0. d \in Devs
    BY TeamsAre
<1>1. /\ last > 0 /\ last < total /\ UNCHANGED <<files, rows, team>> /\ Goto(d, c)
    BY DEF Down
<1>2. cmd'[d] = c
    BY <1>0, <1>1 DEF Goto, TypeInv
<1> SUFFICES ASSUME Alone1 PROVE Keeps(DOMAIN files'[d], DOMAIN rows', cmd'[d])
    BY <1>1, LoneStepOf
<1>3. R \subseteq F /\ Closed(R, F) /\ R \subseteq 1..clock /\ F \subseteq Nat
    BY <1>0, FilesAreVersions DEF Lone, Keeps
<1>4. Lists(remote, R, Older) /\ Orders(Older, R) /\ \A u, v \in R : <<u, v>> \in Older <=> u < v
    BY <1>3, VersionsInOrder
<1> HIDE DEF F, R, remote
<1>5. /\ remote \in Seq(R) /\ total \in Nat /\ \A v \in R : \E i \in 1..total : remote[i] = v
      /\ \A i, j \in 1..total : remote[i] \in R /\ (<<remote[i], remote[j]>> \in Older <=> i < j)
    <2>1. remote \in Seq(R) /\ total \in Nat /\ \A v \in R : \E i \in 1..total : remote[i] = v
        BY <1>4 DEF Lists
    <2>2. \A i, j \in 1..total : remote[i] \in R /\ (<<remote[i], remote[j]>> \in Older <=> i < j)
        BY <1>4, ListedBefore
    <2> QED BY <2>1, <2>2
<1>6. PICK k : k = total - last
    OBVIOUS
<1>7. k \in 1..total /\ k \in Nat
    <2>1. total \in Nat
        BY <1>5
    <2>2. last > 0 /\ last < total
        BY <1>1
    <2> HIDE DEF total
    <2> QED BY <1>6, <2>1, <2>2
<1>8. keep = {remote[i] : i \in 1..k}
    <2>1. PICK s : s = SubSeq(remote, 1, k)
        OBVIOUS
    <2>2. DOMAIN s = 1..k /\ \A i \in 1..k : s[i] = remote[i]
        BY <1>5, <1>7, <2>1
    <2>3. ToSet(s) = {remote[i] : i \in 1..k}
        BY <2>2 DEF ToSet
    <2> QED BY <1>6, <2>1, <2>3
<1>9. PICK last1 : last1 = remote[k]
    OBVIOUS
<1>10. last1 \in R /\ last1 \in F /\ last1 \in Nat
    BY <1>3, <1>5, <1>7, <1>9
<1>11. \A i, j \in 1..total : remote[i] \in Nat /\ (remote[i] < remote[j] <=> i < j)
    BY <1>3, <1>4, <1>5
<1>12. ASSUME NEW u \in keep PROVE u \in F /\ u <= last1
    <2>1. PICK i \in 1..k : u = remote[i]
        BY <1>8
    <2>2. i \in 1..total /\ ~(k < i)
        BY <1>7, <2>1
    <2>3. u \in R /\ u \in Nat /\ ~(last1 < u)
        BY <1>5, <1>7, <1>9, <1>11, <2>1, <2>2
    <2> QED BY <1>3, <1>10, <2>3
<1>13. ASSUME NEW u \in F, u <= last1 PROVE u \in keep
    <2>1. u \in R
        BY <1>3, <1>10, <1>13 DEF Closed
    <2>2. PICK i \in 1..total : remote[i] = u
        BY <1>5, <2>1
    <2>3. ~(last1 < u)
        BY <1>3, <1>10, <1>13
    <2>4. ~(k < i)
        BY <1>7, <1>9, <1>11, <2>2, <2>3
    <2>5. i \in 1..k
        BY <1>7, <2>4
    <2> QED BY <1>8, <2>2, <2>5
<1>14. c = Running("reset", <<last1>>, keep)
    BY <1>6, <1>9
<1> HIDE DEF c, keep
<1>15. c.at = "reset" /\ c.queue = <<last1>> /\ c.keep = keep
    BY <1>14 DEF Running
<1>16. c.queue[1] = last1
    BY <1>15
<1>17. keep = {u \in F : u <= c.queue[1]}
    BY <1>12, <1>13, <1>16
<1>18. Keeps(F, R, c)
    BY <1>3, <1>10, <1>15, <1>16, <1>17 DEF Keeps
<1>19. DOMAIN files'[d] = F /\ DOMAIN rows' = R
    BY <1>1 DEF F, R
<1> QED BY <1>2, <1>18, <1>19

\* The begin of a push.
LEMMA LonePush ==
    ASSUME Assumptions, IInv, TypeInv, Lone, NEW d \in team.members, NEW includeAll \in BOOLEAN, Push(d, includeAll)
    PROVE  Lone'
<1>0. d \in Devs
    BY TeamsAre
<1>1. PICK pending : pending = Pending(d, includeAll)
    OBVIOUS
<1>2. pending.error = "none" /\ Goto(d, Running("apply", pending.list, {})) /\ UNCHANGED <<files, rows, team>>
    BY <1>1 DEF Push
<1>3. cmd'[d] = Running("apply", pending.list, {})
    BY <1>0, <1>2 DEF Goto, TypeInv
<1> SUFFICES ASSUME Alone1 PROVE Keeps(DOMAIN files'[d], DOMAIN rows', cmd'[d])
    BY <1>2, LoneStepOf
<1>4. pending = Outcome("none", InOrder(DOMAIN files[d] \ DOMAIN rows))
    BY <1>0, <1>1, <1>2, PendingIs
<1>5. DOMAIN files[d] \ DOMAIN rows \subseteq 1..clock
    BY <1>0, FilesAreVersions
<1>6. Lists(pending.list, DOMAIN files[d] \ DOMAIN rows, Older)
    BY <1>4, <1>5, VersionsInOrder, OutcomeIs
<1>7. Keeps(DOMAIN files[d], DOMAIN rows, Running("apply", pending.list, {}))
    BY <1>6 DEF Lone, Keeps, Running
<1> QED BY <1>2, <1>3, <1>7

\* He is idle when his files change.
LEMMA LoneFiles ==
    ASSUME Assumptions, IInv, TypeInv, Lone, NEW d \in team.members, NewMigration(d) \/ Fetch(d)
    PROVE  Lone'
<1>0. d \in Devs
    BY TeamsAre
<1>1. UNCHANGED <<rows, cmd, team>> /\ cmd[d].at = "none"
    BY DEF NewMigration, Fetch, Free, Idle
<1> SUFFICES ASSUME Alone1 PROVE Keeps(DOMAIN files'[d], DOMAIN rows', cmd'[d])
    BY <1>1, LoneStepOf
<1>2. DOMAIN rows \subseteq DOMAIN files[d] /\ Closed(DOMAIN rows, DOMAIN files[d])
    BY DEF Lone, Keeps
<1>3. PICK new : /\ DOMAIN files'[d] = DOMAIN files[d] \union new
                 /\ new \subseteq DOMAIN rows \/ (new = {clock + 1})
    <2>1. CASE NewMigration(d)
        <3>1. files' = [files EXCEPT ![d] = Over(files[d], Entry(clock + 1, <<clock + 1>>))]
            BY <2>1 DEF NewMigration, TypeInv
        <3>2. files'[d] = Over(files[d], Entry(clock + 1, <<clock + 1>>))
            BY <1>0, <3>1 DEF TypeInv
        <3> QED BY <3>2 DEF Over, Entry
    <2>2. CASE Fetch(d)
        <3>1. files' = [files EXCEPT ![d] = Over(rows, files[d])]
            BY <2>2 DEF Fetch, TypeInv
        <3>2. files'[d] = Over(rows, files[d])
            BY <1>0, <3>1 DEF TypeInv
        <3> QED BY <3>2 DEF Over
    <2> QED BY <2>1, <2>2
<1>4. PICK F, R : F = DOMAIN files[d] /\ R = DOMAIN rows
    OBVIOUS
<1>5. R \subseteq 1..clock /\ clock \in Nat
    BY <1>0, <1>4, FilesAreVersions DEF TypeInv
<1>6. Closed(R, F \union new)
    <2>1. ASSUME NEW u \in new, NEW r \in R, u <= r PROVE u \in R
        BY <1>3, <1>4, <1>5, <2>1
    <2> QED BY <1>2, <1>4, <2>1 DEF Closed
<1>7. Keeps(F \union new, R, cmd[d])
    BY <1>1, <1>2, <1>4, <1>6 DEF Keeps
<1> QED BY <1>1, <1>3, <1>4, <1>7

\* Every step keeps it.
LEMMA LoneStep ==
    ASSUME Assumptions, IInv, TypeInv, Lone, [Next]_vars
    PROVE  Lone'
<1>1. CASE UNCHANGED vars
    BY <1>1 DEF vars, Lone, Alone1, Plain
<1>2. ASSUME NEW d \in team.members,
        \/ NewMigration(d)
        \/ \E e \in team.members : GitPull(d, e)
        \/ Fetch(d)
        \/ \E includeAll \in BOOLEAN : Push(d, includeAll)
        \/ ApplyNext(d)
        \/ Finish(d)
        \/ Stop(d)
        \/ \E last \in 1..Cardinality(DOMAIN rows) : Down(d, last)
        \/ Reset(d)
        \/ \E versions \in SUBSET DOMAIN files[d], all \in BOOLEAN : RepairApplied(d, versions, all)
        \/ \E versions \in SUBSET DOMAIN rows, all \in BOOLEAN : RepairReverted(d, versions, all)
        \/ \E version \in DOMAIN files[d], given \in BOOLEAN :
              SquashNothing(d, version, given) \/ Squash(d, version, given)
        \/ RemoveMerged(d)
        \/ Baseline(d)
      PROVE Lone'
    <2>1. d \in Devs
        BY TeamsAre
    <2>2. CASE NewMigration(d) \/ Fetch(d)
        BY <2>2, LoneFiles
    <2>3. CASE \E includeAll \in BOOLEAN : Push(d, includeAll)
        BY <2>3, LonePush
    <2>4. CASE ApplyNext(d)
        BY <2>4, LoneApply
    <2>5. CASE Reset(d)
        BY <2>5, LoneReset
    <2>6. CASE Finish(d) \/ Stop(d)
        <3>1. UNCHANGED <<files, rows, team>> /\ Goto(d, NoCommand)
            BY <2>6 DEF Finish, Stop, EndCommand
        <3>2. cmd'[d] = NoCommand
            BY <2>1, <3>1 DEF Goto, TypeInv
        <3>3. Alone1 => Keeps(DOMAIN files[d], DOMAIN rows, NoCommand)
            BY DEF Lone, Keeps, NoCommand
        <3> QED BY <3>1, <3>2, <3>3, LoneStepOf
    <2>7. CASE \E last \in 1..Cardinality(DOMAIN rows) : Down(d, last)
        <3>1. IsFiniteSet(DOMAIN rows)
            BY <2>1, FilesAreVersions, VersionsInOrder
        <3>2. 1..Cardinality(DOMAIN rows) \subseteq Nat
            BY <3>1, FS_CardinalityType
        <3> QED BY <2>7, <3>2, LoneDown
    <2>8. CASE \E e \in team.members : GitPull(d, e)
        <3>1. PICK e \in team.members : GitPull(d, e)
            BY <2>8
        <3>2. d # e /\ team' = team
            BY <3>1 DEF GitPull
        <3>3. ~Alone1
            BY <3>2, OneMember
        <3> QED BY <3>2, <3>3 DEF Lone, Alone1, Plain
    <2>9. CASE \/ \E versions \in SUBSET DOMAIN files[d], all \in BOOLEAN : RepairApplied(d, versions, all)
               \/ \E versions \in SUBSET DOMAIN rows, all \in BOOLEAN : RepairReverted(d, versions, all)
        <3>1. "repair" \in team.commands /\ team' = team
            BY <2>9 DEF RepairApplied, RepairReverted, Free
        <3> QED BY <3>1 DEF Lone, Alone1, Plain
    <2>10. CASE \E version \in DOMAIN files[d], given \in BOOLEAN :
                  SquashNothing(d, version, given) \/ Squash(d, version, given)
        <3>1. "squash" \in team.commands /\ team' = team
            BY <2>10 DEF SquashNothing, Squash, Chosen, Free
        <3> QED BY <3>1 DEF Lone, Alone1, Plain
    <2>11. CASE RemoveMerged(d) \/ Baseline(d)
        <3>1. cmd[d].at \in {"remove", "baseline"} /\ team' = team
            BY <2>11 DEF RemoveMerged, Baseline
        <3>2. ~Plain
            BY <2>1, <3>1 DEF IInv
        <3> QED BY <3>1, <3>2 DEF Lone, Alone1, Plain
    <2> QED BY <1>2, <2>2, <2>3, <2>4, <2>5, <2>6, <2>7, <2>8, <2>9, <2>10, <2>11
<1> QED BY <1>1, <1>2 DEF Next

\* No down has begun at first.
LEMMA LoneInit == ASSUME Assumptions, Init PROVE Lone
<1>1. team.members \subseteq Devs
    BY TypeInit, TeamsAre
<1>2. \A d \in Devs : files[d] = <<>> /\ cmd[d].at = "none"
    BY Commands DEF Init
<1>3. DOMAIN rows = {}
    BY DEF Init
<1> QED BY <1>1, <1>2, <1>3 DEF Lone, Keeps, Closed

-----------------------------------------------------------------------------
(* The merge of version texts *)

\* The merge is the same operator in the module of the texts.
LEMMA SameMerge ==
    ASSUME NEW local, NEW remote, NEW before
    PROVE  /\ Texts!FindPendingMigrations(local, remote, before) = FindPendingMigrations(local, remote, before)
           /\ Texts!GetPendingMigrations(local, remote, TRUE, before)
                 = GetPendingMigrations(local, remote, TRUE, before)
<1>1. Texts!Merge(local, remote, before) = Merge(local, remote, before)
    BY DEF Texts!Merge, Merge, Texts!Places, Places, Texts!Missing, Missing, Texts!Unapplied, Unapplied
<1>2. \A s, n : Texts!Drop(s, n) = Drop(s, n)
    BY DEF Texts!Drop, Drop
<1>3. \A e, l : Texts!Outcome(e, l) = Outcome(e, l)
    BY DEF Texts!Outcome, Outcome
<1>4. Texts!FindPendingMigrations(local, remote, before) = FindPendingMigrations(local, remote, before)
    BY <1>1, <1>2, <1>3 DEF Texts!FindPendingMigrations, FindPendingMigrations
<1> QED BY <1>2, <1>3, <1>4 DEF Texts!GetPendingMigrations, GetPendingMigrations

\* Texts of n digits, of which no two that differ are compared at the end.
IsText(t, n) == t \in Seq(0..9) /\ Len(t) = n

\* The texts differ first at place k.
DifferAt(a, b, k, n) == k \in 1..n /\ a[k] < b[k] /\ \A i \in 1..n : i < k => a[i] = b[i]

\* Two sequences begin alike when they agree place by place.
LEMMA SameStart ==
    ASSUME NEW S, NEW a \in Seq(S), NEW b \in Seq(S), NEW k \in Nat, k <= Len(a), k <= Len(b)
    PROVE  SubSeq(a, 1, k) = SubSeq(b, 1, k) <=> \A i \in 1..k : a[i] = b[i]
<1>1. PICK s, t : s = SubSeq(a, 1, k) /\ t = SubSeq(b, 1, k)
    OBVIOUS
<1>2. /\ Len(s) = k /\ Len(t) = k /\ s = [i \in 1..k |-> s[i]] /\ t = [i \in 1..k |-> t[i]]
      /\ \A i \in 1..k : s[i] = a[i] /\ t[i] = b[i]
    <2>1. Len(a) \in Nat /\ Len(b) \in Nat
        OBVIOUS
    <2>2. s \in Seq(S) /\ Len(s) = k /\ \A i \in 1..k : s[i] = a[i]
        BY <1>1, <2>1
    <2>3. t \in Seq(S) /\ Len(t) = k /\ \A i \in 1..k : t[i] = b[i]
        BY <1>1, <2>1
    <2> QED BY <2>2, <2>3
<1>3. s = t <=> \A i \in 1..k : s[i] = t[i]
    BY <1>2
<1> QED BY <1>1, <1>2, <1>3

\* A text is before another when it is smaller where they first differ.
LEMMA TextBeforeIs ==
    ASSUME NEW n \in Nat, NEW a, NEW b, a \in Seq(0..10), b \in Seq(0..10), Len(a) = n, Len(b) = n
    PROVE  Texts!TextBefore(a, b) <=> \E k \in 1..n : DifferAt(a, b, k, n)
<1>1. ~Texts!IsStrictPrefix(a, b)
    <2>1. SUFFICES ASSUME SubSeq(a, 1, n) = SubSeq(b, 1, n), a # b PROVE FALSE
        BY DEF Texts!IsStrictPrefix, Texts!IsPrefix
    <2>2. SubSeq(a, 1, n) = a /\ SubSeq(b, 1, n) = b
        OBVIOUS
    <2> QED BY <2>1, <2>2
<1>2. ASSUME NEW k \in 1..n
      PROVE  SubSeq(a, 1, k - 1) = SubSeq(b, 1, k - 1) <=> \A i \in 1..n : i < k => a[i] = b[i]
    <2>1. k - 1 \in Nat /\ k - 1 <= Len(a) /\ k - 1 <= Len(b)
        OBVIOUS
    <2>2. SubSeq(a, 1, k - 1) = SubSeq(b, 1, k - 1) <=> \A i \in 1..(k - 1) : a[i] = b[i]
        BY <2>1, SameStart
    <2>3. \A i : i \in 1..(k - 1) <=> (i \in 1..n /\ i < k)
        OBVIOUS
    <2> QED BY <2>2, <2>3
<1>3. \A k \in 1..n : k <= Len(b)
    OBVIOUS
<1>4. Texts!TextBefore(a, b) <=>
        \E k \in 1..n : SubSeq(a, 1, k - 1) = SubSeq(b, 1, k - 1) /\ a[k] < b[k]
    BY <1>1, <1>3 DEF Texts!TextBefore
<1> QED BY <1>2, <1>4 DEF DifferAt

\* The "_" behind texts of one length makes no difference.
LEMMA FileBeforeIs ==
    ASSUME NEW n \in Nat, NEW a, NEW b, IsText(a, n), IsText(b, n)
    PROVE  Texts!FileBefore(a, b) <=> Texts!TextBefore(a, b)
<1>1. a \in Seq(0..10) /\ b \in Seq(0..10) /\ Len(a) = n /\ Len(b) = n
    <2>1. 0..9 \subseteq 0..10
        OBVIOUS
    <2> QED BY <2>1, SeqInside DEF IsText
<1>2. PICK s, t : s = Append(a, 10) /\ t = Append(b, 10)
    OBVIOUS
<1>3. /\ s \in Seq(0..10) /\ t \in Seq(0..10) /\ Len(s) = n + 1 /\ Len(t) = n + 1
      /\ s[n + 1] = 10 /\ t[n + 1] = 10
    BY <1>1, <1>2
<1>4. \A i \in 1..n : s[i] = a[i] /\ t[i] = b[i]
    BY <1>1, <1>2
<1>5. Texts!TextBefore(s, t) <=> \E k \in 1..(n + 1) : DifferAt(s, t, k, n + 1)
    BY <1>3, TextBeforeIs
<1>6. Texts!TextBefore(a, b) <=> \E k \in 1..n : DifferAt(a, b, k, n)
    BY <1>1, TextBeforeIs
<1>7. ASSUME NEW k \in 1..n PROVE DifferAt(s, t, k, n + 1) <=> DifferAt(a, b, k, n)
    <2>1. k \in 1..(n + 1) /\ \A i \in 1..(n + 1) : i < k => i \in 1..n
        OBVIOUS
    <2>2. \A i \in 1..n : i \in 1..(n + 1)
        OBVIOUS
    <2>3. s[k] < t[k] <=> a[k] < b[k]
        BY <1>4
    <2>4. (\A i \in 1..(n + 1) : i < k => s[i] = t[i]) <=> (\A i \in 1..n : i < k => a[i] = b[i])
        BY <1>4, <2>1, <2>2
    <2> QED BY <2>1, <2>3, <2>4 DEF DifferAt
<1>8. ~DifferAt(s, t, n + 1, n + 1)
    BY <1>3 DEF DifferAt
<1>9. \A k : k \in 1..(n + 1) <=> (k \in 1..n \/ k = n + 1)
    OBVIOUS
<1>10. Texts!TextBefore(s, t) <=> Texts!TextBefore(a, b)
    BY <1>5, <1>6, <1>7, <1>8, <1>9
<1> QED BY <1>2, <1>10 DEF Texts!FileBefore

\* Texts of one length are ordered.
LEMMA TextsAreOrdered ==
    ASSUME NEW n \in Nat, \A t \in VersionTexts : IsText(t, n)
    PROVE  Orders(Texts!TextOrder, VersionTexts) /\ Texts!FileOrder = Texts!TextOrder
<1>1. ASSUME NEW a \in VersionTexts, NEW b \in VersionTexts
      PROVE  /\ Texts!TextBefore(a, b) <=> \E k \in 1..n : DifferAt(a, b, k, n)
             /\ <<a, b>> \in Texts!TextOrder <=> Texts!TextBefore(a, b)
             /\ \A i \in 1..n : a[i] \in 0..9
    <2>1. a \in Seq(0..10) /\ b \in Seq(0..10) /\ Len(a) = n /\ Len(b) = n
        <3>1. 0..9 \subseteq 0..10 /\ IsText(a, n) /\ IsText(b, n)
            OBVIOUS
        <3> QED BY <3>1, SeqInside DEF IsText
    <2>2. Texts!TextBefore(a, b) <=> \E k \in 1..n : DifferAt(a, b, k, n)
        BY <2>1, TextBeforeIs
    <2>3. <<a, b>> \in VersionTexts \X VersionTexts /\ <<a, b>>[1] = a /\ <<a, b>>[2] = b
        OBVIOUS
    <2>4. <<a, b>> \in Texts!TextOrder <=> Texts!TextBefore(a, b)
        BY <2>3 DEF Texts!TextOrder
    <2>5. \A i \in 1..n : a[i] \in 0..9
        BY DEF IsText
    <2> QED BY <2>2, <2>4, <2>5
<1>2. \A a \in VersionTexts : <<a, a>> \notin Texts!TextOrder
    <2>1. ASSUME NEW a \in VersionTexts, NEW k \in 1..n PROVE ~DifferAt(a, a, k, n)
        <3>1. a[k] \in 0..9
            BY <1>1
        <3> QED BY <3>1 DEF DifferAt
    <2> QED BY <1>1, <2>1
<1>3. ASSUME NEW a \in VersionTexts, NEW b \in VersionTexts, NEW c \in VersionTexts,
             <<a, b>> \in Texts!TextOrder, <<b, c>> \in Texts!TextOrder
      PROVE  <<a, c>> \in Texts!TextOrder
    <2>1. PICK k \in 1..n, m \in 1..n : DifferAt(a, b, k, n) /\ DifferAt(b, c, m, n)
        BY <1>1, <1>3
    <2>2. \A i \in 1..n : a[i] \in Nat /\ b[i] \in Nat /\ c[i] \in Nat
        <3>1. \A i \in 1..n : a[i] \in 0..9
            BY <1>1
        <3>2. \A i \in 1..n : b[i] \in 0..9
            BY <1>1
        <3>3. \A i \in 1..n : c[i] \in 0..9
            BY <1>1
        <3> QED BY <3>1, <3>2, <3>3
    <2>3. CASE k <= m
        <3>1. a[k] < b[k] /\ (b[k] < c[k] \/ b[k] = c[k])
            BY <2>1, <2>3 DEF DifferAt
        <3>2. a[k] < c[k]
            BY <2>2, <3>1
        <3>3. \A i \in 1..n : i < k => a[i] = c[i]
            <4>1. \A i \in 1..n : i < k => i < m
                BY <2>3
            <4> QED BY <2>1, <4>1 DEF DifferAt
        <3>4. DifferAt(a, c, k, n)
            BY <3>2, <3>3 DEF DifferAt
        <3> QED BY <1>1, <3>4
    <2>4. CASE m < k
        <3>1. a[m] = b[m] /\ b[m] < c[m]
            BY <2>1, <2>4 DEF DifferAt
        <3>2. \A i \in 1..n : i < m => a[i] = c[i]
            <4>1. \A i \in 1..n : i < m => i < k
                BY <2>4
            <4> QED BY <2>1, <4>1 DEF DifferAt
        <3>3. DifferAt(a, c, m, n)
            BY <3>1, <3>2 DEF DifferAt
        <3> QED BY <1>1, <3>3
    <2> QED BY <2>3, <2>4
<1>4. ASSUME NEW a \in VersionTexts, NEW b \in VersionTexts, a # b
      PROVE  <<a, b>> \in Texts!TextOrder \/ <<b, a>> \in Texts!TextOrder
    <2>1. a = [i \in 1..n |-> a[i]] /\ b = [i \in 1..n |-> b[i]]
        <3>1. \A t : IsText(t, n) => t = [i \in 1..n |-> t[i]]
            BY DEF IsText
        <3> QED BY <3>1
    <2> DEFINE T == {i \in 1..n : a[i] # b[i]}
    <2>2. T \in SUBSET Nat /\ T # {}
        BY <1>4, <2>1
    <2> HIDE DEF T
    <2>3. PICK k \in T : \A i \in T : k <= i
        BY <2>2, LeastOne
    <2> USE DEF T
    <2>4. k \in 1..n /\ a[k] # b[k] /\ \A i \in 1..n : i < k => a[i] = b[i]
        BY <2>3
    <2>5. a[k] < b[k] \/ b[k] < a[k]
        <3>1. a[k] \in 0..9 /\ b[k] \in 0..9
            BY <1>1, <2>4
        <3> QED BY <2>4, <3>1
    <2>6. DifferAt(a, b, k, n) \/ DifferAt(b, a, k, n)
        BY <2>4, <2>5 DEF DifferAt
    <2> QED BY <1>1, <2>4, <2>6
<1>5. Orders(Texts!TextOrder, VersionTexts)
    BY <1>2, <1>3, <1>4 DEF Orders
<1>6. Texts!FileOrder = Texts!TextOrder
    <2>1. ASSUME NEW x \in VersionTexts \X VersionTexts
          PROVE  Texts!FileBefore(x[1], x[2]) <=> Texts!TextBefore(x[1], x[2])
        <3>1. IsText(x[1], n) /\ IsText(x[2], n)
            OBVIOUS
        <3> QED BY <3>1, FileBeforeIs
    <2> QED BY <2>1 DEF Texts!FileOrder, Texts!TextOrder
<1> QED BY <1>5, <1>6

\* A file is older than some row when it is older than the last one.
LEMMA LastIsNewest ==
    ASSUME NEW before, NEW S, Orders(before, S), NEW R, R \subseteq S, R # {},
           NEW s, Lists(s, R, before), NEW v \in S
    PROVE  <<v, Last(s)>> \in before <=> OlderThanSome(R, before, v)
<1>1. s \in Seq(R) /\ Len(s) \in Nat /\ \A r \in R : \E i \in 1..Len(s) : s[i] = r
    BY SMTT(60) DEF Lists
<1>2. Len(s) \in 1..Len(s)
    BY <1>1
<1>3. Last(s) = s[Len(s)] /\ Last(s) \in R
    BY <1>1, <1>2 DEF Last
<1>4. ASSUME NEW r \in R PROVE r = Last(s) \/ <<r, Last(s)>> \in before
    <2>1. PICK i \in 1..Len(s) : s[i] = r
        BY <1>1
    <2>2. i = Len(s) \/ i < Len(s)
        BY <1>1
    <2> QED BY <1>2, <1>3, <2>1, <2>2 DEF Lists
<1> QED BY <1>3, <1>4 DEF Orders, OlderThanSome

\* The merge of texts finds the files without a row, by the lemma on any order.
LEMMA TextsFound ==
    ASSUME IsFiniteSet(VersionTexts), NEW n \in Nat, \A t \in VersionTexts : IsText(t, n),
           textFiles \subseteq VersionTexts, textRows \subseteq VersionTexts
    PROVE  Texts!FindsPending /\ Texts!IncludesAll
<1> DEFINE F == textFiles
           R == textRows
           O == Texts!TextOrder
<1>1. Orders(O, VersionTexts) /\ Texts!FileOrder = O
    BY TextsAreOrdered
<1>2. IsFiniteSet(F) /\ IsFiniteSet(R) /\ Orders(O, F \union R) /\ Orders(O, R)
    BY <1>1, FS_Subset DEF Orders
<1>3. /\ \A set, before : Texts!Sorted(set, before) = Sorted(set, before)
      /\ \A e, l : Texts!Outcome(e, l) = Outcome(e, l)
    <2>1. \A set, before : Texts!Sorted(set, before) = Sorted(set, before)
        BY DEF Texts!Sorted, Sorted, Texts!Cardinality, Cardinality, Texts!IsFiniteSet, IsFiniteSet
    <2>2. \A e, l : Texts!Outcome(e, l) = Outcome(e, l)
        BY DEF Texts!Outcome, Outcome
    <2> QED BY <2>1, <2>2
<1>4. Texts!Local = Sorted(F, O) /\ Texts!Remote = Sorted(R, O)
    BY <1>1, <1>3 DEF Texts!Local, Texts!Remote
<1>5. Texts!Found = FindPendingMigrations(Sorted(F, O), Sorted(R, O), O)
    BY <1>4, SameMerge DEF Texts!Found
<1>6. Texts!FoundAll = GetPendingMigrations(Sorted(F, O), Sorted(R, O), TRUE, O)
    BY <1>4, SameMerge DEF Texts!FoundAll
<1>7. /\ FindPendingMigrations(Sorted(F, O), Sorted(R, O), O) = PendingOf(F, R, O)
      /\ R \subseteq F =>
            GetPendingMigrations(Sorted(F, O), Sorted(R, O), TRUE, O) = Outcome("none", Sorted(F \ R, O))
    BY <1>2, PendingFound
<1>8. Texts!OutOfOrder = Late(F, R, O)
    <2>1. ASSUME NEW v \in F \ R
          PROVE  (R # {} /\ Texts!TextBefore(v, Texts!Last(Texts!Remote))) <=> OlderThanSome(R, O, v)
        <3>1. CASE R = {}
            BY <3>1 DEF OlderThanSome
        <3>2. CASE R # {}
            <4>1. Lists(Sorted(R, O), R, O)
                BY <1>2, SortedLists
            <4>2. <<v, Last(Sorted(R, O))>> \in O <=> OlderThanSome(R, O, v)
                BY <1>1, <3>2, <4>1, LastIsNewest
            <4>3. Texts!Last(Texts!Remote) = Last(Sorted(R, O))
                BY <1>4 DEF Texts!Last, Last
            <4>4. Last(Sorted(R, O)) \in VersionTexts
                <5>1. PICK s : s = Sorted(R, O)
                    OBVIOUS
                <5>2. s \in Seq(R) /\ \A r \in R : \E i \in 1..Len(s) : s[i] = r
                    BY <4>1, <5>1 DEF Lists
                <5>3. Len(s) \in Nat /\ Len(s) # 0
                    BY <3>2, <5>2
                <5>4. Last(s) \in R
                    BY <5>2, <5>3 DEF Last
                <5> QED BY <5>1, <5>4
            <4>5. PICK u \in VersionTexts : u = Last(Sorted(R, O))
                BY <4>4
            <4>6. <<v, u>> \in O <=> Texts!TextBefore(v, u)
                <5>1. <<v, u>> \in VersionTexts \X VersionTexts /\ <<v, u>>[1] = v /\ <<v, u>>[2] = u
                    OBVIOUS
                <5> QED BY <5>1 DEF Texts!TextOrder
            <4> QED BY <3>2, <4>2, <4>3, <4>5, <4>6
        <3> QED BY <3>1, <3>2
    <2>2. Texts!OutOfOrder = {v \in F \ R : R # {} /\ Texts!TextBefore(v, Texts!Last(Texts!Remote))}
        BY DEF Texts!OutOfOrder
    <2> HIDE DEF F, R, O
    <2> QED BY <2>1, <2>2 DEF Late
<1> HIDE DEF F, R, O
<1>9. Texts!FindsPending
    <2>1. PendingOf(F, R, O) =
            IF R \ F # {} THEN Outcome("missing local", Sorted(R \ F, O))
            ELSE IF Late(F, R, O) # {} THEN Outcome("missing remote", Sorted(Late(F, R, O), O))
            ELSE Outcome("none", Sorted(F \ R, O))
        BY DEF PendingOf
    <2>2. Texts!FindsPending <=> Texts!Found =
            IF R \ F # {} THEN Texts!Outcome("missing local", Texts!Sorted(R \ F, O))
            ELSE IF Texts!OutOfOrder # {} THEN Texts!Outcome("missing remote", Texts!Sorted(Texts!OutOfOrder, O))
            ELSE Texts!Outcome("none", Texts!Sorted(F \ R, O))
        BY <1>1 DEF Texts!FindsPending, F, R, O
    <2> QED BY <1>3, <1>5, <1>7, <1>8, <2>1, <2>2
<1>10. Texts!IncludesAll
    <2>1. Texts!IncludesAll <=>
            (R \subseteq F => Texts!FoundAll = Texts!Outcome("none", Texts!Sorted(F \ R, O)))
        BY <1>1 DEF Texts!IncludesAll, F, R, O
    <2> QED BY <1>3, <1>6, <1>7, <2>1
<1> QED BY <1>9, <1>10

\* The texts of the run are pairs of digits.
LEMMA TextsOfTheRun == IsFiniteSet(VersionTexts) /\ \A t \in VersionTexts : IsText(t, 2)
<1>1. VersionTexts = {<<0, 0>>, <<0, 3>>, <<2, 0>>, <<2, 3>>, <<1, 9>>, <<2, 1>>}
    <2>1. {0, 2} \X {0, 3} = {<<0, 0>>, <<0, 3>>, <<2, 0>>, <<2, 3>>}
        OBVIOUS
    <2> QED BY <2>1 DEF VersionTexts
<1>2. IsFiniteSet({<<0, 0>>, <<0, 3>>, <<2, 0>>, <<2, 3>>, <<1, 9>>, <<2, 1>>})
    <2>1. IsFiniteSet({})
        BY FS_EmptySet
    <2>2. \A set, x : IsFiniteSet(set) => IsFiniteSet(set \union {x})
        BY FS_AddElement
    <2> DEFINE A == {} \union {<<0, 0>>}
               B == A \union {<<0, 3>>}
               C == B \union {<<2, 0>>}
               D == C \union {<<2, 3>>}
               E == D \union {<<1, 9>>}
               G == E \union {<<2, 1>>}
    <2>3. G = {<<0, 0>>, <<0, 3>>, <<2, 0>>, <<2, 3>>, <<1, 9>>, <<2, 1>>}
        BY Zenon
    <2>4. IsFiniteSet(A)
        BY <2>1, <2>2
    <2> HIDE DEF A
    <2>5. IsFiniteSet(B)
        BY <2>2, <2>4
    <2> HIDE DEF B
    <2>6. IsFiniteSet(C)
        BY <2>2, <2>5
    <2> HIDE DEF C
    <2>7. IsFiniteSet(D)
        BY <2>2, <2>6
    <2> HIDE DEF D
    <2>8. IsFiniteSet(E)
        BY <2>2, <2>7
    <2> HIDE DEF E
    <2>9. IsFiniteSet(G)
        BY <2>2, <2>8
    <2> QED BY <2>3, <2>9
<1>3. \A a \in 0..9, b \in 0..9 : IsText(<<a, b>>, 2)
    BY DEF IsText
<1>4. IsText(<<0, 0>>, 2) /\ IsText(<<0, 3>>, 2) /\ IsText(<<2, 0>>, 2) /\ IsText(<<2, 3>>, 2)
      /\ IsText(<<1, 9>>, 2) /\ IsText(<<2, 1>>, 2)
    BY <1>3
<1> QED BY <1>1, <1>2, <1>4

\* The two lists of versions are compared as the code should, for all files and
\* rows of the run (FindPendingMigrations, GetPendingMigrations).
LEMMA TextsFindPending ==
    ASSUME textFiles \subseteq VersionTexts, textRows \subseteq VersionTexts
    PROVE  FindsPending
BY TextsOfTheRun, TextsFound DEF FindsPending

-----------------------------------------------------------------------------
(* The theorems *)

HistoryInv == IInv /\ TypeInv /\ Written /\ Ordered /\ Lone

\* What the properties of states say, when the parts of the invariant hold.
LEMMA HistoryInvSays ==
    ASSUME Assumptions, HistoryInv
    PROVE  TypeOK /\ HistoryTellsWhatRan /\ RunsInOrder /\ UpToDateMeansRun /\ RanIsWritten
BY IInvTells, TypeInvSays, WrittenSays, OrderedSays, UpToDate DEF HistoryInv

\* The five parts hold at first.
LEMMA HistoryInvInit == ASSUME Assumptions, Init PROVE HistoryInv
BY InitHolds, TypeInit, WrittenInit, OrderedInit, LoneInit DEF HistoryInv

\* Every step keeps what the table tells.
LEMMA IInvStep == ASSUME Assumptions, IInv, [Next]_vars PROVE IInv'
<1>1. CASE UNCHANGED vars
    BY <1>1 DEF vars, IInv, Shape, Plain, Own, Told
<1> QED BY <1>1, NextStep

\* The five parts are inductive together.
LEMMA HistoryInvNext == ASSUME Assumptions, HistoryInv, [Next]_vars PROVE HistoryInv'
BY IInvStep, TypeStep, WrittenStep, OrderedStep, LoneStep DEF HistoryInv

\* What the properties of steps say.
LEMMA HistorySteps ==
    ASSUME Assumptions, HistoryInv, HistoryInv'
    PROVE  DownKeepsTheRestStep /\ RepairsAgreeStep
BY LoneSays, Agree DEF HistoryInv

\* The five parts hold always.
LEMMA HistoryInvAlways == ASSUME Assumptions PROVE Spec => []HistoryInv
BY HistoryInvInit, HistoryInvNext, PTL DEF Spec

\* The files, the rows and the commands of the checkouts hold versions that
\* have been written.
THEOREM TypeOKAlways == ASSUME Assumptions PROVE Spec => []TypeOK
BY HistoryInvAlways, HistoryInvSays, PTL

\* However many developers push, go down and fetch at the same time, and
\* whenever their commands are cut short, the rows of the history table are
\* the migrations that ran, each of which ran once (ExecBatch).
THEOREM HistoryTells == ASSUME Assumptions PROVE Spec => []HistoryTellsWhatRan
BY HistoryInvAlways, HistoryInvSays, PTL

\* Where one developer pushes, for any number of writers and of migrations, no
\* migration is run after a newer one (FindPendingMigrations).
THEOREM RunsInOrderAlways == ASSUME Assumptions PROVE Spec => []RunsInOrder
BY HistoryInvAlways, HistoryInvSays, PTL

\* A push that finds nothing to do means that every file of the checkout was
\* run; and what was run is written down in a file of somebody, whatever is
\* squashed, pulled and removed, and whenever these are cut short, unless old
\* rows are fetched over the files, or it stood in the file that a squash cut
\* and did not dump (squashMigrations).
THEOREM FilesAreRunAlways == ASSUME Assumptions PROVE Spec => []FilesAreRun
BY HistoryInvAlways, HistoryInvSays, PTL DEF FilesAreRun

\* A down of a developer on his own, that ends well, has kept the rows it
\* promised to keep, and no others (ResetAll).
THEOREM DownKeepsTheRestAlways == ASSUME Assumptions PROVE Spec => [][DownKeepsTheRestStep]_vars
BY HistoryInvAlways, HistoryInvNext, HistorySteps, PTL DEF Spec

\* A repair of the whole table, and a fetch, leave no row without a file.
THEOREM RepairsAgreeAlways == ASSUME Assumptions PROVE Spec => [][RepairsAgreeStep]_vars
BY HistoryInvAlways, HistoryInvNext, HistorySteps, PTL DEF Spec
=============================================================================
