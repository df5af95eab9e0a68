------------------------- MODULE SqlTokenizerProofs -------------------------
(***************************************************************************)
(* Theorem, for scripts of any length over any symbols: a migration is cut *)
(* exactly where its statements end, apart from what Misread and Nested    *)
(* name (CutsAtEnds).                                                      *)
(*                                                                         *)
(* All that the tokenizer keeps is what the text has made of it, symbol by *)
(* symbol: that is the invariant, TraceInv.  The rest is about texts.  The *)
(* lexemes of a text and the groups that are open after each symbol are    *)
(* recursive functions; LexemesDo, GroupsDo and NextStateDo say that they  *)
(* and NextState have the values that their definitions ask for, and Climb *)
(* goes through a text.  A state Fits a text when                          *)
(*   - its groups are the groups that are open there (Wrap), and           *)
(*   - its innermost state is that of a place between lexemes (Rest, which *)
(*     leaves room for a "-" or a tag that hides nothing) or of a place in *)
(*     a lexeme that has not ended (Inside).                               *)
(* One symbol leads from a state that fits to one that fits, or to Emit    *)
(* where a statement ends (StepFits); and so what was cut is where         *)
(* statements end (TraceCuts).                                             *)
(***************************************************************************)
EXTENDS SqlTokenizer, FiniteSetTheorems, SequenceTheorems, WellFoundedInduction, TLAPS

-----------------------------------------------------------------------------
(* Numbers *)

\* A set of numbers has a least one.
LEMMA LeastOne ==
    ASSUME NEW T \in SUBSET Nat, T # {}
    PROVE  \E n \in T : \A m \in T : n <= m
<1>1. PICK R : R = OpToRel(<, Nat)
    OBVIOUS
<1>2. IsWellFoundedOn(R, Nat)
    BY <1>1, NatLessThanWellFounded
<1>3. R = {x \in Nat \X Nat : x[1] < x[2]}
    BY <1>1 DEF OpToRel
<1>4. PICK n \in T : \A m \in T : ~(<<m, n>> \in R)
    BY <1>2, WFMin
<1>5. \A m \in T : ~(m < n)
    BY <1>3, <1>4
<1> QED BY <1>5

\* What is in a set with 0 and with the next of each member.
LEMMA Climb ==
    ASSUME NEW T, 0 \in T, \A n \in Nat : n \in T => n + 1 \in T
    PROVE  \A n \in Nat : n \in T
<1>1. SUFFICES ASSUME Nat \ T # {} PROVE FALSE
    OBVIOUS
<1>2. PICK n \in Nat \ T : \A m \in Nat \ T : n <= m
    BY <1>1, LeastOne
<1>3. n # 0 /\ n - 1 \in Nat /\ n - 1 \notin Nat \ T
    BY <1>2
<1>4. (n - 1) + 1 = n
    BY <1>2
<1> QED BY <1>2, <1>3, <1>4

-----------------------------------------------------------------------------
(* The recursive functions do what their definitions say *)

\* Where lexemes begin.
LEMMA LexemesDo ==
    ASSUME NEW t, Len(t) \in Nat
    PROVE  /\ Lexemes(t) \subseteq 1..Len(t)
           /\ \A j \in 1..Len(t) :
                 j \in Lexemes(t) <=> j = 1 \/ \E i \in 1..(j - 1) : i \in Lexemes(t) /\ LexemeEnd(t, i) = j - 1
<1> DEFINE N == Len(t)
           Body(f, j) == j = 1 \/ \E i \in 1..(j - 1) : f[i] /\ LexemeEnd(t, i) = j - 1
           Good(f, n) == f \in [1..N -> BOOLEAN] /\ \A j \in 1..N : j <= n => f[j] = Body(f, j)
           T == {n \in Nat : \E f : Good(f, n)}
<1>1. 0 \in T
    <2>1. PICK f : f = [j \in 1..N |-> FALSE]
        OBVIOUS
    <2>2. f \in [1..N -> BOOLEAN] /\ \A j \in 1..N : ~(j <= 0)
        BY <2>1
    <2> QED BY <2>2
<1>2. ASSUME NEW n \in Nat, n \in T PROVE n + 1 \in T
    <2>1. PICK f : Good(f, n)
        BY <1>2
    <2>2. PICK g : g = [j \in 1..N |-> IF j <= n THEN f[j] ELSE Body(f, j)]
        OBVIOUS
    <2>3. g \in [1..N -> BOOLEAN]
        BY <2>1, <2>2
    <2>4. ASSUME NEW j \in 1..N, j <= n + 1 PROVE g[j] = Body(g, j)
        <3>1. \A i \in 1..(j - 1) : g[i] = f[i]
            BY <2>2, <2>4
        <3>2. Body(g, j) = Body(f, j)
            BY <3>1
        <3>3. CASE j <= n
            BY <3>2, <3>3, <2>1, <2>2
        <3>4. CASE ~(j <= n)
            BY <3>2, <3>4, <2>2
        <3> QED BY <3>3, <3>4
    <2> QED BY <2>3, <2>4
<1>3. N \in T
    <2> HIDE DEF T
    <2> QED BY <1>1, <1>2, Climb
<1>4. PICK f : Good(f, N)
    BY <1>3
<1>5. f = [j \in 1..N |-> Body(f, j)]
    <2>1. \A j \in 1..N : f[j] = Body(f, j)
        BY <1>4
    <2>2. f \in [1..N -> BOOLEAN]
        BY <1>4
    <2> HIDE DEF Body, N
    <2> QED BY <2>1, <2>2
<1>6. PICK b : b = (CHOOSE g : g = [j \in 1..N |-> Body(g, j)])
    OBVIOUS
<1>7. b = [j \in 1..N |-> Body(b, j)]
    <2> HIDE DEF Body, N
    <2> QED BY <1>5, <1>6
<1>8. Lexemes(t) = {j \in 1..N : b[j]}
    BY <1>6 DEF Lexemes
<1>9. \A j \in 1..N : b[j] = Body(b, j)
    <2> HIDE DEF Body, N
    <2> QED BY <1>7
<1>10. \A j \in 1..N : \A i \in 1..(j - 1) : i \in 1..N
    OBVIOUS
<1> QED BY <1>8, <1>9, <1>10

\* The groups after each symbol.
LEMMA GroupsDo ==
    ASSUME NEW t, Len(t) \in Nat, NEW L
    PROVE  /\ Groups(t, L)[0] = <<>>
           /\ \A i \in 1..Len(t) :
                 Groups(t, L)[i] = IF i \in L THEN Grouped(t, i, L, Groups(t, L)[i - 1]) ELSE Groups(t, L)[i - 1]
<1> DEFINE N == Len(t)
           Body(f, i) == IF i = 0 THEN <<>>
                         ELSE IF i \in L THEN Grouped(t, i, L, f[i - 1]) ELSE f[i - 1]
           Good(f, n) == f = [i \in 0..N |-> f[i]] /\ \A i \in 0..N : i < n => f[i] = Body(f, i)
           T == {n \in Nat : \E f : Good(f, n)}
<1>1. 0 \in T
    <2>1. PICK f : f = [j \in 0..N |-> FALSE]
        OBVIOUS
    <2>2. f = [j \in 0..N |-> f[j]] /\ \A j \in 0..N : ~(j < 0)
        BY <2>1
    <2> QED BY <2>2
<1>2. ASSUME NEW n \in Nat, n \in T PROVE n + 1 \in T
    <2>1. PICK f : Good(f, n)
        BY <1>2
    <2>2. PICK g : g = [j \in 0..N |-> IF j < n THEN f[j] ELSE Body(f, j)]
        OBVIOUS
    <2>3. g = [j \in 0..N |-> g[j]]
        BY <2>1, <2>2
    <2>4. ASSUME NEW j \in 0..N, j < n + 1 PROVE g[j] = Body(g, j)
        <3>1. j # 0 => g[j - 1] = f[j - 1]
            BY <2>2, <2>4
        <3>2. Body(g, j) = Body(f, j)
            BY <3>1
        <3>3. CASE j < n
            BY <3>2, <3>3, <2>1, <2>2
        <3>4. CASE ~(j < n)
            BY <3>2, <3>4, <2>2
        <3> QED BY <3>3, <3>4
    <2> QED BY <2>3, <2>4
<1>3. N + 1 \in T
    <2> HIDE DEF T
    <2> QED BY <1>1, <1>2, Climb
<1>4. PICK f : Good(f, N + 1)
    BY <1>3
<1>5. f = [j \in 0..N |-> Body(f, j)]
    <2>1. \A j \in 0..N : f[j] = Body(f, j)
        BY <1>4
    <2>2. f = [j \in 0..N |-> f[j]]
        BY <1>4
    <2> HIDE DEF Body, N
    <2> QED BY <2>1, <2>2
<1>6. Groups(t, L) = CHOOSE b : b = [j \in 0..N |-> Body(b, j)]
    BY DEF Groups
<1>7. Groups(t, L) = [j \in 0..N |-> Body(Groups(t, L), j)]
    <2> HIDE DEF Body, N
    <2> QED BY <1>5, <1>6
<1>8. \A j \in 0..N : Groups(t, L)[j] = Body(Groups(t, L), j)
    <2> HIDE DEF Body, N
    <2> QED BY <1>7
<1>9. 0 \in 0..N /\ \A i \in 1..N : i \in 0..N /\ i # 0
    OBVIOUS
<1> QED BY <1>8, <1>9

-----------------------------------------------------------------------------
(* Windows on a text *)

\* The end of a sequence, place by place.
LEMMA SuffixSays ==
    ASSUME NEW S, NEW data \in Seq(S), NEW w \in Seq(S)
    PROVE  EndsWith(data, w) <=> /\ Len(w) <= Len(data)
                                 /\ \A k \in 1..Len(w) : data[Len(data) - Len(w) + k] = w[k]
<1> DEFINE D == Len(data)
           W == Len(w)
<1>1. D \in Nat /\ W \in Nat
    OBVIOUS
<1>2. PICK rd : rd = Reverse(data)
    OBVIOUS
<1>3. PICK rw : rw = Reverse(w)
    OBVIOUS
<1>4. rd \in Seq(S) /\ Len(rd) = D /\ \A i \in 1..D : rd[i] = data[D - i + 1]
    <2>1. rd = [i \in 1..D |-> data[(D - i) + 1]]
        BY <1>2 DEF Reverse
    <2>2. \A i \in 1..D : data[(D - i) + 1] \in S
        BY <1>1
    <2> QED BY <2>1, <2>2, <1>1
<1>5. rw \in Seq(S) /\ Len(rw) = W /\ \A i \in 1..W : rw[i] = w[W - i + 1]
    <2>1. rw = [i \in 1..W |-> w[(W - i) + 1]]
        BY <1>3 DEF Reverse
    <2>2. \A i \in 1..W : w[(W - i) + 1] \in S
        BY <1>1
    <2> QED BY <2>1, <2>2, <1>1
<1>6. EndsWith(data, w) <=> W <= D /\ SubSeq(rw, 1, W) = SubSeq(rd, 1, W)
    BY <1>2, <1>3, <1>4, <1>5 DEF EndsWith, IsSuffix, IsPrefix
<1>7. CASE ~(W <= D)
    BY <1>6, <1>7
<1>8. CASE W <= D
    <2>1. SubSeq(rw, 1, W) = SubSeq(rd, 1, W) <=> \A i \in 1..W : rw[i] = rd[i]
        <3>1. /\ SubSeq(rw, 1, W) \in Seq(S) /\ Len(SubSeq(rw, 1, W)) = W
              /\ \A i \in 1..W : SubSeq(rw, 1, W)[i] = rw[i]
            BY <1>1, <1>5, SubSeqProperties
        <3>2. /\ SubSeq(rd, 1, W) \in Seq(S) /\ Len(SubSeq(rd, 1, W)) = W
              /\ \A i \in 1..W : SubSeq(rd, 1, W)[i] = rd[i]
            BY <1>1, <1>4, <1>8, SubSeqProperties
        <3> QED BY <3>1, <3>2, SeqEqual
    <2>2. ASSUME \A i \in 1..W : rw[i] = rd[i], NEW k \in 1..W PROVE data[D - W + k] = w[k]
        <3>1. W - k + 1 \in 1..W /\ W - k + 1 \in 1..D
            BY <1>1, <1>8
        <3>2. rw[W - k + 1] = w[W - (W - k + 1) + 1] /\ rd[W - k + 1] = data[D - (W - k + 1) + 1]
            BY <3>1, <1>4, <1>5
        <3>3. W - (W - k + 1) + 1 = k /\ D - (W - k + 1) + 1 = D - W + k
            BY <1>1
        <3>4. rw[W - k + 1] = rd[W - k + 1]
            BY <2>2, <3>1
        <3> QED BY <3>2, <3>3, <3>4
    <2>3. ASSUME \A k \in 1..W : data[D - W + k] = w[k], NEW i \in 1..W PROVE rw[i] = rd[i]
        <3>1. W - i + 1 \in 1..W /\ i \in 1..D
            BY <1>1, <1>8
        <3>2. rw[i] = w[W - i + 1] /\ rd[i] = data[D - i + 1]
            BY <3>1, <1>4, <1>5
        <3>3. D - W + (W - i + 1) = D - i + 1
            BY <1>1
        <3>4. data[D - W + (W - i + 1)] = w[W - i + 1]
            BY <2>3, <3>1
        <3> QED BY <3>2, <3>3, <3>4
    <2> QED BY <1>6, <1>8, <2>1, <2>2, <2>3
<1> QED BY <1>7, <1>8

\* A window on a text, place by place.
LEMMA HasSays ==
    ASSUME NEW t \in Seq(Symbols), NEW w \in Seq(Symbols), NEW i \in Nat \ {0}
    PROVE  Has(t, i, w) <=> i + Len(w) - 1 <= Len(t) /\ \A k \in 1..Len(w) : t[i + k - 1] = w[k]
<1> DEFINE W == Len(w)
<1>1. W \in Nat /\ Len(t) \in Nat
    OBVIOUS
<1>2. CASE ~(i + W - 1 <= Len(t))
    BY <1>2 DEF Has
<1>3. CASE i + W - 1 <= Len(t)
    <2>1. \A k \in i..(i + W - 1) : t[k] \in Symbols
        BY <1>1, <1>3
    <2>2. /\ SubSeq(t, i, i + W - 1) \in Seq(Symbols)
          /\ Len(SubSeq(t, i, i + W - 1)) = W
          /\ \A k \in 1..W : SubSeq(t, i, i + W - 1)[k] = t[i + k - 1]
        <3>1. i \in Int /\ i + W - 1 \in Int
            BY <1>1
        <3>2. i <= i + W - 1 => (i + W - 1) - i + 1 = W
            BY <1>1
        <3>3. ~(i <= i + W - 1) => W = 0
            BY <1>1
        <3>4. (i + W - 1) - i + 1 = W
            BY <1>1
        <3> QED BY <2>1, <3>1, <3>2, <3>3, <3>4, SubSeqProperties
    <2> QED BY <1>3, <2>2, SeqEqual DEF Has
<1> QED BY <1>2, <1>3

\* The symbols of a statement that were read: nothing, or a separator, before.
Separated(t, s, n) == s \in Nat /\ s < n /\ (s = 0 \/ t[s] = "semicolon")

\* What was read ends with a window that has no separator: the text does.
LEMMA EndsWithSays ==
    ASSUME NEW t \in Seq(Symbols), NEW n \in 1..Len(t), NEW s, Separated(t, s, n),
           NEW w \in Seq(Symbols), \A k \in 1..Len(w) : w[k] # "semicolon", w # <<>>
    PROVE  EndsWith(SubSeq(t, s + 1, n), w) <=> Len(w) <= n /\ Has(t, n - Len(w) + 1, w)
<1> DEFINE W == Len(w)
           D == SubSeq(t, s + 1, n)
<1>1. W \in Nat /\ W >= 1 /\ Len(t) \in Nat /\ s \in Nat /\ s < n /\ n \in Nat /\ n <= Len(t)
    <2>1. s \in Nat /\ s < n
        BY DEF Separated
    <2>2. W \in Nat \ {0}
        BY EmptySeq
    <2>3. Len(t) \in Nat
        BY LenProperties
    <2> QED BY <2>1, <2>2, <2>3
<1>2. D \in Seq(Symbols) /\ Len(D) = n - s /\ \A k \in 1..(n - s) : D[k] = t[s + k]
    <2>1. \A k \in (s + 1)..n : t[k] \in Symbols
        BY <1>1
    <2>2. n - (s + 1) + 1 = n - s /\ \A k \in 1..(n - s) : (s + 1) + k - 1 = s + k
        BY <1>1
    <2>3. s + 1 \in Int /\ n \in Int /\ s + 1 <= n
        BY <1>1
    <2> HIDE DEF D
    <2>4. D = SubSeq(t, s + 1, n)
        BY DEF D
    <2> QED BY <2>1, <2>2, <2>3, <2>4, SubSeqProperties
<1>3. EndsWith(D, w) <=> W <= n - s /\ \A k \in 1..W : D[n - s - W + k] = w[k]
    <2> HIDE DEF D
    <2>1. EndsWith(D, w) <=> Len(w) <= Len(D) /\ \A k \in 1..Len(w) : D[Len(D) - Len(w) + k] = w[k]
        <3>1. D \in Seq(Symbols)
            BY <1>2
        <3> QED BY <3>1, SuffixSays, Zenon
    <2> QED BY <1>2, <2>1
<1>4. ASSUME W <= n - s PROVE \A k \in 1..W : D[n - s - W + k] = t[n - W + k]
    <2>1. \A k \in 1..W : n - s - W + k \in 1..(n - s) /\ s + (n - s - W + k) = n - W + k
        BY <1>1, <1>4
    <2> QED BY <2>1, <1>2
<1>5. ASSUME W <= n PROVE Has(t, n - W + 1, w) <=> \A k \in 1..W : t[n - W + k] = w[k]
    <2>1. n - W + 1 \in Nat \ {0} /\ n - W + 1 + W - 1 <= Len(t)
        BY <1>1, <1>5
    <2>2. \A k \in 1..W : n - W + 1 + k - 1 = n - W + k
        BY <1>1
    <2> QED BY <2>1, <2>2, HasSays
<1>6. ASSUME W <= n, Has(t, n - W + 1, w) PROVE W <= n - s
    <2>1. SUFFICES ASSUME ~(W <= n - s) PROVE FALSE
        OBVIOUS
    <2>2. s # 0 /\ t[s] = "semicolon"
        BY <2>1, <1>1, <1>6 DEF Separated
    <2>3. s - n + W \in 1..W /\ n - W + (s - n + W) = s
        BY <2>1, <1>1
    <2> QED BY <2>2, <2>3, <1>5, <1>6
<1>7. W <= n - s => W <= n
    BY <1>1
<1> HIDE DEF D, W
<1> QED BY <1>3, <1>4, <1>5, <1>6, <1>7 DEF D, W

-----------------------------------------------------------------------------
(* The groups of a state *)

\* What a group makes of what the state inside it has become.
Around(s, k, inner, data) ==
    LET prev == IF inner = Emit THEN SubSeq(s, k + 1, Len(s)) ELSE inner
    IN  IF prev = Ready /\ EndsWith(data, s[k].delimiter) THEN Ready ELSE <<s[k]>> \o prev

\* What the levels of a state become, by number.
Levels(s, r, data, F) ==
    /\ F = [k \in 1..Len(s) |-> F[k]]
    /\ F[Len(s)] = FromInnermost(s[Len(s)], r, data)
    /\ \A k \in 1..(Len(s) - 1) : F[k] = Around(s, k, F[k + 1], data)

\* NextState is what the levels of a state become from the inside out.
LEMMA LevelsDo ==
    ASSUME NEW s, Len(s) \in Nat, Len(s) # 0, NEW r, NEW data, NEW F, Levels(s, r, data, F)
    PROVE  NextState(s, r, data) = F[1]
<1> DEFINE N == Len(s)
           Body(f, k) == IF k = N THEN FromInnermost(s[k], r, data)
                         ELSE LET inner == f[k + 1]
                                  prev == IF inner = Emit THEN SubSeq(s, k + 1, N) ELSE inner
                              IN  IF prev = Ready /\ EndsWith(data, s[k].delimiter) THEN Ready
                                  ELSE <<s[k]>> \o prev
<1>1. ASSUME NEW k \in 1..N PROVE F[k] = Body(F, k)
    <2>1. CASE k = N
        BY <2>1 DEF Levels
    <2>2. CASE k # N
        <3>1. k \in 1..(N - 1)
            BY <2>2
        <3>2. F[k] = Around(s, k, F[k + 1], data)
            BY <3>1 DEF Levels
        <3> QED BY <3>2, <2>2, Zenon DEF Around
    <2> QED BY <2>1, <2>2
<1>2. F = [k \in 1..N |-> Body(F, k)]
    <2>1. F = [k \in 1..N |-> F[k]]
        BY DEF Levels
    <2> HIDE DEF Body
    <2> QED BY <1>1, <2>1
<1>3. PICK f : f = (CHOOSE g : g = [k \in 1..N |-> Body(g, k)])
    OBVIOUS
<1>4. f = [k \in 1..N |-> Body(f, k)]
    <2> HIDE DEF Body
    <2> QED BY <1>2, <1>3
<1>5. \A k \in 1..N : f[k] = Body(f, k)
    <2> HIDE DEF Body
    <2> QED BY <1>4
<1>6. NextState(s, r, data) = f[1]
    BY <1>3 DEF NextState
<1> DEFINE T == {n \in Nat : n < N => f[N - n] = F[N - n]}
<1>7. 0 \in T
    <2>1. N \in 1..N /\ N - 0 = N
        OBVIOUS
    <2>2. Body(f, N) = Body(F, N)
        OBVIOUS
    <2>3. f[N] = F[N]
        BY <1>1, <1>5, <2>1, <2>2
    <2> QED BY <2>1, <2>3
<1>8. ASSUME NEW n \in Nat, n \in T PROVE n + 1 \in T
    <2>1. SUFFICES ASSUME n + 1 < N PROVE f[N - (n + 1)] = F[N - (n + 1)]
        OBVIOUS
    <2>2. PICK k : k = N - (n + 1)
        OBVIOUS
    <2>3. k \in 1..N /\ k # N /\ k + 1 = N - n
        BY <2>1, <2>2
    <2>4. f[k + 1] = F[k + 1]
        BY <1>8, <2>1, <2>3
    <2>5. Body(f, k) = Body(F, k)
        BY <2>4
    <2> QED BY <1>1, <1>5, <2>2, <2>3, <2>5
<1>9. N - 1 \in T
    <2> HIDE DEF T
    <2>1. N - 1 \in Nat
        OBVIOUS
    <2> QED BY <1>7, <1>8, <2>1, Climb
<1> QED BY <1>6, <1>9

\* What closes a group.
Delimiters == {")", "END"}

\* The groups of a state, which are given from the inside out.
Wrap(g) == [k \in 1..Len(g) |-> [kind |-> "atomic", delimiter |-> <<g[Len(g) + 1 - k]>>]]

\* The states of which the innermost consist, and the groups.
Pieces == [kind : {"ready", "comment", "escape"}]
          \union [kind : {"block"}, depth : Int]
          \union [kind : {"quote"}, delimiter : Quotes, escape : BOOLEAN]
          \union [kind : {"dollar", "atomic"}, delimiter : Seq(Symbols)]
          \union [kind : {"tag"}, offset : Int]

\* The groups of a state are pieces of it, the outermost first.
LEMMA WrapType ==
    ASSUME NEW g \in Seq(Delimiters)
    PROVE  /\ Wrap(g) \in Seq(Pieces) /\ Len(Wrap(g)) = Len(g)
           /\ \A k \in 1..Len(g) : Wrap(g)[k] = [kind |-> "atomic", delimiter |-> <<g[Len(g) + 1 - k]>>]
<1>1. Len(g) \in Nat
    OBVIOUS
<1>2. ASSUME NEW k \in 1..Len(g)
      PROVE  [kind |-> "atomic", delimiter |-> <<g[Len(g) + 1 - k]>>] \in Pieces
    <2>1. Len(g) + 1 - k \in 1..Len(g)
        BY <1>1
    <2>2. g[Len(g) + 1 - k] \in Symbols
        BY <2>1 DEF Delimiters, Symbols
    <2>3. <<g[Len(g) + 1 - k]>> \in Seq(Symbols)
        BY <2>2
    <2> QED BY <2>3 DEF Pieces
<1> QED BY <1>1, <1>2 DEF Wrap

\* Two parts of a state.
LEMMA Joined ==
    ASSUME NEW u \in Seq(Pieces), NEW v \in Seq(Pieces)
    PROVE  /\ u \o v \in Seq(Pieces) /\ Len(u \o v) = Len(u) + Len(v)
           /\ \A i \in 1..(Len(u) + Len(v)) : (u \o v)[i] = IF i <= Len(u) THEN u[i] ELSE v[i - Len(u)]
    BY ConcatProperties

\* One group more, on the inside: it is the last before the innermost state.
LEMMA WrapCons ==
    ASSUME NEW g \in Seq(Delimiters), NEW d \in Delimiters, NEW rest \in Seq(Pieces)
    PROVE  Wrap(<<d>> \o g) \o rest = Wrap(g) \o (Atomic(<<d>>) \o rest)
<1> DEFINE h == <<d>> \o g
           a == Atomic(<<d>>) \o rest
           G == Len(g)
           R == Len(rest)
<1>1. G \in Nat /\ R \in Nat
    OBVIOUS
<1>2. h \in Seq(Delimiters) /\ Len(h) = G + 1 /\ h[1] = d /\ \A k \in 1..G : h[k + 1] = g[k]
    <2>1. <<d>> \in Seq(Delimiters) /\ Len(<<d>>) = 1 /\ <<d>>[1] = d
        OBVIOUS
    <2>2. /\ h \in Seq(Delimiters) /\ Len(h) = 1 + G
          /\ \A i \in 1..(1 + G) : h[i] = IF i <= 1 THEN <<d>>[i] ELSE g[i - 1]
        BY <2>1, ConcatProperties
    <2>3. \A k \in 1..G : k + 1 \in 1..(1 + G) /\ ~(k + 1 <= 1) /\ (k + 1) - 1 = k
        BY <1>1
    <2> HIDE DEF h
    <2> QED BY <1>1, <2>1, <2>2, <2>3
<1>3. a \in Seq(Pieces) /\ Len(a) = R + 1 /\ a[1] = [kind |-> "atomic", delimiter |-> <<d>>]
      /\ \A k \in 1..R : a[k + 1] = rest[k]
    <2>1. PICK one : one = Atomic(<<d>>)
        OBVIOUS
    <2>2. d \in Symbols
        BY DEF Symbols, Delimiters
    <2>3. one \in Seq(Pieces) /\ Len(one) = 1 /\ one[1] = [kind |-> "atomic", delimiter |-> <<d>>]
        BY <2>1, <2>2 DEF Atomic, Pieces
    <2>4. /\ a \in Seq(Pieces) /\ Len(a) = 1 + R
          /\ \A i \in 1..(1 + R) : a[i] = IF i <= 1 THEN one[i] ELSE rest[i - 1]
        <3>1. a = one \o rest
            BY <2>1
        <3> HIDE DEF a
        <3> QED BY <3>1, <2>3, ConcatProperties
    <2>5. \A k \in 1..R : k + 1 \in 1..(1 + R) /\ ~(k + 1 <= 1) /\ (k + 1) - 1 = k
        BY <1>1
    <2> HIDE DEF a
    <2> QED BY <1>1, <2>3, <2>4, <2>5
<1> HIDE DEF h, a
<1>4. PICK left : left = Wrap(h) \o rest
    OBVIOUS
<1>5. /\ left \in Seq(Pieces) /\ Len(left) = G + 1 + R
      /\ \A i \in 1..(G + 1 + R) : left[i] = IF i <= G + 1 THEN Wrap(h)[i] ELSE rest[i - (G + 1)]
    <2>1. PICK w : w = Wrap(h)
        OBVIOUS
    <2>2. w \in Seq(Pieces) /\ Len(w) = G + 1
        BY <2>1, <1>2, WrapType
    <2>3. left = w \o rest
        BY <1>4, <2>1
    <2>4. /\ left \in Seq(Pieces) /\ Len(left) = (G + 1) + R
          /\ \A i \in 1..((G + 1) + R) : left[i] = IF i <= G + 1 THEN w[i] ELSE rest[i - (G + 1)]
        <3>1. /\ w \o rest \in Seq(Pieces) /\ Len(w \o rest) = Len(w) + Len(rest)
              /\ \A i \in 1..(Len(w) + Len(rest)) :
                    (w \o rest)[i] = IF i <= Len(w) THEN w[i] ELSE rest[i - Len(w)]
            BY <2>2, Joined, Zenon
        <3> QED BY <3>1, <2>2, <2>3, Zenon
    <2> QED BY <2>1, <2>4
<1>6. PICK right : right = Wrap(g) \o a
    OBVIOUS
<1>7. /\ right \in Seq(Pieces) /\ Len(right) = G + (R + 1)
      /\ \A i \in 1..(G + (R + 1)) : right[i] = IF i <= G THEN Wrap(g)[i] ELSE a[i - G]
    <2>1. PICK w : w = Wrap(g)
        OBVIOUS
    <2>2. w \in Seq(Pieces) /\ Len(w) = G
        BY <2>1, WrapType
    <2>3. right = w \o a
        BY <1>6, <2>1
    <2>4. /\ right \in Seq(Pieces) /\ Len(right) = G + (R + 1)
          /\ \A i \in 1..(G + (R + 1)) : right[i] = IF i <= G THEN w[i] ELSE a[i - G]
        <3>1. /\ w \o a \in Seq(Pieces) /\ Len(w \o a) = Len(w) + Len(a)
              /\ \A i \in 1..(Len(w) + Len(a)) :
                    (w \o a)[i] = IF i <= Len(w) THEN w[i] ELSE a[i - Len(w)]
            BY <1>3, <2>2, Joined, Zenon
        <3> QED BY <3>1, <1>3, <2>2, <2>3, Zenon
    <2> QED BY <2>1, <2>4
<1>8. ASSUME NEW i \in 1..(G + 1 + R) PROVE left[i] = right[i]
    <2>1. CASE i <= G
        <3>1. Wrap(h)[i] = [kind |-> "atomic", delimiter |-> <<h[G + 1 + 1 - i]>>]
            <4>1. i \in 1..(G + 1)
                BY <1>1, <2>1
            <4> QED BY <4>1, <1>2, WrapType
        <3>2. Wrap(g)[i] = [kind |-> "atomic", delimiter |-> <<g[G + 1 - i]>>]
            BY <1>1, <2>1, WrapType
        <3>3. G + 1 - i \in 1..G /\ (G + 1 - i) + 1 = G + 1 + 1 - i
            BY <1>1, <2>1
        <3>4. h[G + 1 + 1 - i] = g[G + 1 - i]
            BY <1>2, <3>3
        <3>5. left[i] = Wrap(h)[i] /\ right[i] = Wrap(g)[i]
            BY <1>1, <1>5, <1>7, <2>1
        <3> QED BY <3>1, <3>2, <3>4, <3>5
    <2>2. CASE i = G + 1
        <3>1. Wrap(h)[i] = [kind |-> "atomic", delimiter |-> <<h[1]>>]
            <4>1. i \in 1..(G + 1) /\ (G + 1) + 1 - i = 1
                BY <1>1, <2>2
            <4> QED BY <4>1, <1>2, WrapType
        <3>2. left[i] = Wrap(h)[i] /\ right[i] = a[1]
            <4>1. i <= G + 1 /\ ~(i <= G) /\ i - G = 1
                BY <1>1, <2>2
            <4> QED BY <4>1, <1>5, <1>7
        <3> QED BY <3>1, <3>2, <1>2, <1>3
    <2>3. CASE i > G + 1
        <3>1. i - (G + 1) \in 1..R /\ (i - (G + 1)) + 1 = i - G
            BY <1>1, <2>3
        <3>2. a[i - G] = rest[i - (G + 1)]
            BY <3>1, <1>3
        <3>3. left[i] = rest[i - (G + 1)] /\ right[i] = a[i - G]
            <4>1. ~(i <= G + 1) /\ ~(i <= G)
                BY <1>1, <2>3
            <4> QED BY <4>1, <1>5, <1>7
        <3> QED BY <3>2, <3>3
    <2> QED BY <1>1, <2>1, <2>2, <2>3
<1>9. left = right
    <2>1. Len(left) = Len(right) /\ Len(left) = G + 1 + R
        BY <1>1, <1>5, <1>7
    <2> QED BY <2>1, <1>5, <1>7, <1>8, SeqEqual
<1> QED BY <1>4, <1>6, <1>9 DEF h, a

\* A part of a state.
LEMMA PartSays ==
    ASSUME NEW x \in Seq(Pieces), NEW m \in Nat \ {0}, NEW n \in Nat, m <= n + 1, n <= Len(x)
    PROVE  /\ SubSeq(x, m, n) \in Seq(Pieces) /\ Len(SubSeq(x, m, n)) = n - m + 1
           /\ \A i \in 1..(n - m + 1) : SubSeq(x, m, n)[i] = x[m + i - 1]
<1>1. \A k \in m..n : x[k] \in Pieces
    OBVIOUS
<1>2. m <= n => n - m + 1 = (IF m <= n THEN n - m + 1 ELSE 0)
    OBVIOUS
<1>3. ~(m <= n) => n - m + 1 = 0
    OBVIOUS
<1> QED BY <1>1, <1>2, <1>3, SubSeqProperties

\* The parts of a state.
LEMMA StateSays ==
    ASSUME NEW g \in Seq(Delimiters), NEW v \in Seq(Pieces)
    PROVE  /\ Len(g) \in Nat /\ Len(v) \in Nat
           /\ Wrap(g) \o v \in Seq(Pieces) /\ Len(Wrap(g) \o v) = Len(g) + Len(v)
           /\ \A k \in 1..Len(g) :
                 (Wrap(g) \o v)[k] = [kind |-> "atomic", delimiter |-> <<g[Len(g) + 1 - k]>>]
           /\ \A k \in 1..Len(v) : (Wrap(g) \o v)[Len(g) + k] = v[k]
           /\ SubSeq(Wrap(g) \o v, Len(g) + 1, Len(g) + Len(v)) = v
<1> DEFINE G == Len(g)
           V == Len(v)
<1>1. G \in Nat /\ V \in Nat
    OBVIOUS
<1>2. PICK w : w = Wrap(g)
    OBVIOUS
<1>3. w \in Seq(Pieces) /\ Len(w) = G
      /\ \A k \in 1..G : w[k] = [kind |-> "atomic", delimiter |-> <<g[G + 1 - k]>>]
    BY <1>2, WrapType
<1>4. PICK x : x = w \o v
    OBVIOUS
<1>5. /\ w \o v \in Seq(Pieces) /\ Len(w \o v) = Len(w) + Len(v)
      /\ \A i \in 1..(Len(w) + Len(v)) : (w \o v)[i] = IF i <= Len(w) THEN w[i] ELSE v[i - Len(w)]
    BY <1>3, Joined, Zenon
<1>6. /\ x \in Seq(Pieces) /\ Len(x) = G + V
      /\ \A i \in 1..(G + V) : x[i] = IF i <= G THEN w[i] ELSE v[i - G]
    BY <1>3, <1>4, <1>5, Zenon
<1>7. \A k \in 1..G : x[k] = [kind |-> "atomic", delimiter |-> <<g[G + 1 - k]>>]
    <2>1. \A k \in 1..G : k \in 1..(G + V) /\ k <= G
        BY <1>1
    <2> QED BY <2>1, <1>3, <1>6
<1>8. \A k \in 1..V : x[G + k] = v[k]
    <2>1. \A k \in 1..V : G + k \in 1..(G + V) /\ ~(G + k <= G) /\ (G + k) - G = k
        BY <1>1
    <2> QED BY <2>1, <1>6
<1>9. SubSeq(x, G + 1, G + V) = v
    <2>2. PICK y : y = SubSeq(x, G + 1, G + V)
        OBVIOUS
    <2>3. /\ y \in Seq(Pieces) /\ Len(y) = (G + V) - (G + 1) + 1
          /\ \A i \in 1..((G + V) - (G + 1) + 1) : y[i] = x[(G + 1) + i - 1]
        <3>1. G + 1 \in Nat \ {0} /\ G + V \in Nat /\ G + 1 <= G + V + 1 /\ G + V <= Len(x)
            BY <1>1, <1>6
        <3> HIDE DEF G, V
        <3> QED BY <2>2, <3>1, <1>6, PartSays, Zenon
    <2>4. Len(y) = V /\ (G + V) - (G + 1) + 1 = V /\ \A i \in 1..V : (G + 1) + i - 1 = G + i
        BY <1>1, <2>3
    <2>5. \A i \in 1..V : y[i] = v[i]
        BY <2>3, <2>4, <1>8
    <2> QED BY <2>2, <2>3, <2>4, <2>5, SeqEqual
<1> HIDE DEF G, V
<1>10. x = Wrap(g) \o v
    BY <1>2, <1>4
<1>11. SubSeq(Wrap(g) \o v, G + 1, G + V) = v
    BY <1>9, <1>10, Zenon
<1> QED BY <1>1, <1>6, <1>7, <1>8, <1>10, <1>11, Zenon DEF G, V

\* A state has the same groups as another, and does not leave them.
SameGroups(s, M, w, data) ==
    /\ \A k \in 1..(M - 1) : w[k] = s[k]
    /\ M > 1 => ~(SubSeq(w, M, Len(w)) = Ready /\ EndsWith(data, s[M - 1].delimiter))

\* Groups that go on keep their places.
LEMMA AroundKeeps ==
    ASSUME NEW s \in Seq(Pieces), NEW M \in 1..Len(s), NEW w \in Seq(Pieces), M <= Len(w), NEW data,
           SameGroups(s, M, w, data), NEW k \in 1..(M - 1)
    PROVE  Around(s, k, SubSeq(w, k + 1, Len(w)), data) = SubSeq(w, k, Len(w))
<1>1. M \in Nat /\ Len(w) \in Nat /\ k \in Nat /\ k >= 1 /\ k < M
    <2>1. Len(s) \in Nat /\ Len(w) \in Nat
        OBVIOUS
    <2> QED BY <2>1
<1>2. PICK y : y = SubSeq(w, k + 1, Len(w))
    OBVIOUS
<1>3. y \in Seq(Pieces) /\ Len(y) = Len(w) - k
    <2>1. k + 1 \in Nat \ {0} /\ Len(w) \in Nat /\ k + 1 <= Len(w) + 1 /\ Len(w) <= Len(w)
        BY <1>1
    <2>2. y \in Seq(Pieces) /\ Len(y) = Len(w) - (k + 1) + 1
        BY <1>2, <2>1, PartSays, Zenon
    <2> QED BY <1>1, <2>2
<1>4. y # Emit
    <2>1. Len(y) # 0
        BY <1>1, <1>3
    <2>2. Len(<<>>) = 0
        OBVIOUS
    <2> QED BY <2>1, <2>2 DEF Emit
<1>5. ~(y = Ready /\ EndsWith(data, s[k].delimiter))
    <2>1. CASE k = M - 1
        <3>1. k + 1 = M /\ M > 1
            BY <1>1, <2>1
        <3> QED BY <3>1, <1>2, <2>1 DEF SameGroups
    <2>2. CASE k # M - 1
        <3>1. Len(y) >= 2
            BY <1>1, <1>3, <2>2
        <3>2. Len(Ready) = 1
            BY DEF Ready
        <3>3. y # Ready
            <4> HIDE DEF Ready
            <4>1. SUFFICES ASSUME y = Ready PROVE FALSE
                OBVIOUS
            <4>2. Len(y) = 1
                BY <3>2, <4>1
            <4> QED BY <3>1, <4>2
        <3> QED BY <3>3
    <2> QED BY <2>1, <2>2
<1>6. SubSeq(w, k, Len(w)) = <<w[k]>> \o y
    <2>1. k \in 1..Len(w) /\ Len(w) \in k..Len(w)
        BY <1>1
    <2> QED BY <2>1, <1>2, SubSeqRecursiveFirst
<1>7. w[k] = s[k]
    BY DEF SameGroups
<1>8. Around(s, k, y, data) = <<s[k]>> \o y
    BY <1>4, <1>5, Zenon DEF Around
<1> QED BY <1>2, <1>6, <1>7, <1>8

\* A state with one innermost part.
LEMMA StateOf ==
    ASSUME NEW g \in Seq(Delimiters), NEW m \in Pieces
    PROVE  /\ Len(g) \in Nat
           /\ Wrap(g) \o <<m>> \in Seq(Pieces) /\ Len(Wrap(g) \o <<m>>) = Len(g) + 1
           /\ (Wrap(g) \o <<m>>)[Len(g) + 1] = m
           /\ \A k \in 1..Len(g) :
                 (Wrap(g) \o <<m>>)[k] = [kind |-> "atomic", delimiter |-> <<g[Len(g) + 1 - k]>>]
<1>1. PICK v : v = <<m>>
    OBVIOUS
<1>2. v \in Seq(Pieces) /\ Len(v) = 1 /\ v[1] = m
    BY <1>1
<1>3. /\ Len(g) \in Nat
      /\ Wrap(g) \o v \in Seq(Pieces) /\ Len(Wrap(g) \o v) = Len(g) + Len(v)
      /\ \A k \in 1..Len(g) :
            (Wrap(g) \o v)[k] = [kind |-> "atomic", delimiter |-> <<g[Len(g) + 1 - k]>>]
      /\ \A k \in 1..Len(v) : (Wrap(g) \o v)[Len(g) + k] = v[k]
    BY <1>2, StateSays, Zenon
<1>4. 1 \in 1..1
    OBVIOUS
<1> QED BY <1>1, <1>2, <1>3, <1>4, Zenon

\* The innermost group of a state.
LEMMA InnermostGroup ==
    ASSUME NEW g \in Seq(Delimiters), g # <<>>, NEW m \in Pieces
    PROVE  /\ Len(g) >= 1 /\ Head(g) = g[1] /\ Head(g) \in Delimiters
           /\ (Wrap(g) \o <<m>>)[Len(g)].delimiter = <<Head(g)>>
<1>1. Len(g) \in Nat /\ Len(g) >= 1 /\ Head(g) = g[1] /\ Head(g) \in Delimiters
    <2>1. Len(g) \in Nat \ {0}
        BY EmptySeq
    <2>2. 1 \in 1..Len(g)
        BY <2>1
    <2> QED BY <2>1, <2>2
<1>2. Len(g) \in 1..Len(g) /\ Len(g) + 1 - Len(g) = 1
    BY <1>1
<1>3. PICK e : e = (Wrap(g) \o <<m>>)[Len(g)]
    OBVIOUS
<1>4. e = [kind |-> "atomic", delimiter |-> <<g[Len(g) + 1 - Len(g)]>>]
    BY <1>2, <1>3, StateOf, Zenon
<1>5. e.delimiter = <<Head(g)>>
    BY <1>1, <1>2, <1>4
<1> QED BY <1>1, <1>3, <1>5, Zenon

\* What is inside a group does not leave it.
Stays(g, x, data) == g # <<>> => ~(x = Ready /\ EndsWith(data, <<Head(g)>>))

\* What the innermost state becomes, where no statement ends.
Goes(m, r, data, x) == x = FromInnermost(m, r, data) /\ x # Emit

\* What goes on inside stays inside, unless it is ready at the delimiter.
LEMMA GoesOnInside ==
    ASSUME NEW g \in Seq(Delimiters), NEW m \in Pieces, NEW r, NEW data, NEW x \in Seq(Pieces),
           Goes(m, r, data, x), Stays(g, x, data)
    PROVE  NextState(Wrap(g) \o <<m>>, r, data) = Wrap(g) \o x
<1> DEFINE G == Len(g)
<1>1. PICK s : s = Wrap(g) \o <<m>>
    OBVIOUS
<1>2. /\ G \in Nat /\ s \in Seq(Pieces) /\ Len(s) = G + 1 /\ s[G + 1] = m
      /\ \A k \in 1..G : s[k] = [kind |-> "atomic", delimiter |-> <<g[G + 1 - k]>>]
    BY <1>1, StateOf, Zenon
<1>3. PICK w : w = Wrap(g) \o x
    OBVIOUS
<1>4. /\ w \in Seq(Pieces) /\ Len(w) = G + Len(x)
      /\ \A k \in 1..G : w[k] = [kind |-> "atomic", delimiter |-> <<g[G + 1 - k]>>]
      /\ SubSeq(w, G + 1, Len(w)) = x
    BY <1>3, StateSays, Zenon
<1>5. Len(x) \in Nat /\ Len(x) >= 1
    <2>1. Len(x) \in Nat /\ x # <<>>
        BY DEF Emit, Goes
    <2>2. Len(x) # 0
        BY <2>1, EmptySeq
    <2> QED BY <2>1, <2>2
<1>6. PICK F : F = [k \in 1..(G + 1) |-> SubSeq(w, k, Len(w))]
    OBVIOUS
<1> HIDE DEF G
<1>7. F = [k \in 1..Len(s) |-> F[k]] /\ Len(s) \in Nat /\ Len(s) # 0
    BY <1>2, <1>6
<1>8. F[Len(s)] = FromInnermost(s[Len(s)], r, data)
    <2>1. G + 1 \in 1..(G + 1)
        BY <1>2
    <2>2. F[G + 1] = x
        BY <2>1, <1>4, <1>6
    <2> QED BY <1>2, <2>2 DEF Goes
<1>9. ASSUME NEW k \in 1..(Len(s) - 1) PROVE F[k] = Around(s, k, F[k + 1], data)
    <2>1. k \in 1..G /\ k \in 1..(G + 1) /\ k + 1 \in 1..(G + 1) /\ G >= 1
        BY <1>2
    <2>2. F[k] = SubSeq(w, k, Len(w)) /\ F[k + 1] = SubSeq(w, k + 1, Len(w))
        BY <2>1, <1>6
    <2>3. G + 1 \in 1..Len(s) /\ G + 1 <= Len(w) /\ (G + 1) - 1 = G /\ k \in 1..((G + 1) - 1)
        <3>1. Len(w) = G + Len(x) /\ Len(s) = G + 1
            BY <1>2, <1>4
        <3>2. G + 1 <= Len(w)
            BY <3>1, <1>2, <1>5
        <3>3. G + 1 \in 1..Len(s)
            BY <3>1, <1>2
        <3>4. (G + 1) - 1 = G
            BY <1>2
        <3> QED BY <3>2, <3>3, <3>4, <2>1
    <2>4. \A i \in 1..((G + 1) - 1) : w[i] = s[i]
        BY <1>2, <1>4, <2>3
    <2>5. s[(G + 1) - 1].delimiter = <<Head(g)>>
        <3>1. g # <<>>
            BY <1>2, <2>1 DEF G
        <3>2. s[G].delimiter = <<Head(g)>>
            BY <3>1, <1>1, InnermostGroup, Zenon DEF G
        <3> QED BY <2>3, <3>2
    <2>6. g # <<>>
        BY <1>2, <2>1 DEF G
    <2>7. ~(SubSeq(w, G + 1, Len(w)) = Ready /\ EndsWith(data, s[(G + 1) - 1].delimiter))
        BY <1>4, <2>5, <2>6 DEF Stays
    <2>8. Around(s, k, SubSeq(w, k + 1, Len(w)), data) = SubSeq(w, k, Len(w))
        <3>1. SameGroups(s, G + 1, w, data)
            BY <2>4, <2>7 DEF SameGroups
        <3>2. s \in Seq(Pieces) /\ w \in Seq(Pieces)
            BY <1>2, <1>4
        <3> QED BY <2>3, <3>1, <3>2, AroundKeeps, Zenon
    <2> QED BY <2>2, <2>8
<1>10. NextState(s, r, data) = F[1]
    <2>1. \A k \in 1..(Len(s) - 1) : F[k] = Around(s, k, F[k + 1], data)
        BY <1>9
    <2>2. Levels(s, r, data, F)
        BY <1>7, <1>8, <2>1 DEF Levels
    <2> QED BY <1>7, <2>2, LevelsDo
<1>11. F[1] = w
    <2>1. 1 \in 1..(G + 1)
        BY <1>2
    <2> QED BY <2>1, <1>4, <1>6, SubSeqFull
<1> QED BY <1>1, <1>3, <1>10, <1>11

\* A statement ends outside of all groups; inside, all goes on.
LEMMA EndsInside ==
    ASSUME NEW g \in Seq(Delimiters), NEW m \in Pieces, NEW r, NEW data,
           FromInnermost(m, r, data) = Emit,
           g # <<>> => ~EndsWith(data, <<Head(g)>>)
    PROVE  NextState(Wrap(g) \o <<m>>, r, data) = IF g = <<>> THEN Emit ELSE Wrap(g) \o <<m>>
<1> DEFINE G == Len(g)
<1>1. PICK s : s = Wrap(g) \o <<m>>
    OBVIOUS
<1>2. /\ G \in Nat /\ s \in Seq(Pieces) /\ Len(s) = G + 1 /\ s[G + 1] = m
      /\ \A k \in 1..G : s[k] = [kind |-> "atomic", delimiter |-> <<g[G + 1 - k]>>]
    BY <1>1, StateOf, Zenon
<1>3. PICK F : F = [k \in 1..(G + 1) |-> IF k = G + 1 THEN Emit ELSE SubSeq(s, k, Len(s))]
    OBVIOUS
<1>4. G = 0 <=> g = <<>>
    BY <1>2
<1> HIDE DEF G
<1>5. F = [k \in 1..Len(s) |-> F[k]] /\ Len(s) \in Nat /\ Len(s) # 0
    BY <1>2, <1>3
<1>6. F[Len(s)] = FromInnermost(s[Len(s)], r, data)
    <2>1. G + 1 \in 1..(G + 1)
        BY <1>2
    <2> QED BY <1>2, <1>3, <2>1
<1>7. ASSUME NEW k \in 1..(Len(s) - 1) PROVE F[k] = Around(s, k, F[k + 1], data)
    <2>1. k \in 1..G /\ k \in 1..(G + 1) /\ k + 1 \in 1..(G + 1) /\ G >= 1 /\ k # G + 1
        BY <1>2
    <2>2. F[k] = SubSeq(s, k, Len(s))
        BY <2>1, <1>3
    <2>3. G + 1 \in 1..Len(s) /\ G + 1 <= Len(s) /\ (G + 1) - 1 = G /\ k \in 1..((G + 1) - 1)
        BY <1>2, <2>1
    <2>4. s[(G + 1) - 1].delimiter = <<Head(g)>>
        <3>1. g # <<>>
            BY <1>2, <2>1 DEF G
        <3>2. s[G].delimiter = <<Head(g)>>
            BY <3>1, <1>1, InnermostGroup, Zenon DEF G
        <3> QED BY <2>3, <3>2
    <2>5. ~EndsWith(data, s[(G + 1) - 1].delimiter)
        BY <1>4, <2>1, <2>4
    <2>6. Around(s, k, SubSeq(s, k + 1, Len(s)), data) = SubSeq(s, k, Len(s))
        <3>1. SameGroups(s, G + 1, s, data)
            BY <2>5 DEF SameGroups
        <3> QED BY <1>2, <2>3, <3>1, AroundKeeps, Zenon
    <2>7. Around(s, k, Emit, data) = Around(s, k, SubSeq(s, k + 1, Len(s)), data)
        BY Zenon DEF Around
    <2>8. F[k + 1] = Emit \/ F[k + 1] = SubSeq(s, k + 1, Len(s))
        BY <2>1, <1>3
    <2> QED BY <2>2, <2>6, <2>7, <2>8
<1>8. NextState(s, r, data) = F[1]
    <2>1. \A k \in 1..(Len(s) - 1) : F[k] = Around(s, k, F[k + 1], data)
        BY <1>7
    <2>2. Levels(s, r, data, F)
        BY <1>5, <1>6, <2>1 DEF Levels
    <2> QED BY <1>5, <2>2, LevelsDo
<1>9. CASE g = <<>>
    <2>1. 1 \in 1..(G + 1) /\ 1 = G + 1
        BY <1>2, <1>4, <1>9
    <2> QED BY <2>1, <1>1, <1>3, <1>8, <1>9
<1>10. CASE g # <<>>
    <2>1. 1 \in 1..(G + 1) /\ 1 # G + 1
        BY <1>2, <1>4, <1>10
    <2>2. SubSeq(s, 1, Len(s)) = s
        BY <1>2, SubSeqFull
    <2> QED BY <2>1, <2>2, <1>1, <1>3, <1>8, <1>10
<1> QED BY <1>9, <1>10

\* What is ready at the delimiter of its group leaves the group, and no other.
LEMMA ClosesGroup ==
    ASSUME NEW g \in Seq(Delimiters), g # <<>>, NEW m \in Pieces, NEW r, NEW data,
           FromInnermost(m, r, data) = Ready, EndsWith(data, <<Head(g)>>),
           Len(g) >= 2 => ~EndsWith(data, <<g[2]>>)
    PROVE  NextState(Wrap(g) \o <<m>>, r, data) = Wrap(Tail(g)) \o Ready
<1> DEFINE G == Len(g)
           h == Tail(g)
<1>1. PICK s : s = Wrap(g) \o <<m>>
    OBVIOUS
<1>2. /\ G \in Nat /\ s \in Seq(Pieces) /\ Len(s) = G + 1 /\ s[G + 1] = m
      /\ \A k \in 1..G : s[k] = [kind |-> "atomic", delimiter |-> <<g[G + 1 - k]>>]
    BY <1>1, StateOf, Zenon
<1>3. G >= 1 /\ s[G].delimiter = <<Head(g)>>
    BY <1>1, InnermostGroup, Zenon
<1>4. h \in Seq(Delimiters) /\ Len(h) = G - 1 /\ \A k \in 1..(G - 1) : h[k] = g[k + 1]
    <2>1. /\ Tail(g) \in Seq(Delimiters) /\ Len(Tail(g)) = Len(g) - 1
          /\ \A i \in 1..Len(Tail(g)) : Tail(g)[i] = g[i + 1]
        BY HeadTailProperties
    <2> QED BY <2>1
<1>5. PICK x : x = Ready
    OBVIOUS
<1>6. x \in Seq(Pieces) /\ Len(x) = 1
    BY <1>5 DEF Ready, Pieces
<1>7. PICK w : w = Wrap(h) \o x
    OBVIOUS
<1>8. /\ w \in Seq(Pieces) /\ Len(w) = Len(h) + Len(x)
      /\ \A k \in 1..Len(h) : w[k] = [kind |-> "atomic", delimiter |-> <<h[Len(h) + 1 - k]>>]
      /\ SubSeq(w, Len(h) + 1, Len(h) + Len(x)) = x
    BY <1>4, <1>6, <1>7, StateSays, Zenon
<1> HIDE DEF G, h
<1>9. Len(w) = G /\ SubSeq(w, G, Len(w)) = x
    <2>1. Len(h) + 1 = G /\ Len(h) + Len(x) = G
        BY <1>2, <1>4, <1>6
    <2> QED BY <2>1, <1>8
<1>10. \A k \in 1..(G - 1) : w[k] = s[k]
    <2>1. SUFFICES ASSUME NEW k \in 1..(G - 1) PROVE w[k] = s[k]
        OBVIOUS
    <2>2. k \in 1..Len(h) /\ k \in 1..G /\ Len(h) + 1 - k = G - k
        BY <1>2, <1>4
    <2>3. G - k \in 1..(G - 1) /\ (G - k) + 1 = G + 1 - k
        BY <1>2
    <2>4. h[Len(h) + 1 - k] = g[G + 1 - k]
        BY <1>4, <2>2, <2>3
    <2> QED BY <1>2, <1>8, <2>2, <2>4
<1>11. PICK F : F = [k \in 1..(G + 1) |-> IF k = G + 1 THEN x ELSE SubSeq(w, k, Len(w))]
    OBVIOUS
<1>12. F = [k \in 1..Len(s) |-> F[k]] /\ Len(s) \in Nat /\ Len(s) # 0
    BY <1>2, <1>11
<1>13. F[Len(s)] = FromInnermost(s[Len(s)], r, data)
    <2>1. G + 1 \in 1..(G + 1)
        BY <1>2
    <2> QED BY <1>2, <1>5, <1>11, <2>1
<1>14. ASSUME NEW k \in 1..(Len(s) - 1) PROVE F[k] = Around(s, k, F[k + 1], data)
    <2>1. k \in 1..G /\ k \in 1..(G + 1) /\ k # G + 1
        BY <1>2
    <2>2. F[k] = SubSeq(w, k, Len(w))
        BY <2>1, <1>11
    <2>3. CASE k = G
        <3>1. F[k + 1] = x
            BY <2>3, <1>2, <1>11
        <3>2. x # Emit
            <4>1. Len(<<>>) = 0
                OBVIOUS
            <4>2. SUFFICES ASSUME x = <<>> PROVE FALSE
                BY DEF Emit
            <4> QED BY <4>1, <4>2, <1>6
        <3>3. Around(s, k, x, data) = x
            BY <1>3, <1>5, <2>3, <3>2, Zenon DEF Around
        <3> QED BY <3>1, <3>3, <2>2, <2>3, <1>9
    <2>4. CASE k # G
        <3>1. k \in 1..(G - 1) /\ k + 1 \in 1..(G + 1) /\ k + 1 # G + 1 /\ G >= 2
            BY <2>1, <2>4, <1>2
        <3>2. F[k + 1] = SubSeq(w, k + 1, Len(w))
            BY <3>1, <1>11
        <3>3. G \in 1..Len(s) /\ G <= Len(w)
            BY <1>2, <1>3, <1>9
        <3>4. s[G - 1].delimiter = <<g[2]>>
            <4>1. G - 1 \in 1..G /\ G + 1 - (G - 1) = 2
                BY <3>1, <1>2
            <4>2. s[G - 1] = [kind |-> "atomic", delimiter |-> <<g[2]>>]
                BY <4>1, <1>2
            <4> QED BY <4>2
        <3>5. ~EndsWith(data, s[G - 1].delimiter)
            BY <3>1, <3>4 DEF G
        <3>6. Around(s, k, SubSeq(w, k + 1, Len(w)), data) = SubSeq(w, k, Len(w))
            <4>1. SameGroups(s, G, w, data)
                BY <1>10, <3>5 DEF SameGroups
            <4> QED BY <1>2, <1>8, <3>1, <3>3, <4>1, AroundKeeps, Zenon
        <3> QED BY <2>2, <3>2, <3>6
    <2> QED BY <2>3, <2>4
<1>15. NextState(s, r, data) = F[1]
    <2>1. \A k \in 1..(Len(s) - 1) : F[k] = Around(s, k, F[k + 1], data)
        BY <1>14
    <2>2. Levels(s, r, data, F)
        BY <1>12, <1>13, <2>1 DEF Levels
    <2> QED BY <1>12, <2>2, LevelsDo
<1>16. F[1] = w
    <2>1. 1 \in 1..(G + 1) /\ 1 # G + 1
        BY <1>2, <1>3
    <2>2. SubSeq(w, 1, Len(w)) = w
        BY <1>8, SubSeqFull
    <2> QED BY <2>1, <2>2, <1>11
<1> QED BY <1>1, <1>5, <1>7, <1>15, <1>16 DEF h

-----------------------------------------------------------------------------
(* Lexemes *)

\* The first of the places behind a place.
LEMMA FirstBehind ==
    ASSUME NEW t, Len(t) \in Nat, NEW P, P \subseteq 1..Len(t)
    PROVE  /\ First(t, P) \in Nat /\ First(t, P) <= Len(t)
           /\ \A n \in 0..(Len(t) - 1) : (\A x \in P : x > n) =>
                 /\ n + 1 <= First(t, P)
                 /\ n + 1 \in P => First(t, P) = n + 1
                 /\ n + 1 \notin P => \A x \in P : x > n + 1
<1>1. CASE P = {}
    BY <1>1 DEF First
<1>2. CASE P # {}
    <2>1. P \in SUBSET Nat
        OBVIOUS
    <2>2. PICK m \in P : \A x \in P : m <= x
        BY <1>2, <2>1, LeastOne
    <2>3. First(t, P) = Min(P)
        BY <1>2 DEF First
    <2>4. Min(P) \in P /\ \A x \in P : Min(P) <= x
        BY <2>2 DEF Min
    <2>5. PICK f : f = First(t, P)
        OBVIOUS
    <2>6. f \in P /\ (\A x \in P : f <= x) /\ f \in Nat /\ f <= Len(t)
        <3>1. f = Min(P)
            BY <2>3, <2>5
        <3>2. f \in P /\ \A x \in P : f <= x
            BY <3>1, <2>4
        <3>3. f \in 1..Len(t)
            BY <3>2
        <3> QED BY <3>2, <3>3
    <2>7. ASSUME NEW n \in 0..(Len(t) - 1), \A x \in P : x > n
          PROVE  /\ n + 1 <= f
                 /\ n + 1 \in P => f = n + 1
                 /\ n + 1 \notin P => \A x \in P : x > n + 1
        BY <2>1, <2>6, <2>7
    <2> QED BY <2>5, <2>6, <2>7
<1> QED BY <1>1, <1>2

\* A tag, from one "$" to the other.
TagTo(t, i, e) ==
    /\ e \in (i + 1)..Len(t) /\ t[i] = "$" /\ t[e] = "$"
    /\ \A k \in (i + 1)..(e - 1) : t[k] \in {"a"} \union Words

\* A tag that is found stands there.
LEMMA TagSays ==
    ASSUME NEW t \in Seq(Symbols), NEW i \in 1..Len(t), TagAt(t, i) # <<>>
    PROVE  \E e : TagTo(t, i, e)
<1> DEFINE ends == {j \in (i + 1)..Len(t) : t[j] = "$"}
<1>1. t[i] = "$" /\ ends # {} /\ \A k \in (i + 1)..(First(t, ends) - 1) : t[k] \in {"a"} \union Words
    BY DEF TagAt
<1>2. ends \subseteq 1..Len(t) /\ ends \in SUBSET Nat
    OBVIOUS
<1>3. First(t, ends) \in ends
    <2>1. PICK m \in ends : \A x \in ends : m <= x
        BY <1>1, <1>2, LeastOne
    <2>2. First(t, ends) = Min(ends)
        BY <1>1 DEF First
    <2> HIDE DEF ends
    <2>3. Min(ends) \in ends
        BY <2>1 DEF Min
    <2> QED BY <2>2, <2>3
<1> QED BY <1>1, <1>3 DEF TagTo

\* A tag that stands there is found.
LEMMA TagIs ==
    ASSUME NEW t \in Seq(Symbols), NEW i \in 1..Len(t), NEW e, TagTo(t, i, e)
    PROVE  /\ TagAt(t, i) \in Seq(Symbols) /\ TagAt(t, i) # <<>>
           /\ Len(TagAt(t, i)) = e - i + 1
           /\ TagAt(t, i) = SubSeq(t, i, e)
           /\ \A k \in 1..(e - i + 1) : TagAt(t, i)[k] = t[i + k - 1]
<1> DEFINE ends == {j \in (i + 1)..Len(t) : t[j] = "$"}
<1>1. e \in ends /\ e \in Nat /\ i \in Nat /\ i >= 1 /\ i < e /\ e <= Len(t)
    BY DEF TagTo
<1>2. ends \subseteq 1..Len(t) /\ ends \in SUBSET Nat
    OBVIOUS
<1>3. First(t, ends) = e
    <2>1. "$" \notin {"a"} \union Words
        BY DEF Words
    <2>2. \A x \in ends : e <= x
        <3>1. SUFFICES ASSUME NEW x \in ends, x < e PROVE FALSE
            BY <1>1, <1>2
        <3>2. x \in (i + 1)..(e - 1)
            BY <3>1, <1>1
        <3> QED BY <3>1, <3>2, <2>1 DEF TagTo
    <2>3. First(t, ends) = Min(ends)
        BY <1>1 DEF First
    <2> HIDE DEF ends
    <2>4. Min(ends) \in ends /\ \A x \in ends : Min(ends) <= x
        BY <1>1, <2>2 DEF Min
    <2>5. Min(ends) \in Nat /\ Min(ends) <= e /\ e <= Min(ends)
        BY <1>1, <1>2, <2>2, <2>4
    <2> QED BY <1>1, <2>3, <2>5
<1>4. TagAt(t, i) = SubSeq(t, i, e)
    <2>1. t[i] = "$" /\ ends # {} /\ \A k \in (i + 1)..(e - 1) : t[k] \in {"a"} \union Words
        BY <1>1 DEF TagTo
    <2> QED BY <1>3, <2>1, Zenon DEF TagAt
<1>5. PICK y : y = SubSeq(t, i, e)
    OBVIOUS
<1>6. y \in Seq(Symbols) /\ Len(y) = e - i + 1 /\ \A k \in 1..(e - i + 1) : y[k] = t[i + k - 1]
    <2>1. \A k \in i..e : t[k] \in Symbols
        BY <1>1
    <2> QED BY <1>1, <1>5, <2>1, SubSeqProperties
<1>7. y # <<>>
    <2>1. Len(y) # 0
        BY <1>1, <1>6
    <2> QED BY <2>1
<1> QED BY <1>4, <1>5, <1>6, <1>7

\* How deep comments are nested at a place, in the comment that begins at another.
Depth(t, i, j) == Cardinality({k \in i..(j - 1) : Has(t, k, <<"/", "*">>)})
                  - Cardinality({k \in i..(j - 1) : Has(t, k, <<"*", "/">>)})

\* Where the lexeme that begins at a place may end.
Ends(t, i) ==
    LET tag == TagAt(t, i)
    IN  CASE t[i] \in Quotes          -> {j \in (i + 1)..Len(t) : t[j] = t[i]}
          [] t[i] = "\\"             -> {i + 1} \cap 1..Len(t)
          [] Has(t, i, <<"-", "-">>) -> {j \in (i + 2)..Len(t) : t[j] = "\n"}
          [] Has(t, i, <<"/", "*">>) ->
                {j \in (i + 3)..Len(t) : Has(t, j - 1, <<"*", "/">>) /\ Depth(t, i, j) = 0}
          [] tag # <<>> -> {j \in (i + 2 * Len(tag) - 1)..Len(t) : Has(t, j - Len(tag) + 1, tag)}
          [] OTHER -> {i}

\* Two symbols of a text.
LEMMA HasTwo ==
    ASSUME NEW t \in Seq(Symbols), NEW i \in Nat \ {0}, NEW x \in Symbols, NEW y \in Symbols
    PROVE  Has(t, i, <<x, y>>) <=> i + 1 <= Len(t) /\ t[i] = x /\ t[i + 1] = y
<1>1. PICK w : w = <<x, y>>
    OBVIOUS
<1>2. w \in Seq(Symbols) /\ Len(w) = 2 /\ w[1] = x /\ w[2] = y
    BY <1>1
<1>3. Has(t, i, w) <=> i + Len(w) - 1 <= Len(t) /\ \A k \in 1..Len(w) : t[i + k - 1] = w[k]
    BY <1>2, HasSays
<1>4. \A k \in 1..2 : k = 1 \/ k = 2
    OBVIOUS
<1>5. i + 2 - 1 = i + 1 /\ i + 1 - 1 = i
    OBVIOUS
<1>6. (\A k \in 1..Len(w) : t[i + k - 1] = w[k]) <=> t[i] = x /\ t[i + 1] = y
    BY <1>2, <1>4, <1>5
<1>7. i + Len(w) - 1 = i + 1
    BY <1>2, <1>5
<1> QED BY <1>1, <1>3, <1>6, <1>7

\* What opens nothing.
Plain(t, i) ==
    /\ t[i] \notin Quotes /\ t[i] # "\\" /\ ~Has(t, i, <<"-", "-">>) /\ ~Has(t, i, <<"/", "*">>)
    /\ TagAt(t, i) = <<>>

\* The first of one place.
LEMMA FirstOfOne == ASSUME NEW t, NEW i \in Nat PROVE First(t, {i}) = i
<1>1. Min({i}) = i
    BY DEF Min
<1> QED BY <1>1 DEF First

\* The kinds of lexemes exclude each other.
LEMMA EndsOf ==
    ASSUME NEW t \in Seq(Symbols), NEW i \in 1..Len(t)
    PROVE  /\ t[i] \in Quotes => Ends(t, i) = {j \in (i + 1)..Len(t) : t[j] = t[i]}
           /\ t[i] = "\\" => Ends(t, i) = {i + 1} \cap 1..Len(t)
           /\ Has(t, i, <<"-", "-">>) => Ends(t, i) = {j \in (i + 2)..Len(t) : t[j] = "\n"}
           /\ Has(t, i, <<"/", "*">>) =>
                 Ends(t, i) = {j \in (i + 3)..Len(t) : Has(t, j - 1, <<"*", "/">>) /\ Depth(t, i, j) = 0}
           /\ TagAt(t, i) # <<>> =>
                 Ends(t, i) = {j \in (i + 2 * Len(TagAt(t, i)) - 1)..Len(t) :
                                  Has(t, j - Len(TagAt(t, i)) + 1, TagAt(t, i))}
           /\ Plain(t, i) => Ends(t, i) = {i}
           /\ LexemeEnd(t, i) = First(t, Ends(t, i))
<1>1. Has(t, i, <<"-", "-">>) => t[i] = "-"
    <2>1. i \in Nat \ {0} /\ "-" \in Symbols
        BY DEF Symbols
    <2> QED BY <2>1, HasTwo
<1>2. Has(t, i, <<"/", "*">>) => t[i] = "/"
    <2>1. i \in Nat \ {0} /\ "/" \in Symbols /\ "*" \in Symbols
        BY DEF Symbols
    <2> QED BY <2>1, HasTwo
<1>3. TagAt(t, i) # <<>> => t[i] = "$"
    BY TagSays DEF TagTo
<1>4. "\\" \notin Quotes /\ "-" \notin Quotes /\ "/" \notin Quotes /\ "$" \notin Quotes
    BY DEF Quotes
<1>5. CASE t[i] \in Quotes
    <2>1. ~(t[i] = "\\") /\ ~Has(t, i, <<"-", "-">>) /\ ~Has(t, i, <<"/", "*">>) /\ ~(TagAt(t, i) # <<>>)
        BY <1>1, <1>2, <1>3, <1>4, <1>5, Zenon
    <2>2. LexemeEnd(t, i) = First(t, Ends(t, i))
        BY <1>5, <2>1 DEF Ends, LexemeEnd
    <2> QED BY <1>5, <2>1, <2>2 DEF Ends, Plain
<1>6. CASE t[i] = "\\"
    <2>1. t[i] \notin Quotes /\ ~Has(t, i, <<"-", "-">>) /\ ~Has(t, i, <<"/", "*">>) /\ ~(TagAt(t, i) # <<>>)
        BY <1>1, <1>2, <1>3, <1>4, <1>6
    <2>2. LexemeEnd(t, i) = First(t, Ends(t, i))
        BY <1>6, <2>1 DEF Ends, LexemeEnd
    <2> QED BY <1>6, <2>1, <2>2 DEF Ends, Plain
<1>7. CASE Has(t, i, <<"-", "-">>)
    <2>1. t[i] \notin Quotes /\ t[i] # "\\" /\ ~Has(t, i, <<"/", "*">>) /\ ~(TagAt(t, i) # <<>>)
        BY <1>1, <1>2, <1>3, <1>4, <1>7
    <2>2. LexemeEnd(t, i) = First(t, Ends(t, i))
        BY <1>7, <2>1 DEF Ends, LexemeEnd
    <2> QED BY <1>7, <2>1, <2>2 DEF Ends, Plain
<1>8. CASE Has(t, i, <<"/", "*">>)
    <2>1. t[i] \notin Quotes /\ t[i] # "\\" /\ ~Has(t, i, <<"-", "-">>) /\ ~(TagAt(t, i) # <<>>)
        BY <1>1, <1>2, <1>3, <1>4, <1>8
    <2>2. LexemeEnd(t, i) = First(t, Ends(t, i))
        BY <1>8, <2>1 DEF Ends, LexemeEnd, Depth
    <2> QED BY <1>8, <2>1, <2>2 DEF Ends, Plain
<1>9. CASE TagAt(t, i) # <<>>
    <2>1. t[i] \notin Quotes /\ t[i] # "\\" /\ ~Has(t, i, <<"-", "-">>) /\ ~Has(t, i, <<"/", "*">>)
        BY <1>1, <1>2, <1>3, <1>4, <1>9
    <2>2. LexemeEnd(t, i) = First(t, Ends(t, i))
        BY <1>9, <2>1 DEF Ends, LexemeEnd
    <2> QED BY <1>9, <2>1, <2>2 DEF Ends, Plain
<1>10. CASE Plain(t, i)
    <2>1. ~(TagAt(t, i) # <<>>)
        BY <1>10 DEF Plain
    <2>2. Ends(t, i) = {i} /\ LexemeEnd(t, i) = i
        BY <1>10, <2>1 DEF Ends, LexemeEnd, Plain
    <2> QED BY <1>10, <2>2, FirstOfOne DEF Plain
<1> QED BY <1>5, <1>6, <1>7, <1>8, <1>9, <1>10, Zenon DEF Plain

\* A lexeme ends at the first of its ends, in the text.
LEMMA EndsSays ==
    ASSUME NEW t \in Seq(Symbols), NEW i \in 1..Len(t)
    PROVE  /\ Ends(t, i) \subseteq 1..Len(t) /\ LexemeEnd(t, i) = First(t, Ends(t, i))
           /\ LexemeEnd(t, i) \in i..Len(t) /\ (Plain(t, i) => LexemeEnd(t, i) = i)
<1>1. First(t, {i}) = i
    BY FirstOfOne
<1>2. \/ t[i] \in Quotes \/ t[i] = "\\" \/ Has(t, i, <<"-", "-">>) \/ Has(t, i, <<"/", "*">>)
      \/ TagAt(t, i) # <<>> \/ Plain(t, i)
    BY Zenon DEF Plain
<1>3. Len(t) \in Nat /\ i \in Nat /\ i >= 1 /\ i <= Len(t)
    OBVIOUS
<1>4. Ends(t, i) \subseteq 1..Len(t) /\ \A x \in Ends(t, i) : x >= i
    <2>1. TagAt(t, i) # <<>> => Len(TagAt(t, i)) \in Nat /\ Len(TagAt(t, i)) >= 2
        <3>1. SUFFICES ASSUME TagAt(t, i) # <<>> PROVE Len(TagAt(t, i)) \in Nat /\ Len(TagAt(t, i)) >= 2
            OBVIOUS
        <3>2. PICK e : TagTo(t, i, e)
            BY <3>1, TagSays
        <3>3. e \in Nat /\ e >= i + 1
            BY <3>2, <1>3 DEF TagTo
        <3>4. Len(TagAt(t, i)) = e - i + 1
            BY <3>2, TagIs
        <3> QED BY <1>3, <3>3, <3>4
    <2> QED BY <1>2, <1>3, <2>1, EndsOf
<1>5. LexemeEnd(t, i) = First(t, Ends(t, i))
    BY EndsOf
<1>6. PICK f : f = First(t, Ends(t, i))
    OBVIOUS
<1>7. f \in Nat /\ f <= Len(t) /\ f >= i
    <2>1. f \in Nat /\ f <= Len(t)
        BY <1>3, <1>4, <1>6, FirstBehind
    <2>2. CASE Ends(t, i) = {}
        BY <2>1, <2>2, <1>3, <1>6 DEF First
    <2>3. CASE Ends(t, i) # {}
        <3>1. PICK m \in Ends(t, i) : \A x \in Ends(t, i) : m <= x
            <4>1. Ends(t, i) \in SUBSET Nat
                BY <1>4
            <4> QED BY <2>3, <4>1, LeastOne
        <3>2. f = Min(Ends(t, i))
            BY <2>3, <1>6 DEF First
        <3>3. f \in Ends(t, i)
            BY <3>1, <3>2 DEF Min
        <3> QED BY <3>3, <2>1, <1>4
    <2> QED BY <2>2, <2>3
<1>8. Plain(t, i) => First(t, Ends(t, i)) = i
    BY <1>1, EndsOf
<1> QED BY <1>3, <1>4, <1>5, <1>6, <1>7, <1>8

\* Each symbol of a comment changes its depth by one at most.
LEMMA DepthSays ==
    ASSUME NEW t, NEW i \in Nat, NEW n \in Nat, n >= i
    PROVE  /\ Depth(t, i, i) = 0 /\ Depth(t, i, n) \in Int
           /\ Depth(t, i, n + 1) = Depth(t, i, n) + (IF Has(t, n, <<"/", "*">>) THEN 1 ELSE 0)
                                     - (IF Has(t, n, <<"*", "/">>) THEN 1 ELSE 0)
<1> DEFINE Counted(w, j) == {k \in i..(j - 1) : Has(t, k, w)}
<1>1. ASSUME NEW w
      PROVE  /\ Cardinality(Counted(w, i)) = 0 /\ Cardinality(Counted(w, n)) \in Nat
             /\ Cardinality(Counted(w, n + 1)) = Cardinality(Counted(w, n)) + (IF Has(t, n, w) THEN 1 ELSE 0)
    <2>1. IsFiniteSet(i..(n - 1))
        BY FS_Interval
    <2>2. PICK a : a = Counted(w, n)
        OBVIOUS
    <2>3. IsFiniteSet(a)
        <3>1. a \in SUBSET (i..(n - 1))
            BY <2>2
        <3> QED BY <2>1, <3>1, FS_Subset
    <2>4. Cardinality(a) \in Nat
        BY <2>3, FS_CardinalityType
    <2>5. Counted(w, i) = {}
        OBVIOUS
    <2>6. Cardinality(Counted(w, i)) = 0
        BY <2>5, FS_EmptySet
    <2>7. CASE Has(t, n, w)
        <3>1. Counted(w, n + 1) = a \union {n}
            BY <2>2, <2>7
        <3>2. n \notin a
            BY <2>2
        <3>3. Cardinality(a \union {n}) = Cardinality(a) + 1
            BY <2>3, <3>2, FS_AddElement
        <3> QED BY <2>2, <2>4, <2>6, <2>7, <3>1, <3>3
    <2>8. CASE ~Has(t, n, w)
        <3>1. Counted(w, n + 1) = a
            BY <2>2, <2>8
        <3> QED BY <2>2, <2>4, <2>6, <2>8, <3>1
    <2> QED BY <2>7, <2>8
<1>2. ASSUME NEW w
      PROVE  /\ Cardinality({k \in i..(i - 1) : Has(t, k, w)}) = 0
             /\ Cardinality({k \in i..(n - 1) : Has(t, k, w)}) \in Nat
             /\ Cardinality({k \in i..((n + 1) - 1) : Has(t, k, w)})
                    = Cardinality({k \in i..(n - 1) : Has(t, k, w)}) + (IF Has(t, n, w) THEN 1 ELSE 0)
    BY <1>1
<1> HIDE DEF Counted
<1>3. PICK u : u = <<"/", "*">>
    OBVIOUS
<1>4. PICK v : v = <<"*", "/">>
    OBVIOUS
<1>5. \A j : Depth(t, i, j) = Cardinality({k \in i..(j - 1) : Has(t, k, u)})
                               - Cardinality({k \in i..(j - 1) : Has(t, k, v)})
    BY <1>3, <1>4 DEF Depth
<1>6. /\ Depth(t, i, i) = 0 /\ Depth(t, i, n) \in Int
      /\ Depth(t, i, n + 1) = Depth(t, i, n) + (IF Has(t, n, u) THEN 1 ELSE 0)
                               - (IF Has(t, n, v) THEN 1 ELSE 0)
    <2>1. PICK a : a = [j \in {i, n, n + 1} |-> Cardinality({k \in i..(j - 1) : Has(t, k, u)})]
        OBVIOUS
    <2>2. PICK b : b = [j \in {i, n, n + 1} |-> Cardinality({k \in i..(j - 1) : Has(t, k, v)})]
        OBVIOUS
    <2>3. \A j \in {i, n, n + 1} : Depth(t, i, j) = a[j] - b[j]
        BY <1>5, <2>1, <2>2
    <2>4. a[i] = 0 /\ a[n] \in Nat /\ a[n + 1] = a[n] + (IF Has(t, n, u) THEN 1 ELSE 0)
        BY <1>2, <2>1
    <2>5. b[i] = 0 /\ b[n] \in Nat /\ b[n + 1] = b[n] + (IF Has(t, n, v) THEN 1 ELSE 0)
        BY <1>2, <2>2
    <2> QED BY <2>3, <2>4, <2>5
<1> QED BY <1>3, <1>4, <1>6

\* A place in a lexeme, and what came before: each lexeme ended before the next.
Reading(t, c, n) ==
    /\ c \in Lexemes(t) /\ n \in c..LexemeEnd(t, c)
    /\ \A j \in Lexemes(t) : j < c => LexemeEnd(t, j) < c
    /\ \A j \in (c + 1)..n : j \notin Lexemes(t)

\* A place where a lexeme has ended.
Between(t, n) == n = 0 \/ \E c : Reading(t, c, n) /\ LexemeEnd(t, c) = n

\* Behind the end of a lexeme the next one begins.
LEMMA NextLexeme ==
    ASSUME NEW t \in Seq(Symbols), NEW n \in Nat, n < Len(t), Between(t, n)
    PROVE  n + 1 \in Lexemes(t) /\ Reading(t, n + 1, n + 1)
<1>1. Len(t) \in Nat /\ n + 1 \in 1..Len(t)
    OBVIOUS
<1>2. /\ Lexemes(t) \subseteq 1..Len(t)
      /\ \A j \in 1..Len(t) :
            j \in Lexemes(t) <=> j = 1 \/ \E i \in 1..(j - 1) : i \in Lexemes(t) /\ LexemeEnd(t, i) = j - 1
    BY <1>1, LexemesDo
<1>3. LexemeEnd(t, n + 1) \in (n + 1)..Len(t)
    BY <1>1, EndsSays
<1>4. CASE n = 0
    <2>1. n + 1 = 1
        BY <1>4
    <2>2. n + 1 \in Lexemes(t)
        BY <1>1, <1>2, <2>1
    <2>3. \A j \in Lexemes(t) : ~(j < n + 1)
        BY <1>2, <2>1
    <2> QED BY <1>1, <1>3, <2>2, <2>3 DEF Reading
<1>5. CASE n # 0
    <2>1. PICK c : Reading(t, c, n) /\ LexemeEnd(t, c) = n
        BY <1>5 DEF Between
    <2>2. c \in Lexemes(t) /\ c \in 1..n /\ (n + 1) - 1 = n
        BY <1>2, <2>1 DEF Reading
    <2>3. n + 1 \in Lexemes(t)
        <3>1. \E i \in 1..((n + 1) - 1) : i \in Lexemes(t) /\ LexemeEnd(t, i) = (n + 1) - 1
            BY <2>1, <2>2
        <3> QED BY <1>1, <1>2, <3>1
    <2>4. ASSUME NEW j \in Lexemes(t), j < n + 1 PROVE LexemeEnd(t, j) < n + 1
        <3>1. j \in 1..n
            BY <1>2, <2>4
        <3>2. j <= c
            BY <2>1, <2>2, <3>1 DEF Reading
        <3>3. CASE j = c
            BY <2>1, <3>3
        <3>4. CASE j < c
            <4>1. LexemeEnd(t, j) < c
                BY <2>1, <3>4 DEF Reading
            <4>2. LexemeEnd(t, j) \in j..Len(t)
                BY <1>1, <3>1, EndsSays
            <4> QED BY <4>1, <4>2, <2>2, <1>1
        <3> QED BY <2>2, <3>1, <3>2, <3>3, <3>4
    <2> QED BY <1>1, <1>3, <2>3, <2>4 DEF Reading
<1> QED BY <1>4, <1>5

\* Before its end a lexeme goes on.
LEMMA SameLexeme ==
    ASSUME NEW t \in Seq(Symbols), NEW n \in Nat, NEW c, Reading(t, c, n), n < LexemeEnd(t, c)
    PROVE  n + 1 \notin Lexemes(t) /\ Reading(t, c, n + 1)
<1>1. Len(t) \in Nat
    OBVIOUS
<1>2. /\ Lexemes(t) \subseteq 1..Len(t)
      /\ \A j \in 1..Len(t) :
            j \in Lexemes(t) <=> j = 1 \/ \E i \in 1..(j - 1) : i \in Lexemes(t) /\ LexemeEnd(t, i) = j - 1
    BY <1>1, LexemesDo
<1>3. c \in 1..Len(t) /\ c <= n /\ LexemeEnd(t, c) \in c..Len(t)
    <2>1. c \in 1..Len(t)
        BY <1>2 DEF Reading
    <2>2. LexemeEnd(t, c) \in c..Len(t)
        BY <2>1, EndsSays
    <2> QED BY <2>1, <2>2 DEF Reading
<1>4. n + 1 \notin Lexemes(t)
    <2>1. SUFFICES ASSUME n + 1 \in Lexemes(t) PROVE FALSE
        OBVIOUS
    <2>2. n + 1 # 1 /\ (n + 1) - 1 = n
        BY <1>3
    <2>3. PICK i \in 1..n : i \in Lexemes(t) /\ LexemeEnd(t, i) = n
        BY <1>2, <2>1, <2>2
    <2>4. i <= c
        BY <2>3 DEF Reading
    <2>5. CASE i = c
        BY <1>3, <2>3, <2>5
    <2>6. CASE i < c
        <3>1. LexemeEnd(t, i) < c
            BY <2>3, <2>6 DEF Reading
        <3> QED BY <3>1, <2>3, <1>3
    <2> QED BY <1>3, <2>4, <2>5, <2>6
<1>5. n + 1 \in c..LexemeEnd(t, c)
    BY <1>3
<1>6. \A j \in (c + 1)..(n + 1) : j \in (c + 1)..n \/ j = n + 1
    BY <1>3
<1> QED BY <1>4, <1>5, <1>6 DEF Reading

-----------------------------------------------------------------------------
(* Groups *)

\* The groups that are open after so many symbols of a text.
GroupsAt(t, n) == Groups(t, Lexemes(t))[n]

\* Groups are named by their delimiters.
LEMMA GroupedType ==
    ASSUME NEW t, NEW i, NEW L, NEW g \in Seq(Delimiters)
    PROVE  Grouped(t, i, L, g) \in Seq(Delimiters)
<1>1. \A d \in Delimiters : <<d>> \o g \in Seq(Delimiters)
    OBVIOUS
<1>2. g # <<>> => Tail(g) \in Seq(Delimiters)
    OBVIOUS
<1>3. <<")">> \o g \in Seq(Delimiters) /\ <<"END">> \o g \in Seq(Delimiters)
    BY <1>1 DEF Delimiters
<1> QED BY <1>2, <1>3 DEF Grouped

\* The groups of a text are given by their delimiters.
LEMMA GroupsType ==
    ASSUME NEW t \in Seq(Symbols), NEW n \in 0..Len(t)
    PROVE  GroupsAt(t, n) \in Seq(Delimiters)
<1> DEFINE T == {k \in Nat : k <= Len(t) => GroupsAt(t, k) \in Seq(Delimiters)}
<1>1. Len(t) \in Nat
    OBVIOUS
<1>2. /\ GroupsAt(t, 0) = <<>>
      /\ \A i \in 1..Len(t) : GroupsAt(t, i) = IF i \in Lexemes(t)
                                               THEN Grouped(t, i, Lexemes(t), GroupsAt(t, i - 1))
                                               ELSE GroupsAt(t, i - 1)
    BY <1>1, GroupsDo DEF GroupsAt
<1>3. 0 \in T
    <2>1. <<>> \in Seq(Delimiters)
        OBVIOUS
    <2> QED BY <1>2, <2>1
<1>4. ASSUME NEW k \in Nat, k \in T PROVE k + 1 \in T
    <2>1. SUFFICES ASSUME k + 1 <= Len(t) PROVE GroupsAt(t, k + 1) \in Seq(Delimiters)
        OBVIOUS
    <2>2. k + 1 \in 1..Len(t) /\ (k + 1) - 1 = k /\ GroupsAt(t, k) \in Seq(Delimiters)
        BY <1>1, <1>4, <2>1
    <2>3. Grouped(t, k + 1, Lexemes(t), GroupsAt(t, k)) \in Seq(Delimiters)
        BY <2>2, GroupedType
    <2> QED BY <1>2, <2>2, <2>3
<1>5. n \in T
    <2> HIDE DEF T
    <2> QED BY <1>1, <1>3, <1>4, Climb
<1> QED BY <1>1, <1>5

\* The next symbol opens a group, closes one, or leaves them as they are.
LEMMA GroupsNext ==
    ASSUME NEW t \in Seq(Symbols), NEW n \in Nat, n < Len(t)
    PROVE  GroupsAt(t, n + 1) = IF n + 1 \in Lexemes(t)
                                THEN Grouped(t, n + 1, Lexemes(t), GroupsAt(t, n)) ELSE GroupsAt(t, n)
<1>1. Len(t) \in Nat /\ n + 1 \in 1..Len(t) /\ (n + 1) - 1 = n
    OBVIOUS
<1>2. \A i \in 1..Len(t) : GroupsAt(t, i) = IF i \in Lexemes(t)
                                            THEN Grouped(t, i, Lexemes(t), GroupsAt(t, i - 1))
                                            ELSE GroupsAt(t, i - 1)
    BY <1>1, GroupsDo DEF GroupsAt
<1> QED BY <1>1, <1>2

\* No group stands directly in another of its kind.
LEMMA NotNested ==
    ASSUME NEW t \in Seq(Symbols), ~Nested(t), NEW n \in 0..Len(t), Len(GroupsAt(t, n)) >= 2
    PROVE  GroupsAt(t, n)[2] # Head(GroupsAt(t, n))
<1>1. PICK g : g = GroupsAt(t, n)
    OBVIOUS
<1>2. g \in Seq(Delimiters) /\ Len(g) >= 2
    BY <1>1, GroupsType
<1>3. n # 0
    <2>1. SUFFICES ASSUME n = 0 PROVE FALSE
        OBVIOUS
    <2>2. Len(t) \in Nat
        OBVIOUS
    <2>3. GroupsAt(t, 0) = <<>>
        BY <2>2, GroupsDo DEF GroupsAt
    <2> QED BY <1>1, <1>2, <2>1, <2>3
<1>4. g \in Seq(Symbols) /\ Head(g) = g[1] /\ g[1] \in Delimiters
    BY <1>2 DEF Delimiters, Symbols
<1>5. \A d \in Delimiters : ~Has(g, 1, <<d, d>>)
    <2>1. n \in 1..Len(t)
        BY <1>3
    <2> QED BY <1>1, <2>1, Zenon DEF Nested, GroupsAt, Delimiters
<1>6. \A d \in Delimiters : d \in Symbols
    BY DEF Delimiters, Symbols
<1>7. Has(g, 1, <<g[1], g[1]>>) <=> 1 + 1 <= Len(g) /\ g[1] = g[1] /\ g[1 + 1] = g[1]
    <2>1. g[1] \in Symbols /\ 1 \in Nat \ {0}
        BY <1>4, <1>6
    <2> QED BY <1>4, <2>1, HasTwo, Zenon
<1>8. 1 + 1 = 2
    OBVIOUS
<1> QED BY <1>1, <1>2, <1>4, <1>5, <1>7, <1>8

\* What a group is made of, where keywords stand alone and no CASE has an END.
LEMMA GroupedSays ==
    ASSUME NEW t, NEW i, NEW L, NEW g \in Seq(Delimiters),
           t[i] \in {"ATOMIC", "END"} => Whole(t, i),
           ~(t[i] = "CASE" /\ Whole(t, i) /\ Contains(g, "END"))
    PROVE  Grouped(t, i, L, g) = IF t[i] = "(" THEN <<")">> \o g
                                 ELSE IF BeginsBody(t, i, L) THEN <<"END">> \o g
                                 ELSE IF g # <<>> /\ t[i] = Head(g) THEN Tail(g) ELSE g
<1>1. BeginsBody(t, i, L) => t[i] = "ATOMIC"
    BY DEF BeginsBody
<1>2. g # <<>> => Head(g) \in {")", "END"}
    BY DEF Delimiters
<1>3. CASE t[i] = "("
    BY <1>1, <1>2, <1>3 DEF Grouped
<1>4. CASE t[i] # "(" /\ BeginsBody(t, i, L)
    BY <1>1, <1>2, <1>4 DEF Grouped
<1>5. CASE t[i] # "(" /\ ~BeginsBody(t, i, L) /\ g # <<>> /\ t[i] = Head(g)
    BY <1>2, <1>5 DEF Grouped
<1>6. CASE t[i] # "(" /\ ~BeginsBody(t, i, L) /\ ~(g # <<>> /\ t[i] = Head(g))
    BY <1>6 DEF Grouped
<1> QED BY <1>3, <1>4, <1>5, <1>6

\* What a text is not, for each of its lexemes.
LEMMA NotMisread ==
    ASSUME NEW t \in Seq(Symbols), ~Misread(t), NEW i \in Lexemes(t)
    PROVE  /\ i \in 1..Len(t)
           /\ ~Has(t, i, <<"/", "*", "/">>)
           /\ TagAt(t, i) # <<>> => ~Has(t, i + Len(TagAt(t, i)), Tail(TagAt(t, i)))
           /\ t[i] \in {"ATOMIC", "END"} => Whole(t, i)
           /\ ~(t[i] = "CASE" /\ Whole(t, i) /\ Contains(GroupsAt(t, i - 1), "END"))
           /\ \A j \in (i + 2)..Len(t) :
                 GroupsAt(t, i) # <<>> /\ t[i] = "-" /\ t[j] = "-"
                    => \E k \in (i + 1)..(j - 1) : t[k] # "semicolon"
           /\ \A j \in (i + 1)..(Len(t) - 1) :
                 GroupsAt(t, i) # <<>> /\ t[i] = "$" /\ t[j] = "semicolon" /\ t[j + 1] \in Identifier
                    => \E k \in (i + 1)..(j - 1) : t[k] \notin Identifier \union {"semicolon"}
           /\ GroupsAt(t, i) # <<>> /\ t[i] = "\\" /\ i < Len(t) => t[i + 1] # Head(GroupsAt(t, i))
           /\ \A b \in 1..(i - 1) :
                 t[i] = "ATOMIC" /\ t[b] = "BEGIN" /\ (\A k \in (b + 1)..(i - 1) : t[k] \in {"space", "\n"})
                    => b \in Lexemes(t)
<1>1. i \in 1..Len(t)
    <2>1. Len(t) \in Nat
        OBVIOUS
    <2> QED BY <2>1, LexemesDo
<1> QED BY <1>1, Zenon DEF Misread, GroupsAt

-----------------------------------------------------------------------------
(* What was read of a statement *)

\* What was read of a statement is a part of the text.
LEMMA DataSays ==
    ASSUME NEW t \in Seq(Symbols), NEW n \in 1..Len(t), NEW s, Separated(t, s, n)
    PROVE  /\ s \in Nat /\ s < n /\ n \in Nat /\ Len(t) \in Nat /\ n <= Len(t)
           /\ SubSeq(t, s + 1, n) \in Seq(Symbols) /\ Len(SubSeq(t, s + 1, n)) = n - s
           /\ \A k \in 1..(n - s) : SubSeq(t, s + 1, n)[k] = t[s + k]
<1>1. s \in Nat /\ s < n /\ n \in Nat /\ Len(t) \in Nat /\ n <= Len(t)
    BY DEF Separated
<1>2. PICK D : D = SubSeq(t, s + 1, n)
    OBVIOUS
<1>3. \A k \in (s + 1)..n : t[k] \in Symbols
    BY <1>1
<1>4. n - (s + 1) + 1 = n - s /\ \A k \in 1..(n - s) : (s + 1) + k - 1 = s + k
    BY <1>1
<1>5. s + 1 \in Int /\ n \in Int /\ s + 1 <= n
    BY <1>1
<1>6. D \in Seq(Symbols) /\ Len(D) = n - s /\ \A k \in 1..(n - s) : D[k] = t[s + k]
    BY <1>2, <1>3, <1>4, <1>5, SubSeqProperties
<1> QED BY <1>1, <1>2, <1>6

\* It ends with a symbol.
LEMMA EndsWithOne ==
    ASSUME NEW t \in Seq(Symbols), NEW n \in 1..Len(t), NEW s, Separated(t, s, n),
           NEW d \in Symbols, d # "semicolon"
    PROVE  EndsWith(SubSeq(t, s + 1, n), <<d>>) <=> t[n] = d
<1>1. PICK w : w = <<d>>
    OBVIOUS
<1>2. w \in Seq(Symbols) /\ Len(w) = 1 /\ w[1] = d /\ w # <<>> /\ \A k \in 1..Len(w) : w[k] # "semicolon"
    BY <1>1
<1>3. EndsWith(SubSeq(t, s + 1, n), w) <=> Len(w) <= n /\ Has(t, n - Len(w) + 1, w)
    BY <1>2, EndsWithSays, Zenon
<1>4. n \in Nat /\ n >= 1 /\ n <= Len(t) /\ n - Len(w) + 1 = n /\ n + Len(w) - 1 = n /\ Len(t) \in Nat
    BY <1>2
<1>5. Has(t, n, w) <=> n + Len(w) - 1 <= Len(t) /\ \A k \in 1..Len(w) : t[n + k - 1] = w[k]
    <2>1. n \in Nat \ {0}
        BY <1>4
    <2> QED BY <1>2, <2>1, HasSays, Zenon
<1>6. (\A k \in 1..Len(w) : t[n + k - 1] = w[k]) <=> t[n] = d
    <2>1. (\A k \in 1..1 : t[n + k - 1] = w[k]) <=> t[n + 1 - 1] = w[1]
        BY Z3
    <2>2. n + 1 - 1 = n
        BY <1>4
    <2> QED BY <1>2, <2>1, <2>2
<1>7. Has(t, n, w) <=> t[n] = d
    BY <1>4, <1>5, <1>6
<1>8. Len(w) <= n
    BY <1>2, <1>4
<1> QED BY <1>1, <1>3, <1>4, <1>7, <1>8

\* It ends with two symbols.
LEMMA EndsWithTwo ==
    ASSUME NEW t \in Seq(Symbols), NEW n \in 1..Len(t), NEW s, Separated(t, s, n),
           NEW x \in Symbols, x # "semicolon", NEW y \in Symbols, y # "semicolon"
    PROVE  EndsWith(SubSeq(t, s + 1, n), <<x, y>>) <=> n >= 2 /\ Has(t, n - 1, <<x, y>>)
<1>1. PICK w : w = <<x, y>>
    OBVIOUS
<1>2. w \in Seq(Symbols) /\ Len(w) = 2 /\ w # <<>> /\ \A k \in 1..Len(w) : w[k] # "semicolon"
    <2>1. w \in Seq(Symbols) /\ Len(w) = 2 /\ w[1] = x /\ w[2] = y
        BY <1>1
    <2>2. \A k \in 1..Len(w) : k = 1 \/ k = 2
        BY <2>1
    <2>3. Len(<<>>) = 0
        OBVIOUS
    <2>4. w # <<>>
        <3>1. SUFFICES ASSUME w = <<>> PROVE FALSE
            OBVIOUS
        <3> QED BY <2>1, <2>3, <3>1
    <2> QED BY <2>1, <2>2, <2>4
<1>3. EndsWith(SubSeq(t, s + 1, n), w) <=> Len(w) <= n /\ Has(t, n - Len(w) + 1, w)
    BY <1>2, EndsWithSays, Zenon
<1>4. n - Len(w) + 1 = n - 1 /\ (Len(w) <= n <=> n >= 2)
    BY <1>2
<1> QED BY <1>1, <1>3, <1>4

\* The tokenizer sees that the body of a function begins.
LEMMA BeginsBodySays ==
    ASSUME NEW t \in Seq(Symbols), ~Misread(t), NEW i \in Lexemes(t), t[i] = "ATOMIC",
           NEW s, Separated(t, s, i)
    PROVE  IsBeginAtomic(SubSeq(t, s + 1, i)) <=> BeginsBody(t, i, Lexemes(t))
<1>1. i \in 1..Len(t) /\ Whole(t, i)
    BY NotMisread
<1>2. PICK D : D = SubSeq(t, s + 1, i)
    OBVIOUS
<1>3. /\ s \in Nat /\ s < i /\ i \in Nat /\ Len(t) \in Nat /\ i <= Len(t)
      /\ D \in Seq(Symbols) /\ Len(D) = i - s
      /\ \A k \in 1..(i - s) : D[k] = t[s + k]
    BY <1>1, <1>2, DataSays
<1>4. EndsWith(D, <<"ATOMIC">>)
    <2>1. "ATOMIC" \in Symbols /\ "ATOMIC" # "semicolon"
        BY DEF Symbols
    <2> QED BY <1>1, <1>2, <2>1, EndsWithOne
<1>5. ASSUME IsBeginAtomic(D) PROVE BeginsBody(t, i, Lexemes(t))
    <2>1. PICK b \in 1..(Len(D) - 2) :
              /\ D[b] = "BEGIN" /\ (b > 1 => D[b - 1] \notin Identifier)
              /\ \A k \in (b + 1)..(Len(D) - 1) : D[k] \in {"space", "\n"}
        BY <1>5 DEF IsBeginAtomic
    <2>2. b \in 1..(i - s - 2) /\ b \in 1..(i - s) /\ s + b \in 1..(i - 1) /\ s + b \in 1..Len(t)
        BY <1>3, <2>1
    <2>3. t[s + b] = "BEGIN"
        BY <1>3, <2>1, <2>2
    <2>4. ASSUME NEW k \in (s + b + 1)..(i - 1) PROVE t[k] \in {"space", "\n"}
        <3>1. k - s \in (b + 1)..(Len(D) - 1) /\ k - s \in 1..(i - s) /\ s + (k - s) = k
            BY <1>3, <2>2, <2>4
        <3> QED BY <1>3, <2>1, <3>1
    <2>5. s + b \in Lexemes(t)
        BY <2>2, <2>3, <2>4, NotMisread
    <2>6. Whole(t, s + b)
        <3>1. ASSUME s + b > 1 PROVE t[(s + b) - 1] \notin Identifier
            <4>1. CASE b > 1
                <5>1. b - 1 \in 1..(i - s) /\ s + (b - 1) = (s + b) - 1
                    BY <1>3, <2>2, <4>1
                <5>2. D[b - 1] = t[(s + b) - 1]
                    BY <1>3, <5>1
                <5> QED BY <2>1, <4>1, <5>2
            <4>2. CASE ~(b > 1)
                <5>1. (s + b) - 1 = s /\ s # 0
                    BY <1>3, <2>2, <3>1, <4>2
                <5> QED BY <5>1 DEF Separated, Identifier, Words
            <4> QED BY <4>1, <4>2
        <3>2. t[s + b + 1] \notin Identifier
            <4>1. s + b + 1 \in (s + b + 1)..(i - 1)
                BY <1>3, <2>2
            <4>2. t[s + b + 1] \in {"space", "\n"}
                BY <2>4, <4>1
            <4> QED BY <4>2 DEF Identifier, Words
        <3> QED BY <3>1, <3>2, Zenon DEF Whole
    <2>7. s + b < i
        BY <1>3, <2>2
    <2> QED BY <1>1, <2>3, <2>4, <2>5, <2>6, <2>7 DEF BeginsBody
<1>6. ASSUME BeginsBody(t, i, Lexemes(t)) PROVE IsBeginAtomic(D)
    <2>1. PICK b \in Lexemes(t) : /\ b < i /\ t[b] = "BEGIN" /\ Whole(t, b)
                                  /\ \A k \in (b + 1)..(i - 1) : t[k] \in {"space", "\n"}
        BY <1>6 DEF BeginsBody
    <2>2. b \in 1..Len(t) /\ b \in Nat /\ b >= 1 /\ b < Len(t)
        BY <1>3, <2>1, LexemesDo
    <2>3. b + 1 # i
        BY <2>1, <2>2 DEF Whole, Identifier, Words
    <2>4. b > s
        <3>1. SUFFICES ASSUME ~(b > s) PROVE FALSE
            OBVIOUS
        <3>2. s # 0 /\ t[s] = "semicolon"
            BY <1>3, <2>2, <3>1 DEF Separated
        <3>3. s \in (b + 1)..(i - 1)
            BY <1>3, <2>1, <2>2, <3>1, <3>2
        <3> QED BY <2>1, <3>2, <3>3
    <2>5. b - s \in 1..(Len(D) - 2) /\ b - s \in 1..(i - s) /\ s + (b - s) = b
        BY <1>3, <2>1, <2>2, <2>3, <2>4
    <2>6. D[b - s] = "BEGIN"
        BY <1>3, <2>1, <2>5
    <2>7. ASSUME b - s > 1 PROVE D[b - s - 1] \notin Identifier
        <3>1. b - s - 1 \in 1..(i - s) /\ s + (b - s - 1) = b - 1 /\ b > 1
            BY <1>3, <2>1, <2>2, <2>7
        <3> QED BY <1>3, <2>1, <3>1 DEF Whole
    <2>8. ASSUME NEW k \in (b - s + 1)..(Len(D) - 1) PROVE D[k] \in {"space", "\n"}
        <3>1. k \in 1..(i - s) /\ s + k \in (b + 1)..(i - 1)
            BY <1>3, <2>2, <2>4, <2>8
        <3> QED BY <1>3, <2>1, <3>1
    <2>9. \E b2 \in 1..(Len(D) - 2) :
              /\ D[b2] = "BEGIN" /\ (b2 > 1 => D[b2 - 1] \notin Identifier)
              /\ \A k \in (b2 + 1)..(Len(D) - 1) : D[k] \in {"space", "\n"}
        BY <2>5, <2>6, <2>7, <2>8
    <2> QED BY <1>4, <2>9 DEF IsBeginAtomic
<1> QED BY <1>2, <1>5, <1>6

-----------------------------------------------------------------------------
(* One symbol *)

\* The innermost state in which statements end.
ReadyPiece == [kind |-> "ready"]

\* A rune of several bytes is read twice.
AfterState(st, r, data) ==
    IF r = "wide" THEN NextState(NextState(st, r, data), Invalid, data) ELSE NextState(st, r, data)

\* What the innermost state becomes, where it is not ready at the delimiter of its group.
Becomes(m, r, data, g, m3) ==
    \E m2 \in Pieces :
        /\ FromInnermost(m, r, data) = <<m2>> /\ (g # <<>> /\ m2 = ReadyPiece => r # Head(g))
        /\ m3 \in Pieces /\ IF r = "wide" THEN FromInnermost(m2, Invalid, data) = <<m3>> ELSE m3 = m2

\* The state that is ready has one piece.
LEMMA ReadyIsPiece == ReadyPiece \in Pieces /\ Ready = <<ReadyPiece>>
BY DEF ReadyPiece, Pieces, Ready

\* The delimiter of a group is the symbol that was read.
LEMMA AtDelimiter ==
    ASSUME NEW t \in Seq(Symbols), NEW n \in 1..Len(t), NEW s, Separated(t, s, n),
           NEW g \in Seq(Delimiters), g # <<>>
    PROVE  /\ Head(g) \in Delimiters
           /\ EndsWith(SubSeq(t, s + 1, n), <<Head(g)>>) <=> t[n] = Head(g)
<1>1. PICK d : d = Head(g)
    OBVIOUS
<1>2. d \in Delimiters
    BY <1>1
<1>3. d \in Symbols /\ d # "semicolon"
    BY <1>2 DEF Delimiters, Symbols
<1> QED BY <1>1, <1>2, <1>3, EndsWithOne, Zenon

\* The innermost state goes on inside the groups, which stay.
LEMMA OneInside ==
    ASSUME NEW g \in Seq(Delimiters), NEW m \in Pieces, NEW r, NEW data, NEW m2 \in Pieces,
           Goes(m, r, data, <<m2>>), Stays(g, <<m2>>, data)
    PROVE  NextState(Wrap(g) \o <<m>>, r, data) = Wrap(g) \o <<m2>>
<1>1. PICK x : x = <<m2>>
    OBVIOUS
<1>2. x \in Seq(Pieces) /\ Len(x) = 1 /\ x[1] = m2
    BY <1>1
<1>6. Stays(g, x, data)
    BY <1>1
<1>7. NextState(Wrap(g) \o <<m>>, r, data) = Wrap(g) \o x
    <2>1. Goes(m, r, data, x)
        BY <1>1
    <2> QED BY <1>2, <1>6, <2>1, GoesOnInside, Zenon
<1> QED BY <1>1, <1>7

\* A state of one piece is no end of a statement.
LEMMA OneGoes ==
    ASSUME NEW m, NEW r, NEW data, NEW m2, FromInnermost(m, r, data) = <<m2>>
    PROVE  Goes(m, r, data, <<m2>>)
<1>1. <<m2>> # Emit
    <2>1. Len(<<>>) = 0 /\ Len(<<m2>>) = 1
        OBVIOUS
    <2> QED BY <2>1 DEF Emit
<1> QED BY <1>1 DEF Goes

\* A group stays around a piece that is not ready at its delimiter.
LEMMA OneStays ==
    ASSUME NEW g, NEW m, NEW data, g # <<>> => ~(m = ReadyPiece /\ EndsWith(data, <<Head(g)>>))
    PROVE  Stays(g, <<m>>, data)
<1>1. <<m>> = Ready => m = ReadyPiece
    <2>1. <<m>>[1] = m /\ Ready[1] = ReadyPiece
        BY DEF Ready, ReadyPiece
    <2> QED BY <2>1
<1> QED BY <1>1 DEF Stays

\* The state that a symbol leads to.
Leads(g, m, r, data, m3) == AfterState(Wrap(g) \o <<m>>, r, data) = Wrap(g) \o <<m3>>

\* The innermost state alone changes.
LEMMA BecomesState ==
    ASSUME NEW t \in Seq(Symbols), NEW n \in 1..Len(t), NEW s, Separated(t, s, n),
           NEW g \in Seq(Delimiters), NEW m \in Pieces, NEW m3,
           NEW r, r = t[n], NEW data, data = SubSeq(t, s + 1, n), Becomes(m, r, data, g, m3)
    PROVE  Leads(g, m, r, data, m3)
<1>1. data = SubSeq(t, s + 1, n)
    OBVIOUS
<1>2. r = t[n]
    OBVIOUS
<1>3. PICK m2 \in Pieces :
        /\ FromInnermost(m, r, data) = <<m2>> /\ (g # <<>> /\ m2 = ReadyPiece => r # Head(g))
        /\ m3 \in Pieces /\ IF r = "wide" THEN FromInnermost(m2, Invalid, data) = <<m3>> ELSE m3 = m2
    BY <1>1, <1>2, Zenon DEF Becomes
<1>4. g # <<>> => Head(g) \in Delimiters /\ (EndsWith(data, <<Head(g)>>) <=> r = Head(g))
    BY <1>1, <1>2, AtDelimiter, Zenon
<1>5. NextState(Wrap(g) \o <<m>>, r, data) = Wrap(g) \o <<m2>>
    <2>1. Stays(g, <<m2>>, data)
        BY <1>3, <1>4, OneStays
    <2>2. Goes(m, r, data, <<m2>>)
        BY <1>3, OneGoes, Zenon
    <2> QED BY <1>3, <2>1, <2>2, OneInside, Zenon
<1>6. CASE r = "wide"
    <2>1. g # <<>> => ~EndsWith(data, <<Head(g)>>)
        BY <1>4, <1>6 DEF Delimiters
    <2>2. FromInnermost(m2, Invalid, data) = <<m3>>
        BY <1>3, <1>6
    <2>3. NextState(Wrap(g) \o <<m2>>, Invalid, data) = Wrap(g) \o <<m3>>
        <3>1. Stays(g, <<m3>>, data)
            BY <2>1, OneStays
        <3>2. Goes(m2, Invalid, data, <<m3>>)
            BY <2>2, OneGoes, Zenon
        <3>3. m3 \in Pieces
            BY <1>3
        <3> QED BY <3>1, <3>2, <3>3, OneInside, Zenon
    <2> QED BY <1>1, <1>2, <1>3, <1>5, <1>6, <2>3, Zenon DEF AfterState, Leads
<1>7. CASE r # "wide"
    BY <1>1, <1>2, <1>3, <1>5, <1>7, Zenon DEF AfterState, Leads
<1> QED BY <1>6, <1>7

-----------------------------------------------------------------------------
(* Between lexemes *)

\* A "-" was read that opened no comment, or the separators behind it, in a group.
Dashed(t, n) ==
    \E j \in Lexemes(t) :
        /\ j <= n /\ t[j] = "-" /\ ~Has(t, j, <<"-", "-">>)
        /\ (\A k \in (j + 1)..n : t[k] = "semicolon") /\ (j < n => GroupsAt(t, j) # <<>>)

\* A "$" was read that opened no quote, and what may be in its tag.
InTag(t, n) ==
    \E p \in Lexemes(t) :
        /\ p <= n /\ t[p] = "$" /\ TagAt(t, p) = <<>> /\ GroupsAt(t, p) = GroupsAt(t, n)
        /\ \A k \in (p + 1)..n : t[k] \in {"a"} \union Words

\* Or separators behind it, in a group.
BehindTag(t, n) ==
    \E p \in Lexemes(t) :
        /\ p < n /\ t[p] = "$" /\ t[n] = "semicolon" /\ GroupsAt(t, p) # <<>>
        /\ \A k \in (p + 1)..n : t[k] \in Identifier \union {"semicolon"}

\* The innermost state where a lexeme has ended.
Idle(t, m, n) ==
    \/ m = ReadyPiece
    \/ m = [kind |-> "comment"] /\ Dashed(t, n)
    \/ m = [kind |-> "block", depth |-> 0] /\ ~Has(t, n, <<"/", "*">>)
    \/ \E q \in Quotes : m = [kind |-> "quote", delimiter |-> q, escape |-> TRUE]
    \/ m \in [kind : {"tag"}, offset : Int] /\ (InTag(t, n) \/ BehindTag(t, n))

\* A "-" that was read does not make a comment of the next.
LEMMA DashEnds ==
    ASSUME NEW t \in Seq(Symbols), ~Misread(t), NEW n \in Nat, n < Len(t), Dashed(t, n)
    PROVE  t[n + 1] # "-"
<1>1. PICK j \in Lexemes(t) :
        /\ j <= n /\ t[j] = "-" /\ ~Has(t, j, <<"-", "-">>)
        /\ (\A k \in (j + 1)..n : t[k] = "semicolon") /\ (j < n => GroupsAt(t, j) # <<>>)
    BY DEF Dashed
<1>2. j \in 1..Len(t) /\ j \in Nat \ {0} /\ Len(t) \in Nat
    BY NotMisread
<1>3. SUFFICES ASSUME t[n + 1] = "-" PROVE FALSE
    OBVIOUS
<1>4. CASE j = n
    <2>1. "-" \in Symbols
        BY DEF Symbols
    <2>2. Has(t, j, <<"-", "-">>) <=> j + 1 <= Len(t) /\ t[j] = "-" /\ t[j + 1] = "-"
        BY <1>2, <2>1, HasTwo, Zenon
    <2> QED BY <1>1, <1>2, <1>3, <1>4, <2>2
<1>5. CASE j < n
    <2>1. n + 1 \in (j + 2)..Len(t) /\ (n + 1) - 1 = n
        BY <1>2, <1>5
    <2>2. \E k \in (j + 1)..n : t[k] # "semicolon"
        BY <1>1, <1>3, <1>5, <2>1, NotMisread
    <2> QED BY <1>1, <2>2
<1> QED BY <1>1, <1>2, <1>4, <1>5

\* A "$" that was read opens no quote later.
LEMMA TagEnds ==
    ASSUME NEW t \in Seq(Symbols), ~Misread(t), NEW n \in Nat, n < Len(t)
    PROVE  /\ InTag(t, n) => t[n + 1] # "$" /\ n # 0 /\ t[n] \in Identifier
           /\ BehindTag(t, n) => t[n + 1] \notin Identifier
<1>1. ASSUME InTag(t, n) PROVE t[n + 1] # "$" /\ n # 0 /\ t[n] \in Identifier
    <2>1. PICK p \in Lexemes(t) :
            /\ p <= n /\ t[p] = "$" /\ TagAt(t, p) = <<>>
            /\ \A k \in (p + 1)..n : t[k] \in {"a"} \union Words
        BY <1>1 DEF InTag
    <2>2. p \in 1..Len(t) /\ p \in Nat /\ p >= 1 /\ Len(t) \in Nat
        BY NotMisread
    <2>3. t[n + 1] # "$"
        <3>1. SUFFICES ASSUME t[n + 1] = "$" PROVE FALSE
            OBVIOUS
        <3>2. n + 1 \in (p + 1)..Len(t) /\ (n + 1) - 1 = n
            BY <2>1, <2>2
        <3>3. TagTo(t, p, n + 1)
            BY <2>1, <3>1, <3>2 DEF TagTo
        <3> QED BY <2>1, <2>2, <3>3, TagIs, Zenon
    <2>4. t[n] \in Identifier
        <3>1. n = p \/ n \in (p + 1)..n
            BY <2>1, <2>2
        <3> QED BY <2>1, <3>1 DEF Identifier
    <2> QED BY <2>1, <2>2, <2>3, <2>4
<1>2. ASSUME BehindTag(t, n) PROVE t[n + 1] \notin Identifier
    <2>1. PICK p \in Lexemes(t) :
            /\ p < n /\ t[p] = "$" /\ t[n] = "semicolon" /\ GroupsAt(t, p) # <<>>
            /\ \A k \in (p + 1)..n : t[k] \in Identifier \union {"semicolon"}
        BY <1>2 DEF BehindTag
    <2>2. p \in 1..Len(t) /\ p \in Nat /\ p >= 1 /\ Len(t) \in Nat
        BY NotMisread
    <2>3. n \in (p + 1)..(Len(t) - 1)
        BY <2>1, <2>2
    <2>4. \A k \in (p + 1)..(n - 1) : k \in (p + 1)..n
        BY <2>2
    <2>5. t[n + 1] \in Identifier => \E k \in (p + 1)..(n - 1) : t[k] \notin Identifier \union {"semicolon"}
        BY <2>1, <2>3, NotMisread
    <2> QED BY <2>1, <2>4, <2>5
<1> QED BY <1>1, <1>2

\* The innermost state is left as if it was ready, or is a tag that goes on.
AsIfReady(t, m, n, r, data, letters) ==
    \/ FromInnermost(m, r, data) = FromReady(r, data)
    \/ /\ m \in [kind : {"tag"}, offset : Int] /\ InTag(t, n)
       /\ r \in letters /\ FromInnermost(m, r, data) = <<m>>

\* Between lexemes all is as if it was ready, apart from what may be in a tag.
LEMMA FromIdle ==
    ASSUME NEW t \in Seq(Symbols), ~Misread(t), NEW n \in Nat, n < Len(t),
           NEW s, Separated(t, s, n + 1), NEW m, Idle(t, m, n), NEW r, r = t[n + 1],
           NEW data, data = SubSeq(t, s + 1, n + 1)
    PROVE  AsIfReady(t, m, n, r, data, {"a", "wide"} \union Words)
<1>1. CASE m = ReadyPiece
    BY <1>1 DEF FromInnermost, ReadyPiece, AsIfReady
<1>2. CASE m = [kind |-> "comment"] /\ Dashed(t, n)
    <2>1. r # "-"
        BY <1>2, DashEnds
    <2> QED BY <1>2, <2>1 DEF FromInnermost, AsIfReady
<1>3. CASE m = [kind |-> "block", depth |-> 0] /\ ~Has(t, n, <<"/", "*">>)
    <2>1. ~EndsWith(data, <<"/", "*">>)
        <3>1. "/" \in Symbols /\ "*" \in Symbols /\ "/" # "semicolon" /\ "*" # "semicolon"
            BY DEF Symbols
        <3>2. n + 1 \in 1..Len(t) /\ (n + 1) - 1 = n
            OBVIOUS
        <3>3. EndsWith(data, <<"/", "*">>) => Has(t, (n + 1) - 1, <<"/", "*">>)
            BY <3>1, <3>2, EndsWithTwo, Zenon
        <3> QED BY <1>3, <3>2, <3>3
    <2>2. FromInnermost(m, r, data) = FromBlock(m, r, data)
        BY <1>3 DEF FromInnermost
    <2>3. FromBlock(m, r, data) = FromReady(r, data)
        BY <1>3, <2>1 DEF FromBlock
    <2> QED BY <2>2, <2>3 DEF AsIfReady
<1>4. CASE \E q \in Quotes : m = [kind |-> "quote", delimiter |-> q, escape |-> TRUE]
    <2>1. PICK q \in Quotes : m = [kind |-> "quote", delimiter |-> q, escape |-> TRUE]
        BY <1>4
    <2>2. FromInnermost(m, r, data) = FromQuote(m, r, data)
        BY <2>1 DEF FromInnermost
    <2>3. r = q => FromReady(r, data) = Quote(q, FALSE)
        BY DEF FromReady, Quotes
    <2>4. FromQuote(m, r, data) = FromReady(r, data)
        BY <2>1, <2>3 DEF FromQuote
    <2> QED BY <2>2, <2>4 DEF AsIfReady
<1>5. CASE m \in [kind : {"tag"}, offset : Int] /\ (InTag(t, n) \/ BehindTag(t, n))
    <2>1. FromInnermost(m, r, data) = FromTag(m, r, data)
        BY <1>5 DEF FromInnermost
    <2>2. r # "$" /\ (r \in {"a", "wide"} \union Words => InTag(t, n))
        BY <1>5, TagEnds DEF Identifier
    <2>3. CASE r \in {"a", "wide"} \union Words
        <3>1. FromTag(m, r, data) = <<m>>
            BY <2>2, <2>3 DEF FromTag
        <3> QED BY <1>5, <2>1, <2>2, <2>3, <3>1 DEF AsIfReady
    <2>4. CASE r \notin {"a", "wide"} \union Words
        <3>1. FromTag(m, r, data) = FromReady(r, data)
            BY <2>2, <2>4 DEF FromTag
        <3> QED BY <2>1, <3>1 DEF AsIfReady
    <2> QED BY <2>3, <2>4
<1> QED BY <1>1, <1>2, <1>3, <1>4, <1>5 DEF Idle

-----------------------------------------------------------------------------
(* In a lexeme *)

\* The innermost state in the lexeme that begins at a place.
In(t, s, m, c, n) ==
    \/ t[c] \in Quotes /\ m = [kind |-> "quote", delimiter |-> t[c], escape |-> FALSE]
    \/ t[c] = "\\" /\ n = c /\ m = [kind |-> "escape"]
    \/ /\ Has(t, c, <<"-", "-">>)
       /\ m = IF n = c THEN [kind |-> "comment"] ELSE [kind |-> "dollar", delimiter |-> <<"\n">>]
    \/ /\ Has(t, c, <<"/", "*">>)
       /\ IF n = c THEN m = [kind |-> "block", depth |-> 0]
          ELSE m = [kind |-> "block", depth |-> Depth(t, c, n)] /\ Depth(t, c, n) >= 1
    \/ /\ TagAt(t, c) # <<>>
       /\ m = IF n < c + Len(TagAt(t, c)) - 1 THEN [kind |-> "tag", offset |-> c - s]
              ELSE [kind |-> "dollar", delimiter |-> TagAt(t, c)]

\* What was read of a lexeme that has not ended.
Reads(t, s, c, n) ==
    /\ c \in Lexemes(t) /\ c \in 1..n /\ n \in Nat /\ n < Len(t)
    /\ s < c /\ Separated(t, s, n + 1)

\* What one symbol more makes of it.
ReadsOn(t, s, m, c, n) ==
    \E m3 : /\ Becomes(m, t[n + 1], SubSeq(t, s + 1, n + 1), GroupsAt(t, n), m3)
            /\ IF n + 1 \in Ends(t, c) THEN Idle(t, m3, n + 1) ELSE In(t, s, m3, c, n + 1)

\* In quotes.
LEMMA InQuote ==
    ASSUME NEW t \in Seq(Symbols), NEW s, NEW c, NEW n, Reads(t, s, c, n), t[c] \in Quotes,
           NEW m, m = [kind |-> "quote", delimiter |-> t[c], escape |-> FALSE]
    PROVE  ReadsOn(t, s, m, c, n)
<1>1. PICK r : r = t[n + 1]
    OBVIOUS
<1>2. PICK data : data = SubSeq(t, s + 1, n + 1)
    OBVIOUS
<1>3. PICK q : q = t[c]
    OBVIOUS
<1>4. q \in Quotes /\ q # "wide" /\ q # Invalid
    BY <1>3 DEF Quotes, Invalid
<1>5. c \in 1..Len(t) /\ n + 1 \in (c + 1)..Len(t)
    BY DEF Reads
<1>6. Ends(t, c) = {j \in (c + 1)..Len(t) : t[j] = t[c]}
    BY <1>5, EndsOf
<1>7. n + 1 \in Ends(t, c) <=> r = q
    BY <1>1, <1>3, <1>5, <1>6
<1>8. PICK m2 : m2 = [kind |-> "quote", delimiter |-> q, escape |-> (r = q)]
    OBVIOUS
<1>9. m2 \in Pieces /\ m2 # ReadyPiece
    <2>1. (r = q) \in BOOLEAN
        OBVIOUS
    <2> QED BY <1>4, <1>8, <2>1 DEF Pieces, ReadyPiece
<1>10. FromInnermost(m, r, data) = <<m2>>
    <2>1. FromInnermost(m, r, data) = FromQuote(m, r, data)
        BY DEF FromInnermost
    <2>2. FromQuote(m, r, data) = Quote(q, r = q)
        BY <1>3, Zenon DEF FromQuote
    <2> QED BY <1>8, <2>1, <2>2, Zenon DEF Quote
<1>11. CASE r = q
    <2>1. m2 = [kind |-> "quote", delimiter |-> q, escape |-> TRUE]
        BY <1>8, <1>11
    <2>2. Becomes(m, r, data, GroupsAt(t, n), m2)
        BY <1>4, <1>9, <1>10, <1>11 DEF Becomes
    <2>3. Idle(t, m2, n + 1)
        BY <1>4, <2>1 DEF Idle
    <2> QED BY <1>1, <1>2, <1>7, <1>11, <2>2, <2>3 DEF ReadsOn
<1>12. CASE r # q
    <2>1. m2 = [kind |-> "quote", delimiter |-> q, escape |-> FALSE]
        BY <1>8, <1>12
    <2>2. FromInnermost(m2, Invalid, data) = <<m2>>
        <3>1. FromInnermost(m2, Invalid, data) = FromQuote(m2, Invalid, data)
            BY <2>1 DEF FromInnermost
        <3>2. ~m2.escape /\ m2.delimiter = q
            BY <2>1
        <3>3. FromQuote(m2, Invalid, data) = Quote(q, Invalid = q)
            BY <3>2, Zenon DEF FromQuote
        <3>4. (Invalid = q) = FALSE
            BY <1>4
        <3>5. Quote(q, Invalid = q) = Quote(q, FALSE)
            BY <3>4, Zenon
        <3> QED BY <2>1, <3>1, <3>3, <3>5, Zenon DEF Quote
    <2>3. Becomes(m, r, data, GroupsAt(t, n), m2)
        BY <1>9, <1>10, <2>2 DEF Becomes
    <2>4. In(t, s, m2, c, n + 1)
        BY <1>3, <1>4, <2>1 DEF In
    <2> QED BY <1>1, <1>2, <1>7, <1>12, <2>3, <2>4 DEF ReadsOn
<1> QED BY <1>11, <1>12

\* Behind a backslash.
LEMMA InEscape ==
    ASSUME NEW t \in Seq(Symbols), ~Misread(t), NEW s, NEW n, Reads(t, s, n, n), t[n] = "\\",
           NEW m, m = [kind |-> "escape"]
    PROVE  ReadsOn(t, s, m, n, n)
<1>1. PICK r : r = t[n + 1]
    OBVIOUS
<1>2. PICK data : data = SubSeq(t, s + 1, n + 1)
    OBVIOUS
<1>3. n \in 1..Len(t) /\ n + 1 \in 1..Len(t) /\ n < Len(t) /\ n \in Lexemes(t)
    BY DEF Reads
<1>4. n + 1 \in Ends(t, n)
    <2>1. Ends(t, n) = {n + 1} \cap 1..Len(t)
        BY <1>3, EndsOf
    <2> QED BY <1>3, <2>1
<1>5. GroupsAt(t, n) # <<>> => r # Head(GroupsAt(t, n))
    BY <1>1, <1>3, NotMisread
<1>6. FromInnermost(m, r, data) = <<ReadyPiece>>
    BY ReadyIsPiece DEF FromInnermost
<1>7. FromInnermost(ReadyPiece, Invalid, data) = <<ReadyPiece>>
    <2>1. FromInnermost(ReadyPiece, Invalid, data) = FromReady(Invalid, data)
        BY DEF FromInnermost, ReadyPiece
    <2>2. FromReady(Invalid, data) = Ready
        BY DEF FromReady, Invalid, Quotes
    <2> QED BY <2>1, <2>2, ReadyIsPiece
<1>8. Becomes(m, r, data, GroupsAt(t, n), ReadyPiece)
    BY <1>5, <1>6, <1>7, ReadyIsPiece DEF Becomes
<1>9. Idle(t, ReadyPiece, n + 1)
    BY DEF Idle
<1> QED BY <1>1, <1>2, <1>4, <1>8, <1>9 DEF ReadsOn

\* In a comment to the end of the line.
LEMMA InComment ==
    ASSUME NEW t \in Seq(Symbols), NEW s, NEW c, NEW n, Reads(t, s, c, n), Has(t, c, <<"-", "-">>),
           NEW m, m = IF n = c THEN [kind |-> "comment"] ELSE [kind |-> "dollar", delimiter |-> <<"\n">>]
    PROVE  ReadsOn(t, s, m, c, n)
<1>1. PICK r : r = t[n + 1]
    OBVIOUS
<1>2. PICK data : data = SubSeq(t, s + 1, n + 1)
    OBVIOUS
<1>3. c \in 1..Len(t) /\ c \in Nat \ {0} /\ n + 1 \in 1..Len(t) /\ n \in Nat /\ c <= n /\ Separated(t, s, n + 1)
    BY DEF Reads
<1>4. Ends(t, c) = {j \in (c + 2)..Len(t) : t[j] = "\n"}
    BY <1>3, EndsOf
<1>5. PICK line : line = [kind |-> "dollar", delimiter |-> <<"\n">>]
    OBVIOUS
<1>6. line \in Pieces /\ line # ReadyPiece
    <2>1. "\n" \in Symbols
        BY DEF Symbols
    <2>2. <<"\n">> \in Seq(Symbols)
        BY <2>1
    <2> QED BY <1>5, <2>2 DEF Pieces, ReadyPiece
<1>7. CASE n = c
    <2>1. r = "-"
        <3>1. "-" \in Symbols
            BY DEF Symbols
        <3>2. t[c + 1] = "-"
            BY <1>3, <3>1, HasTwo, Zenon
        <3> QED BY <1>1, <1>7, <3>2
    <2>2. FromInnermost(m, r, data) = <<line>>
        <3>1. FromInnermost(m, r, data) = Dollar(<<"\n">>)
            BY <1>7, <2>1 DEF FromInnermost
        <3> QED BY <1>5, <3>1 DEF Dollar
    <2>3. Becomes(m, r, data, GroupsAt(t, n), line)
        BY <1>6, <2>1, <2>2 DEF Becomes
    <2>4. n + 1 \notin Ends(t, c) /\ n + 1 # c
        BY <1>3, <1>4, <1>7
    <2>5. In(t, s, line, c, n + 1)
        BY <1>5, <2>4 DEF In
    <2> QED BY <1>1, <1>2, <2>3, <2>4, <2>5 DEF ReadsOn
<1>8. CASE n # c
    <2>1. m = line /\ n + 1 \in (c + 2)..Len(t)
        BY <1>3, <1>5, <1>8
    <2>2. EndsWith(data, <<"\n">>) <=> r = "\n"
        <3>1. "\n" \in Symbols /\ "\n" # "semicolon"
            BY DEF Symbols
        <3> QED BY <1>1, <1>2, <1>3, <3>1, EndsWithOne, Zenon
    <2>3. \A x : FromInnermost(line, x, data) = IF EndsWith(data, <<"\n">>) THEN Ready ELSE <<line>>
        BY <1>5 DEF FromInnermost
    <2>4. CASE r = "\n"
        <3>1. Becomes(m, r, data, GroupsAt(t, n), ReadyPiece)
            <4>1. FromInnermost(m, r, data) = <<ReadyPiece>>
                BY <2>1, <2>2, <2>3, <2>4, ReadyIsPiece
            <4>2. GroupsAt(t, n) # <<>> => r # Head(GroupsAt(t, n))
                <5>1. n \in 0..Len(t)
                    BY <1>3
                <5>2. GroupsAt(t, n) \in Seq(Delimiters)
                    BY <5>1, GroupsType
                <5>3. GroupsAt(t, n) # <<>> => Head(GroupsAt(t, n)) \in Delimiters
                    BY <5>2
                <5> QED BY <2>4, <5>3 DEF Delimiters
            <4> QED BY <2>4, <4>1, <4>2, ReadyIsPiece DEF Becomes
        <3>2. n + 1 \in Ends(t, c)
            BY <1>1, <1>4, <2>1, <2>4
        <3>3. Idle(t, ReadyPiece, n + 1)
            BY DEF Idle
        <3> QED BY <1>1, <1>2, <3>1, <3>2, <3>3 DEF ReadsOn
    <2>5. CASE r # "\n"
        <3>1. FromInnermost(m, r, data) = <<line>> /\ FromInnermost(line, Invalid, data) = <<line>>
            BY <2>1, <2>2, <2>3, <2>5
        <3>2. Becomes(m, r, data, GroupsAt(t, n), line)
            BY <1>6, <3>1 DEF Becomes
        <3>3. n + 1 \notin Ends(t, c) /\ n + 1 # c
            BY <1>1, <1>3, <1>4, <2>5
        <3>4. In(t, s, line, c, n + 1)
            BY <1>5, <3>3 DEF In
        <3> QED BY <1>1, <1>2, <3>2, <3>3, <3>4 DEF ReadsOn
    <2> QED BY <2>4, <2>5
<1> QED BY <1>7, <1>8

\* A group's delimiter is neither the end of a line nor of a comment or a quote.
LEMMA NoDelimiter ==
    ASSUME NEW t \in Seq(Symbols), NEW n \in 0..Len(t), NEW r, r \notin Delimiters
    PROVE  GroupsAt(t, n) # <<>> => r # Head(GroupsAt(t, n))
<1>1. GroupsAt(t, n) \in Seq(Delimiters)
    BY GroupsType
<1>2. GroupsAt(t, n) # <<>> => Head(GroupsAt(t, n)) \in Delimiters
    BY <1>1
<1> QED BY <1>2

\* In a comment, however deep.
LEMMA InBlock ==
    ASSUME NEW t \in Seq(Symbols), ~Misread(t), NEW s, NEW c, NEW n, Reads(t, s, c, n),
           Has(t, c, <<"/", "*">>),
           NEW m, IF n = c THEN m = [kind |-> "block", depth |-> 0]
                  ELSE m = [kind |-> "block", depth |-> Depth(t, c, n)] /\ Depth(t, c, n) >= 1
    PROVE  ReadsOn(t, s, m, c, n)
<1>1. PICK r : r = t[n + 1]
    OBVIOUS
<1>2. PICK data : data = SubSeq(t, s + 1, n + 1)
    OBVIOUS
<1>3. /\ c \in 1..Len(t) /\ c \in Nat \ {0} /\ n + 1 \in 1..Len(t) /\ n \in Nat \ {0} /\ c <= n
      /\ Separated(t, s, n + 1) /\ c \in Lexemes(t) /\ n \in 0..Len(t) /\ Len(t) \in Nat
    BY DEF Reads
<1>4. Ends(t, c) = {j \in (c + 3)..Len(t) : Has(t, j - 1, <<"*", "/">>) /\ Depth(t, c, j) = 0}
    BY <1>3, EndsOf
<1>5. "/" \in Symbols /\ "*" \in Symbols /\ "/" # "semicolon" /\ "*" # "semicolon"
    BY DEF Symbols
<1>6. \A k \in Nat \ {0} : /\ Has(t, k, <<"/", "*">>) <=> k + 1 <= Len(t) /\ t[k] = "/" /\ t[k + 1] = "*"
                           /\ Has(t, k, <<"*", "/">>) <=> k + 1 <= Len(t) /\ t[k] = "*" /\ t[k + 1] = "/"
    BY <1>5, HasTwo, Zenon
<1>7. /\ EndsWith(data, <<"/", "*">>) <=> Has(t, n, <<"/", "*">>)
      /\ EndsWith(data, <<"*", "/">>) <=> Has(t, n, <<"*", "/">>)
    <2>1. (n + 1) - 1 = n /\ n + 1 >= 2
        BY <1>3
    <2>2. /\ EndsWith(data, <<"/", "*">>) <=> n + 1 >= 2 /\ Has(t, (n + 1) - 1, <<"/", "*">>)
          /\ EndsWith(data, <<"*", "/">>) <=> n + 1 >= 2 /\ Has(t, (n + 1) - 1, <<"*", "/">>)
        BY <1>2, <1>3, <1>5, EndsWithTwo, Zenon
    <2> QED BY <2>1, <2>2
<1>8. PICK opens : opens = (IF Has(t, n, <<"/", "*">>) THEN 1 ELSE 0)
    OBVIOUS
<1>9. PICK closes : closes = (IF Has(t, n, <<"*", "/">>) THEN 1 ELSE 0)
    OBVIOUS
<1>10. Depth(t, c, c) = 0 /\ Depth(t, c, n) \in Int /\ Depth(t, c, n + 1) = Depth(t, c, n) + opens - closes
    BY <1>3, <1>8, <1>9, DepthSays
<1>11. ~(Has(t, n, <<"/", "*">>) /\ Has(t, n, <<"*", "/">>))
    BY <1>3, <1>6
<1>12. \A d \in Int : LET b == [kind |-> "block", depth |-> d] IN b \in Pieces /\ b # ReadyPiece
    BY DEF Pieces, ReadyPiece
<1>13. \A p : p.kind = "block" => FromInnermost(p, r, data) = FromBlock(p, r, data)
    BY DEF FromInnermost
<1>14. r = "wide" => ~Has(t, n, <<"/", "*">>) /\ ~Has(t, n, <<"*", "/">>)
    BY <1>1, <1>3, <1>6
<1>15. PICK d : d = Depth(t, c, n)
    OBVIOUS
<1>16. PICK e : e = Depth(t, c, n + 1)
    OBVIOUS
<1>17. d \in Int /\ e \in Int /\ e = d + opens - closes
    BY <1>8, <1>9, <1>10, <1>15, <1>16
<1>18. CASE Has(t, n, <<"/", "*">>)
    <2>1. e = d + 1
        BY <1>8, <1>9, <1>11, <1>17, <1>18
    <2>2. m.kind = "block" /\ m.depth = d /\ d >= 0
        BY <1>10, <1>15
    <2>3. PICK m2 : m2 = [kind |-> "block", depth |-> e]
        OBVIOUS
    <2>4. FromInnermost(m, r, data) = <<m2>>
        <3>1. FromBlock(m, r, data) = Block(m.depth + 1)
            <4>1. \A p : p.depth = 0 \/ p.depth # 0
                OBVIOUS
            <4>2. EndsWith(data, <<"/", "*">>) /\ ~EndsWith(data, <<"*", "/">>)
                BY <1>7, <1>11, <1>18
            <4> QED BY <4>2 DEF FromBlock
        <3>2. m.depth + 1 = e
            BY <2>1, <2>2
        <3>3. FromInnermost(m, r, data) = FromBlock(m, r, data)
            BY <1>13, <2>2
        <3> QED BY <2>3, <3>1, <3>2, <3>3 DEF Block
    <2>5. Becomes(m, r, data, GroupsAt(t, n), m2)
        BY <1>12, <1>14, <1>17, <1>18, <2>3, <2>4 DEF Becomes
    <2>6. n + 1 \notin Ends(t, c) /\ n + 1 # c
        <3>1. e # 0
            BY <1>17, <2>1, <2>2
        <3> QED BY <1>3, <1>4, <1>16, <3>1
    <2>7. In(t, s, m2, c, n + 1)
        BY <1>16, <1>17, <2>1, <2>2, <2>3, <2>6 DEF In
    <2> QED BY <1>1, <1>2, <2>5, <2>6, <2>7 DEF ReadsOn
<1>19. CASE ~Has(t, n, <<"/", "*">>)
    <2>1. n # c /\ n >= c + 1 /\ m = [kind |-> "block", depth |-> d] /\ d >= 1 /\ n + 1 # c
        BY <1>3, <1>15, <1>19
    <2>2. FromBlock(m, r, data) = IF ~EndsWith(data, <<"*", "/">>) THEN <<m>>
                                  ELSE IF d = 1 THEN Ready ELSE Block(d - 1)
        BY <1>7, <1>17, <1>19, <2>1 DEF FromBlock
    <2>3. FromInnermost(m, r, data) = FromBlock(m, r, data)
        BY <1>13, <2>1
    <2>4. CASE ~Has(t, n, <<"*", "/">>)
        <3>1. e = d
            BY <1>8, <1>9, <1>17, <1>19, <2>4
        <3>2. FromInnermost(m, r, data) = <<m>>
            BY <1>7, <2>2, <2>3, <2>4
        <3>3. FromInnermost(m, Invalid, data) = <<m>>
            <4>1. FromInnermost(m, Invalid, data) = FromBlock(m, Invalid, data)
                BY <2>1 DEF FromInnermost
            <4>2. FromBlock(m, Invalid, data) = <<m>>
                BY <1>7, <1>17, <1>19, <2>1, <2>4 DEF FromBlock
            <4> QED BY <4>1, <4>2
        <3>4. Becomes(m, r, data, GroupsAt(t, n), m)
            BY <1>12, <1>17, <2>1, <3>2, <3>3 DEF Becomes
        <3>5. n + 1 \notin Ends(t, c)
            BY <1>3, <1>4, <2>4
        <3>6. In(t, s, m, c, n + 1)
            BY <1>16, <2>1, <3>1 DEF In
        <3> QED BY <1>1, <1>2, <3>4, <3>5, <3>6 DEF ReadsOn
    <2>5. CASE Has(t, n, <<"*", "/">>) /\ d > 1
        <3>1. e = d - 1 /\ e >= 1
            BY <1>8, <1>9, <1>17, <1>19, <2>5
        <3>2. PICK m2 : m2 = [kind |-> "block", depth |-> e]
            OBVIOUS
        <3>3. FromInnermost(m, r, data) = <<m2>>
            BY <1>7, <2>2, <2>3, <2>5, <3>1, <3>2 DEF Block
        <3>4. Becomes(m, r, data, GroupsAt(t, n), m2)
            BY <1>12, <1>14, <1>17, <2>5, <3>2, <3>3 DEF Becomes
        <3>5. n + 1 \notin Ends(t, c)
            BY <1>4, <1>16, <3>1
        <3>6. In(t, s, m2, c, n + 1)
            BY <1>16, <2>1, <3>1, <3>2 DEF In
        <3> QED BY <1>1, <1>2, <3>4, <3>5, <3>6 DEF ReadsOn
    <2>6. CASE Has(t, n, <<"*", "/">>) /\ ~(d > 1)
        <3>1. d = 1 /\ e = 0
            BY <1>8, <1>9, <1>17, <1>19, <2>1, <2>6
        <3>2. FromInnermost(m, r, data) = <<ReadyPiece>>
            BY <1>7, <2>2, <2>3, <2>6, <3>1, ReadyIsPiece
        <3>3. r = "/" /\ r \notin Delimiters /\ r # "wide"
            BY <1>1, <1>3, <1>6, <2>6 DEF Delimiters
        <3>4. Becomes(m, r, data, GroupsAt(t, n), ReadyPiece)
            BY <1>3, <3>2, <3>3, NoDelimiter, ReadyIsPiece DEF Becomes
        <3>5. n # c + 1
            <4>1. SUFFICES ASSUME n = c + 1 PROVE FALSE
                OBVIOUS
            <4>2. t[c] = "/" /\ t[c + 1] = "*" /\ t[(c + 1) + 1] = "/" /\ (c + 1) + 1 <= Len(t)
                BY <1>3, <1>6, <2>6, <4>1
            <4>3. PICK w : w = <<"/", "*", "/">>
                OBVIOUS
            <4>4. w \in Seq(Symbols) /\ Len(w) = 3 /\ w[1] = "/" /\ w[2] = "*" /\ w[3] = "/"
                BY <1>5, <4>3
            <4>5. Has(t, c, w) <=> c + Len(w) - 1 <= Len(t) /\ \A k \in 1..Len(w) : t[c + k - 1] = w[k]
                BY <1>3, <4>4, HasSays, Zenon
            <4>6. \A k \in 1..Len(w) : t[c + k - 1] = w[k]
                <5>1. SUFFICES ASSUME NEW k \in 1..Len(w) PROVE t[c + k - 1] = w[k]
                    OBVIOUS
                <5>2. k = 1 \/ k = 2 \/ k = 3
                    BY <4>4, <5>1
                <5>3. c + 1 - 1 = c /\ c + 2 - 1 = c + 1 /\ c + 3 - 1 = (c + 1) + 1
                    BY <1>3
                <5> QED BY <4>2, <4>4, <5>2, <5>3
            <4>7. Has(t, c, w)
                BY <1>3, <4>2, <4>4, <4>5, <4>6
            <4> QED BY <1>3, <4>3, <4>7, NotMisread
        <3>6. n + 1 \in Ends(t, c)
            <4>1. n + 1 \in (c + 3)..Len(t) /\ (n + 1) - 1 = n
                BY <1>3, <2>1, <3>5
            <4> QED BY <1>4, <1>16, <2>6, <3>1, <4>1
        <3>7. Idle(t, ReadyPiece, n + 1)
            BY DEF Idle
        <3> QED BY <1>1, <1>2, <3>4, <3>6, <3>7 DEF ReadsOn
    <2> QED BY <1>17, <2>4, <2>5, <2>6
<1> QED BY <1>18, <1>19

\* In a dollar quote, or in its tag.
LEMMA InDollar ==
    ASSUME NEW t \in Seq(Symbols), ~Misread(t), NEW s, NEW c, NEW n, Reads(t, s, c, n),
           TagAt(t, c) # <<>>,
           NEW m, m = IF n < c + Len(TagAt(t, c)) - 1 THEN [kind |-> "tag", offset |-> c - s]
                      ELSE [kind |-> "dollar", delimiter |-> TagAt(t, c)]
    PROVE  ReadsOn(t, s, m, c, n)
<1>1. PICK r : r = t[n + 1]
    OBVIOUS
<1>2. PICK data : data = SubSeq(t, s + 1, n + 1)
    OBVIOUS
<1>3. /\ c \in 1..Len(t) /\ c \in Nat \ {0} /\ n + 1 \in 1..Len(t) /\ n \in Nat \ {0} /\ c <= n
      /\ Separated(t, s, n + 1) /\ c \in Lexemes(t) /\ n \in 0..Len(t) /\ Len(t) \in Nat
      /\ s \in Nat /\ s < c /\ n < Len(t)
    BY DEF Reads, Separated
<1>4. PICK tag : tag = TagAt(t, c)
    OBVIOUS
<1>5. PICK e : TagTo(t, c, e)
    BY <1>3, TagSays
<1>6. e \in Nat /\ e \in (c + 1)..Len(t) /\ t[c] = "$" /\ t[e] = "$"
      /\ \A k \in (c + 1)..(e - 1) : t[k] \in {"a"} \union Words
    BY <1>3, <1>5 DEF TagTo
<1>7. PICK len : len = Len(tag)
    OBVIOUS
<1>8. tag \in Seq(Symbols) /\ tag # <<>> /\ len = e - c + 1 /\ \A k \in 1..len : tag[k] = t[c + k - 1]
    <2>1. /\ TagAt(t, c) \in Seq(Symbols) /\ TagAt(t, c) # <<>> /\ Len(TagAt(t, c)) = e - c + 1
          /\ \A k \in 1..(e - c + 1) : TagAt(t, c)[k] = t[c + k - 1]
        BY <1>3, <1>5, TagIs, Zenon
    <2> QED BY <1>4, <1>7, <2>1
<1>9. /\ len \in Nat /\ len >= 2 /\ c + len - 1 = e
      /\ tag[1] = "$" /\ tag[len] = "$"
    <2>1. len \in Nat /\ len >= 2 /\ c + len - 1 = e
        BY <1>3, <1>6, <1>8
    <2>2. 1 \in 1..len /\ len \in 1..len /\ c + 1 - 1 = c
        BY <1>3, <2>1
    <2> QED BY <1>6, <1>8, <2>1, <2>2
<1>10. \A k \in 1..Len(tag) : tag[k] # "semicolon"
    <2>1. SUFFICES ASSUME NEW k \in 1..len PROVE tag[k] # "semicolon"
        BY <1>7
    <2>2. c + k - 1 = c \/ c + k - 1 = e \/ c + k - 1 \in (c + 1)..(e - 1)
        BY <1>3, <1>6, <1>8, <2>1
    <2>3. t[c + k - 1] # "semicolon"
        BY <1>6, <2>2 DEF Words
    <2> QED BY <1>8, <2>1, <2>3
<1>11. Ends(t, c) = {j \in (c + 2 * len - 1)..Len(t) : Has(t, j - len + 1, tag)}
    BY <1>3, <1>4, <1>7, EndsOf
<1>12. PICK quoted : quoted = [kind |-> "dollar", delimiter |-> tag]
    OBVIOUS
<1>13. quoted \in Pieces /\ quoted # ReadyPiece
    BY <1>8, <1>12 DEF Pieces, ReadyPiece
<1>14. m = IF n < e THEN [kind |-> "tag", offset |-> c - s] ELSE quoted
    BY <1>4, <1>7, <1>9, <1>12
<1>15. CASE n < e
    <2>1. m = [kind |-> "tag", offset |-> c - s] /\ m # ReadyPiece /\ m \in Pieces
        BY <1>3, <1>14, <1>15 DEF Pieces, ReadyPiece
    <2>2. FromInnermost(m, r, data) = FromTag(m, r, data)
        BY <2>1 DEF FromInnermost
    <2>3. n + 1 \notin Ends(t, c)
        BY <1>3, <1>6, <1>8, <1>9, <1>11, <1>15
    <2>4. CASE n + 1 < e
        <3>1. n + 1 \in (c + 1)..(e - 1)
            BY <1>3, <1>6, <2>4
        <3>2. r \in {"a"} \union Words /\ r # "$" /\ r # "wide"
            BY <1>1, <1>6, <3>1 DEF Words
        <3>3. FromTag(m, r, data) = <<m>>
            BY <3>2 DEF FromTag
        <3>4. Becomes(m, r, data, GroupsAt(t, n), m)
            BY <2>1, <2>2, <3>2, <3>3 DEF Becomes
        <3>5. In(t, s, m, c, n + 1)
            <4>1. n + 1 < c + Len(TagAt(t, c)) - 1
                BY <1>4, <1>7, <1>9, <2>4
            <4> QED BY <2>1, <4>1 DEF In
        <3> QED BY <1>1, <1>2, <2>3, <3>4, <3>5 DEF ReadsOn
    <2>5. CASE ~(n + 1 < e)
        <3>1. n + 1 = e /\ r = "$" /\ r # "wide"
            BY <1>1, <1>3, <1>6, <1>15, <2>5
        <3>2. /\ data \in Seq(Symbols) /\ Len(data) = e - s
              /\ \A k \in 1..(e - s) : data[k] = t[s + k]
            <4>1. e \in 1..Len(t) /\ Separated(t, s, e) /\ data = SubSeq(t, s + 1, e)
                BY <1>2, <1>3, <3>1
            <4> QED BY <4>1, DataSays, Zenon
        <3>3. PICK y : y = SubSeq(data, c - s, Len(data))
            OBVIOUS
        <3>4. y \in Seq(Symbols) /\ Len(y) = len /\ \A k \in 1..len : y[k] = data[c - s + k - 1]
            <4>1. c - s \in Int /\ e - s \in Int /\ c - s <= e - s /\ (e - s) - (c - s) + 1 = len
                BY <1>3, <1>6, <1>8
            <4>2. \A k \in (c - s)..(e - s) : data[k] \in Symbols
                BY <1>3, <1>6, <3>2
            <4>3. y = SubSeq(data, c - s, e - s)
                BY <3>2, <3>3
            <4> QED BY <4>1, <4>2, <4>3, SubSeqProperties
        <3>5. y = tag
            <4>1. \A k \in 1..len : y[k] = tag[k]
                <5>1. SUFFICES ASSUME NEW k \in 1..len PROVE y[k] = tag[k]
                    OBVIOUS
                <5>2. c - s + k - 1 \in 1..(e - s) /\ s + (c - s + k - 1) = c + k - 1
                    BY <1>3, <1>6, <1>8, <5>1
                <5> QED BY <1>8, <3>2, <3>4, <5>1, <5>2
            <4> QED BY <1>7, <1>8, <3>4, <4>1, SeqEqual
        <3>6. FromTag(m, r, data) = <<quoted>>
            <4>1. FromTag(m, r, data) = Dollar(SubSeq(data, m.offset, Len(data)))
                BY <3>1 DEF FromTag, Words
            <4>2. m.offset = c - s
                BY <2>1
            <4> QED BY <1>12, <3>3, <3>5, <4>1, <4>2 DEF Dollar
        <3>7. Becomes(m, r, data, GroupsAt(t, n), quoted)
            BY <1>13, <2>2, <3>1, <3>6 DEF Becomes
        <3>8. In(t, s, quoted, c, n + 1)
            <4>1. ~(n + 1 < c + Len(TagAt(t, c)) - 1)
                BY <1>4, <1>7, <1>9, <2>5
            <4> QED BY <1>4, <1>12, <4>1 DEF In
        <3> QED BY <1>1, <1>2, <2>3, <3>7, <3>8 DEF ReadsOn
    <2> QED BY <2>4, <2>5
<1>16. CASE ~(n < e)
    <2>1. m = quoted /\ n >= e
        BY <1>3, <1>6, <1>14, <1>16
    <2>2. PICK i : i = (n + 1) - len + 1
        OBVIOUS
    <2>3. i \in Nat /\ i >= c + 1 /\ len <= n + 1 /\ i + len - 1 = n + 1 /\ i \in Nat \ {0}
        <3>1. c \in Nat \ {0} /\ n \in Nat /\ e \in Nat /\ e >= c + 1
            BY <1>3, <1>6
        <3>2. len = e - c + 1 /\ n >= e
            BY <1>8, <2>1
        <3> QED BY <2>2, <3>1, <3>2
    <2>4. EndsWith(data, tag) <=> Has(t, i, tag)
        <3>1. EndsWith(data, tag) <=> Len(tag) <= n + 1 /\ Has(t, (n + 1) - Len(tag) + 1, tag)
            BY <1>2, <1>3, <1>8, <1>10, EndsWithSays, Zenon
        <3> QED BY <1>7, <2>2, <2>3, <3>1
    <2>5. \A x : FromInnermost(quoted, x, data) = IF EndsWith(data, tag) THEN Ready ELSE <<quoted>>
        BY <1>12 DEF FromInnermost
    <2>6. Has(t, i, tag) <=> \A k \in 1..len : t[i + k - 1] = tag[k]
        <3>1. Has(t, i, tag) <=> i + Len(tag) - 1 <= Len(t) /\ \A k \in 1..Len(tag) : t[i + k - 1] = tag[k]
            BY <1>8, <2>3, HasSays, Zenon
        <3>2. i + Len(tag) - 1 <= Len(t)
            BY <1>3, <1>7, <2>3
        <3> QED BY <1>7, <3>1, <3>2, Zenon
    <2>7. CASE Has(t, i, tag)
        <3>1. t[i] = "$" /\ r = "$"
            <4>1. 1 \in 1..len /\ len \in 1..len /\ i + 1 - 1 = i
                BY <1>9, <2>3
            <4> QED BY <1>1, <1>9, <2>3, <2>6, <2>7, <4>1
        <3>2. i # e
            <4>1. SUFFICES ASSUME i = e PROVE FALSE
                OBVIOUS
            <4>2. PICK rest : rest = Tail(tag)
                OBVIOUS
            <4>3. rest \in Seq(Symbols) /\ Len(rest) = len - 1 /\ \A k \in 1..(len - 1) : rest[k] = tag[k + 1]
                <5>1. /\ Tail(tag) \in Seq(Symbols) /\ Len(Tail(tag)) = Len(tag) - 1
                      /\ \A k \in 1..Len(Tail(tag)) : Tail(tag)[k] = tag[k + 1]
                    BY <1>8, HeadTailProperties
                <5> QED BY <1>7, <4>2, <5>1
            <4>4. Has(t, e + 1, rest) <=> (e + 1) + Len(rest) - 1 <= Len(t)
                                            /\ \A k \in 1..Len(rest) : t[(e + 1) + k - 1] = rest[k]
                <5>1. e + 1 \in Nat \ {0}
                    BY <1>6
                <5> QED BY <4>3, <5>1, HasSays, Zenon
            <4>5. (e + 1) + Len(rest) - 1 <= Len(t)
                BY <1>3, <1>9, <2>3, <4>1, <4>3
            <4>6. ASSUME NEW k \in 1..Len(rest) PROVE t[(e + 1) + k - 1] = rest[k]
                <5>1. k \in 1..(len - 1) /\ k + 1 \in 1..len /\ i + (k + 1) - 1 = (e + 1) + k - 1
                    BY <1>9, <2>3, <4>1, <4>3
                <5> QED BY <2>6, <2>7, <4>3, <5>1
            <4>7. Has(t, e + 1, rest)
                BY <4>4, <4>5, <4>6
            <4>8. c + Len(TagAt(t, c)) = e + 1
                BY <1>3, <1>4, <1>6, <1>7, <1>8
            <4> QED BY <1>3, <1>4, <4>2, <4>7, <4>8, NotMisread
        <3>3. i >= e + 1
            <4>1. "$" \notin {"a"} \union Words
                BY DEF Words
            <4>2. i \notin (c + 1)..(e - 1)
                BY <1>6, <3>1, <4>1
            <4> QED BY <1>3, <1>6, <2>3, <3>2, <4>2
        <3>4. n + 1 \in Ends(t, c)
            <4>1. n + 1 \in (c + 2 * len - 1)..Len(t)
                BY <1>3, <1>6, <1>8, <2>3, <3>3
            <4> QED BY <1>11, <2>2, <2>7, <4>1
        <3>5. FromInnermost(m, r, data) = <<ReadyPiece>>
            BY <2>1, <2>4, <2>5, <2>7, ReadyIsPiece
        <3>6. r \notin Delimiters /\ r # "wide"
            BY <3>1 DEF Delimiters
        <3>7. Becomes(m, r, data, GroupsAt(t, n), ReadyPiece)
            BY <1>3, <3>5, <3>6, NoDelimiter, ReadyIsPiece DEF Becomes
        <3>8. Idle(t, ReadyPiece, n + 1)
            BY DEF Idle
        <3> QED BY <1>1, <1>2, <3>4, <3>7, <3>8 DEF ReadsOn
    <2>8. CASE ~Has(t, i, tag)
        <3>1. FromInnermost(m, r, data) = <<quoted>> /\ FromInnermost(quoted, Invalid, data) = <<quoted>>
            BY <2>1, <2>4, <2>5, <2>8
        <3>2. Becomes(m, r, data, GroupsAt(t, n), quoted)
            BY <1>13, <3>1 DEF Becomes
        <3>3. n + 1 \notin Ends(t, c)
            BY <1>11, <2>2, <2>8
        <3>4. In(t, s, quoted, c, n + 1)
            <4>1. ~(n + 1 < c + Len(TagAt(t, c)) - 1)
                BY <1>3, <1>4, <1>7, <1>9, <2>1
            <4> QED BY <1>4, <1>12, <4>1 DEF In
        <3> QED BY <1>1, <1>2, <3>2, <3>3, <3>4 DEF ReadsOn
    <2> QED BY <2>7, <2>8
<1> QED BY <1>15, <1>16

-----------------------------------------------------------------------------
(* Where a lexeme begins *)

\* What a symbol is that opens nothing.
LEMMA PlainSays ==
    ASSUME NEW t \in Seq(Symbols), NEW i \in 1..Len(t)
    PROVE  /\ Has(t, i, <<"-", "-">>) => t[i] = "-"
           /\ Has(t, i, <<"/", "*">>) => t[i] = "/"
           /\ TagAt(t, i) # <<>> => t[i] = "$"
           /\ t[i] \notin Quotes \union {"\\", "-", "/", "$"} => Plain(t, i)
<1>1. Has(t, i, <<"-", "-">>) => t[i] = "-"
    <2>1. i \in Nat \ {0} /\ "-" \in Symbols
        BY DEF Symbols
    <2> QED BY <2>1, HasTwo
<1>2. Has(t, i, <<"/", "*">>) => t[i] = "/"
    <2>1. i \in Nat \ {0} /\ "/" \in Symbols /\ "*" \in Symbols
        BY DEF Symbols
    <2> QED BY <2>1, HasTwo
<1>3. TagAt(t, i) # <<>> => t[i] = "$"
    BY TagSays DEF TagTo
<1> QED BY <1>1, <1>2, <1>3 DEF Plain

\* What the innermost state is behind the first symbol of a lexeme.
Begins(t, s, m, i) ==
    \/ Plain(t, i) /\ Idle(t, m, i)
    \/ In(t, s, m, i, i) /\ \A x \in Ends(t, i) : x > i

\* The symbol that is read at the place of a lexeme.
AtLexeme(t, s, n) == n \in Nat /\ n < Len(t) /\ n + 1 \in Lexemes(t) /\ Separated(t, s, n + 1)

\* What opens a lexeme, or nothing, and no group.
LEMMA ReadyBegins ==
    ASSUME NEW t \in Seq(Symbols), ~Misread(t), NEW s, NEW n, AtLexeme(t, s, n),
           NEW r, r = t[n + 1], NEW data, data = SubSeq(t, s + 1, n + 1),
           r # "semicolon", r # "(", ~BeginsBody(t, n + 1, Lexemes(t))
    PROVE  \E m2 \in Pieces : FromReady(r, data) = <<m2>> /\ Begins(t, s, m2, n + 1)
<1>1. /\ n \in Nat /\ n + 1 \in 1..Len(t) /\ n + 1 \in Lexemes(t) /\ Separated(t, s, n + 1) /\ Len(t) \in Nat
      /\ s \in Nat
    BY DEF AtLexeme, Separated
<1>2. PICK i : i = n + 1
    OBVIOUS
<1>3. i \in Nat /\ i \in 1..Len(t) /\ i \in Lexemes(t) /\ r = t[i]
    BY <1>1, <1>2
<1>4. CASE r \in Quotes
    <2>1. PICK m2 : m2 = [kind |-> "quote", delimiter |-> r, escape |-> FALSE]
        OBVIOUS
    <2>2. m2 \in Pieces
        BY <1>4, <2>1 DEF Pieces
    <2>3. FromReady(r, data) = <<m2>>
        BY <1>4, <2>1 DEF FromReady, Quote, Quotes
    <2>4. In(t, s, m2, i, i)
        BY <1>3, <1>4, <2>1 DEF In
    <2>5. \A x \in Ends(t, i) : x > i
        BY <1>3, <1>4, EndsOf
    <2> QED BY <1>2, <2>2, <2>3, <2>4, <2>5 DEF Begins
<1>5. CASE r = "\\"
    <2>1. PICK m2 : m2 = [kind |-> "escape"]
        OBVIOUS
    <2>2. m2 \in Pieces
        BY <2>1 DEF Pieces
    <2>3. FromReady(r, data) = <<m2>>
        BY <1>5, <2>1 DEF FromReady, Escape, Quotes
    <2>4. In(t, s, m2, i, i)
        BY <1>3, <1>5, <2>1 DEF In
    <2>5. \A x \in Ends(t, i) : x > i
        <3>1. Ends(t, i) = {i + 1} \cap 1..Len(t)
            BY <1>3, <1>5, EndsOf
        <3>2. \A x : x = i + 1 => x > i
            BY <1>3
        <3> QED BY <3>1, <3>2
    <2> QED BY <1>2, <2>2, <2>3, <2>4, <2>5 DEF Begins
<1>6. CASE r = "-"
    <2>1. PICK m2 : m2 = [kind |-> "comment"]
        OBVIOUS
    <2>2. m2 \in Pieces
        BY <2>1 DEF Pieces
    <2>3. FromReady(r, data) = <<m2>>
        BY <1>6, <2>1 DEF FromReady, Comment, Quotes
    <2>4. CASE Has(t, i, <<"-", "-">>)
        <3>1. In(t, s, m2, i, i)
            BY <2>1, <2>4 DEF In
        <3>2. \A x \in Ends(t, i) : x > i
            BY <1>3, <2>4, EndsOf
        <3> QED BY <1>2, <2>2, <2>3, <3>1, <3>2 DEF Begins
    <2>5. CASE ~Has(t, i, <<"-", "-">>)
        <3>1. Plain(t, i)
            BY <1>3, <1>6, <2>5, PlainSays DEF Plain, Quotes
        <3>2. Dashed(t, i)
            <4>1. i <= i /\ ~(i < i) /\ \A k \in (i + 1)..i : FALSE
                BY <1>3
            <4> QED BY <1>3, <1>6, <2>5, <4>1, Zenon DEF Dashed
        <3> QED BY <1>2, <2>1, <2>2, <2>3, <3>1, <3>2 DEF Begins, Idle
    <2> QED BY <2>4, <2>5
<1>7. CASE r = "/"
    <2>1. PICK m2 : m2 = [kind |-> "block", depth |-> 0]
        OBVIOUS
    <2>2. m2 \in Pieces
        BY <2>1 DEF Pieces
    <2>3. FromReady(r, data) = <<m2>>
        BY <1>7, <2>1 DEF FromReady, Block, Quotes
    <2>4. CASE Has(t, i, <<"/", "*">>)
        <3>1. In(t, s, m2, i, i)
            BY <2>1, <2>4 DEF In
        <3>2. \A x \in Ends(t, i) : x > i
            BY <1>3, <2>4, EndsOf
        <3> QED BY <1>2, <2>2, <2>3, <3>1, <3>2 DEF Begins
    <2>5. CASE ~Has(t, i, <<"/", "*">>)
        <3>1. Plain(t, i)
            BY <1>3, <1>7, <2>5, PlainSays DEF Plain, Quotes
        <3> QED BY <1>2, <2>1, <2>2, <2>3, <2>5, <3>1 DEF Begins, Idle
    <2> QED BY <2>4, <2>5
<1>8. CASE r = "$"
    <2>1. PICK m2 : m2 = [kind |-> "tag", offset |-> i - s]
        OBVIOUS
    <2>2. m2 \in Pieces /\ m2 \in [kind : {"tag"}, offset : Int]
        BY <1>1, <1>3, <2>1 DEF Pieces
    <2>3. Len(data) = i - s
        BY <1>1, <1>2, DataSays
    <2>4. FromReady(r, data) = <<m2>>
        BY <1>8, <2>1, <2>3 DEF FromReady, Tag, Quotes
    <2>5. CASE TagAt(t, i) # <<>>
        <3>1. PICK e : TagTo(t, i, e)
            BY <1>3, <2>5, TagSays
        <3>2. Len(TagAt(t, i)) \in Nat /\ Len(TagAt(t, i)) >= 2
            <4>1. Len(TagAt(t, i)) = e - i + 1
                BY <1>3, <3>1, TagIs, Zenon
            <4>2. e \in Nat /\ e >= i + 1
                BY <1>1, <1>3, <3>1 DEF TagTo
            <4> QED BY <1>3, <4>1, <4>2
        <3>3. i < i + Len(TagAt(t, i)) - 1
            BY <1>3, <3>2
        <3>4. In(t, s, m2, i, i)
            BY <2>1, <2>5, <3>3 DEF In
        <3>5. \A x \in Ends(t, i) : x > i
            <4>1. Ends(t, i) = {j \in (i + 2 * Len(TagAt(t, i)) - 1)..Len(t) :
                                  Has(t, j - Len(TagAt(t, i)) + 1, TagAt(t, i))}
                BY <1>3, <2>5, EndsOf
            <4>2. i + 2 * Len(TagAt(t, i)) - 1 > i /\ i + 2 * Len(TagAt(t, i)) - 1 \in Nat
                BY <1>3, <3>2
            <4> QED BY <1>1, <1>3, <4>1, <4>2
        <3> QED BY <1>2, <2>2, <2>4, <3>4, <3>5 DEF Begins
    <2>6. CASE TagAt(t, i) = <<>>
        <3>1. Plain(t, i)
            BY <1>3, <1>8, <2>6, PlainSays DEF Plain, Quotes
        <3>2. InTag(t, i)
            <4>1. i <= i /\ \A k \in (i + 1)..i : FALSE
                BY <1>3
            <4> QED BY <1>3, <1>8, <2>6, <4>1, Zenon DEF InTag
        <3> QED BY <1>2, <2>2, <2>4, <3>1, <3>2 DEF Begins, Idle
    <2> QED BY <2>5, <2>6
<1>9. CASE r \notin Quotes \union {"\\", "-", "/", "$"}
    <2>1. Plain(t, i)
        BY <1>3, <1>9, PlainSays
    <2>2. ~(r = "ATOMIC" /\ IsBeginAtomic(data))
        BY <1>1, <1>2, <1>3, BeginsBodySays
    <2>3. FromReady(r, data) = <<ReadyPiece>>
        BY <1>9, <2>2, ReadyIsPiece DEF FromReady
    <2>4. Idle(t, ReadyPiece, i)
        BY DEF Idle
    <2> QED BY <1>2, <2>1, <2>3, <2>4, ReadyIsPiece DEF Begins
<1> QED BY <1>4, <1>5, <1>6, <1>7, <1>8, <1>9

\* The groups stay as they are.
LEMMA GroupsStay ==
    ASSUME NEW t \in Seq(Symbols), ~Misread(t), NEW s, NEW n, AtLexeme(t, s, n)
    PROVE  LET r == t[n + 1]
               g == GroupsAt(t, n)
           IN  /\ g \in Seq(Delimiters)
               /\ GroupsAt(t, n + 1) = IF r = "(" THEN <<")">> \o g
                                       ELSE IF BeginsBody(t, n + 1, Lexemes(t)) THEN <<"END">> \o g
                                       ELSE IF g # <<>> /\ r = Head(g) THEN Tail(g) ELSE g
<1>1. n \in Nat /\ n < Len(t) /\ n \in 0..Len(t) /\ n + 1 \in Lexemes(t) /\ (n + 1) - 1 = n
    BY DEF AtLexeme
<1>2. GroupsAt(t, n) \in Seq(Delimiters)
    BY <1>1, GroupsType
<1>3. GroupsAt(t, n + 1) = Grouped(t, n + 1, Lexemes(t), GroupsAt(t, n))
    BY <1>1, GroupsNext
<1>4. /\ t[n + 1] \in {"ATOMIC", "END"} => Whole(t, n + 1)
      /\ ~(t[n + 1] = "CASE" /\ Whole(t, n + 1) /\ Contains(GroupsAt(t, n), "END"))
    BY <1>1, NotMisread
<1>5. Grouped(t, n + 1, Lexemes(t), GroupsAt(t, n))
        = IF t[n + 1] = "(" THEN <<")">> \o GroupsAt(t, n)
          ELSE IF BeginsBody(t, n + 1, Lexemes(t)) THEN <<"END">> \o GroupsAt(t, n)
          ELSE IF GroupsAt(t, n) # <<>> /\ t[n + 1] = Head(GroupsAt(t, n)) THEN Tail(GroupsAt(t, n))
          ELSE GroupsAt(t, n)
    BY <1>2, <1>4, GroupedSays, Zenon
<1> QED BY <1>2, <1>3, <1>5, Zenon

\* Between lexemes only a tag that cannot be one goes on.
LEMMA IdleReads ==
    ASSUME NEW t \in Seq(Symbols), ~Misread(t), NEW s, NEW n, AtLexeme(t, s, n),
           NEW m, Idle(t, m, n), NEW r, r = t[n + 1], NEW data, data = SubSeq(t, s + 1, n + 1)
    PROVE  AsIfReady(t, m, n, r, data, {"a", "wide", "BEGIN", "CASE"})
<1>1. n \in Nat /\ n < Len(t) /\ n + 1 \in Lexemes(t) /\ Separated(t, s, n + 1)
    BY DEF AtLexeme
<1>2. InTag(t, n) => n # 0 /\ t[n] \in Identifier
    BY <1>1, TagEnds
<1>3. InTag(t, n) => ~Whole(t, n + 1)
    <2>1. n # 0 => n + 1 > 1 /\ (n + 1) - 1 = n
        BY <1>1
    <2> QED BY <1>2, <2>1 DEF Whole
<1>4. r \in {"ATOMIC", "END"} => Whole(t, n + 1)
    BY <1>1, NotMisread
<1>5. r \in {"a", "wide"} \union Words /\ r \notin {"ATOMIC", "END"} => r \in {"a", "wide", "BEGIN", "CASE"}
    BY DEF Words
<1>6. AsIfReady(t, m, n, r, data, {"a", "wide"} \union Words)
    BY <1>1, FromIdle, Zenon
<1> QED BY <1>3, <1>4, <1>5, <1>6 DEF AsIfReady

\* What a symbol that can be in a tag makes of it.
LEMMA TagGoesOn ==
    ASSUME NEW t \in Seq(Symbols), ~Misread(t), NEW s, NEW n, AtLexeme(t, s, n),
           NEW m \in [kind : {"tag"}, offset : Int], InTag(t, n),
           t[n + 1] \in {"a", "BEGIN", "CASE"}, GroupsAt(t, n + 1) = GroupsAt(t, n)
    PROVE  Begins(t, s, m, n + 1)
<1>1. n \in Nat /\ n + 1 \in 1..Len(t)
    BY DEF AtLexeme
<1>2. Plain(t, n + 1)
    BY <1>1, PlainSays DEF Quotes
<1>3. PICK p \in Lexemes(t) :
        /\ p <= n /\ t[p] = "$" /\ TagAt(t, p) = <<>> /\ GroupsAt(t, p) = GroupsAt(t, n)
        /\ \A k \in (p + 1)..n : t[k] \in {"a"} \union Words
    BY DEF InTag
<1>4. p \in Nat
    BY NotMisread
<1>5. p <= n + 1 /\ \A k \in (p + 1)..(n + 1) : k \in (p + 1)..n \/ k = n + 1
    BY <1>1, <1>3, <1>4
<1>6. t[n + 1] \in {"a"} \union Words
    BY DEF Words
<1>7. \A k \in (p + 1)..(n + 1) : t[k] \in {"a"} \union Words
    BY <1>3, <1>5, <1>6
<1>8. InTag(t, n + 1)
    BY <1>3, <1>5, <1>7 DEF InTag
<1> QED BY <1>2, <1>8 DEF Begins, Idle

\* What is invalid makes all ready.
LEMMA InvalidIsReady ==
    ASSUME NEW data
    PROVE  /\ FromInnermost(ReadyPiece, Invalid, data) = <<ReadyPiece>>
           /\ \A m \in [kind : {"tag"}, offset : Int] : FromInnermost(m, Invalid, data) = <<ReadyPiece>>
<1>1. FromReady(Invalid, data) = Ready
    BY DEF FromReady, Invalid, Quotes
<1>2. FromInnermost(ReadyPiece, Invalid, data) = FromReady(Invalid, data)
    BY DEF FromInnermost, ReadyPiece
<1>3. ASSUME NEW m \in [kind : {"tag"}, offset : Int] PROVE FromInnermost(m, Invalid, data) = FromReady(Invalid, data)
    <2>1. FromInnermost(m, Invalid, data) = FromTag(m, Invalid, data)
        BY DEF FromInnermost
    <2>2. Invalid # "$" /\ Invalid \notin {"a", "wide"} \union Words
        BY DEF Invalid, Words
    <2>3. FromTag(m, Invalid, data) = FromReady(Invalid, data)
        BY <2>2 DEF FromTag
    <2> QED BY <2>1, <2>3
<1> QED BY <1>1, <1>2, <1>3, ReadyIsPiece

\* A lexeme that is no separator and opens or closes no group.
LEMMA LexemeBegins ==
    ASSUME NEW t \in Seq(Symbols), ~Misread(t), NEW s, NEW n, AtLexeme(t, s, n),
           NEW m \in Pieces, Idle(t, m, n),
           t[n + 1] # "semicolon", t[n + 1] # "(", ~BeginsBody(t, n + 1, Lexemes(t)),
           GroupsAt(t, n) # <<>> => t[n + 1] # Head(GroupsAt(t, n))
    PROVE  \E m3 : /\ Becomes(m, t[n + 1], SubSeq(t, s + 1, n + 1), GroupsAt(t, n), m3)
                   /\ Begins(t, s, m3, n + 1) /\ GroupsAt(t, n + 1) = GroupsAt(t, n)
<1>1. PICK r : r = t[n + 1]
    OBVIOUS
<1>2. PICK data : data = SubSeq(t, s + 1, n + 1)
    OBVIOUS
<1>3. GroupsAt(t, n + 1) = GroupsAt(t, n)
    BY GroupsStay
<1>4. CASE FromInnermost(m, r, data) = FromReady(r, data)
    <2>1. PICK m2 \in Pieces : FromReady(r, data) = <<m2>> /\ Begins(t, s, m2, n + 1)
        BY <1>1, <1>2, ReadyBegins
    <2>2. CASE r # "wide"
        <3>1. Becomes(m, r, data, GroupsAt(t, n), m2)
            BY <1>1, <1>4, <2>1, <2>2 DEF Becomes
        <3> QED BY <1>1, <1>2, <1>3, <2>1, <3>1
    <2>3. CASE r = "wide"
        <3>1. FromReady(r, data) = Ready
            BY <2>3 DEF FromReady, Quotes
        <3>2. m2 = ReadyPiece
            <4>1. <<m2>>[1] = m2 /\ Ready[1] = ReadyPiece
                BY ReadyIsPiece
            <4> QED BY <2>1, <3>1, <4>1
        <3>3. FromInnermost(m2, Invalid, data) = <<m2>>
            BY <3>2, InvalidIsReady
        <3>4. Becomes(m, r, data, GroupsAt(t, n), m2)
            BY <1>1, <1>4, <2>1, <3>3 DEF Becomes
        <3> QED BY <1>1, <1>2, <1>3, <2>1, <3>4
    <2> QED BY <2>2, <2>3
<1>5. CASE /\ m \in [kind : {"tag"}, offset : Int] /\ InTag(t, n)
           /\ r \in {"a", "wide", "BEGIN", "CASE"} /\ FromInnermost(m, r, data) = <<m>>
    <2>1. m # ReadyPiece
        BY <1>5 DEF ReadyPiece
    <2>2. CASE r # "wide"
        <3>1. Becomes(m, r, data, GroupsAt(t, n), m)
            BY <1>5, <2>1, <2>2 DEF Becomes
        <3>2. Begins(t, s, m, n + 1)
            BY <1>1, <1>3, <1>5, <2>2, TagGoesOn
        <3> QED BY <1>1, <1>2, <1>3, <3>1, <3>2
    <2>3. CASE r = "wide"
        <3>1. FromInnermost(m, Invalid, data) = <<ReadyPiece>>
            BY <1>5, InvalidIsReady
        <3>2. Becomes(m, r, data, GroupsAt(t, n), ReadyPiece)
            BY <1>5, <2>1, <2>3, <3>1, ReadyIsPiece DEF Becomes
        <3>3. Begins(t, s, ReadyPiece, n + 1)
            <4>1. n + 1 \in 1..Len(t)
                BY DEF AtLexeme
            <4>2. Plain(t, n + 1)
                BY <1>1, <2>3, <4>1, PlainSays DEF Quotes
            <4> QED BY <4>2 DEF Begins, Idle
        <3> QED BY <1>1, <1>2, <1>3, <3>2, <3>3
    <2> QED BY <2>2, <2>3
<1>6. AsIfReady(t, m, n, r, data, {"a", "wide", "BEGIN", "CASE"})
    BY <1>1, <1>2, IdleReads, Zenon
<1> QED BY <1>4, <1>5, <1>6 DEF AsIfReady

\* A separator in a group leaves the state as it is.
LEMMA IdleStays ==
    ASSUME NEW t \in Seq(Symbols), ~Misread(t), NEW n \in Nat, n < Len(t), t[n + 1] = "semicolon",
           GroupsAt(t, n) # <<>>, NEW m, Idle(t, m, n)
    PROVE  Idle(t, m, n + 1)
<1>1. Len(t) \in Nat /\ n + 1 \in Nat \ {0}
    OBVIOUS
<1>2. ASSUME Dashed(t, n) PROVE Dashed(t, n + 1)
    <2>1. PICK j \in Lexemes(t) :
            /\ j <= n /\ t[j] = "-" /\ ~Has(t, j, <<"-", "-">>)
            /\ (\A k \in (j + 1)..n : t[k] = "semicolon") /\ (j < n => GroupsAt(t, j) # <<>>)
        BY <1>2 DEF Dashed
    <2>2. j \in Nat
        BY NotMisread
    <2>3. j <= n + 1 /\ (j < n \/ j = n) /\ \A k \in (j + 1)..(n + 1) : k \in (j + 1)..n \/ k = n + 1
        BY <2>1, <2>2
    <2>4. GroupsAt(t, j) # <<>> /\ \A k \in (j + 1)..(n + 1) : t[k] = "semicolon"
        BY <2>1, <2>3
    <2> QED BY <2>1, <2>3, <2>4 DEF Dashed
<1>3. ASSUME InTag(t, n) PROVE BehindTag(t, n + 1)
    <2>1. PICK p \in Lexemes(t) :
            /\ p <= n /\ t[p] = "$" /\ TagAt(t, p) = <<>> /\ GroupsAt(t, p) = GroupsAt(t, n)
            /\ \A k \in (p + 1)..n : t[k] \in {"a"} \union Words
        BY <1>3 DEF InTag
    <2>2. p \in Nat
        BY NotMisread
    <2>3. p < n + 1 /\ \A k \in (p + 1)..(n + 1) : k \in (p + 1)..n \/ k = n + 1
        BY <2>1, <2>2
    <2>4. \A k \in (p + 1)..(n + 1) : t[k] \in Identifier \union {"semicolon"}
        BY <2>1, <2>3 DEF Identifier
    <2> QED BY <2>1, <2>3, <2>4 DEF BehindTag
<1>4. ASSUME BehindTag(t, n) PROVE BehindTag(t, n + 1)
    <2>1. PICK p \in Lexemes(t) :
            /\ p < n /\ t[p] = "$" /\ t[n] = "semicolon" /\ GroupsAt(t, p) # <<>>
            /\ \A k \in (p + 1)..n : t[k] \in Identifier \union {"semicolon"}
        BY <1>4 DEF BehindTag
    <2>2. p \in Nat
        BY NotMisread
    <2>3. p < n + 1 /\ \A k \in (p + 1)..(n + 1) : k \in (p + 1)..n \/ k = n + 1
        BY <2>1, <2>2
    <2>4. \A k \in (p + 1)..(n + 1) : t[k] \in Identifier \union {"semicolon"}
        BY <2>1, <2>3
    <2> QED BY <2>1, <2>3, <2>4 DEF BehindTag
<1>5. ~Has(t, n + 1, <<"/", "*">>)
    BY <1>1, PlainSays
<1> QED BY <1>2, <1>3, <1>4, <1>5 DEF Idle

-----------------------------------------------------------------------------
(* The state of the tokenizer and the text *)

\* A lexeme has ended.
Rest(t, m, n) == Between(t, n) /\ Idle(t, m, n)
\* Or one is being read, which began in this statement.
Inside(t, s, m, c, n) == Reading(t, c, n) /\ s < c /\ (\A x \in Ends(t, c) : x > n) /\ In(t, s, m, c, n)

\* A statement ends at a place.
CutAt(t, n) == n \in Lexemes(t) /\ t[n] = "semicolon" /\ GroupsAt(t, n - 1) = <<>>

\* A state that a text with so many symbols, and a statement that begins at a place, lead to.
Fits(t, s, n, st) ==
    \E m \in Pieces : st = Wrap(GroupsAt(t, n)) \o <<m>> /\ (Rest(t, m, n) \/ \E c : Inside(t, s, m, c, n))

\* What the next symbol makes of a state.
Follows(t, s, n, a) == IF CutAt(t, n + 1) THEN a = Emit ELSE Fits(t, s, n + 1, a)

\* In a lexeme.
LEMMA StepInside ==
    ASSUME NEW t \in Seq(Symbols), ~Misread(t), NEW s, NEW n \in Nat, n < Len(t), Separated(t, s, n + 1),
           NEW m \in Pieces, NEW c, Inside(t, s, m, c, n)
    PROVE  Follows(t, s, n, AfterState(Wrap(GroupsAt(t, n)) \o <<m>>, t[n + 1], SubSeq(t, s + 1, n + 1)))
<1>1. /\ Reading(t, c, n) /\ s < c /\ (\A x \in Ends(t, c) : x > n) /\ In(t, s, m, c, n)
    BY DEF Inside
<1>2. c \in Lexemes(t) /\ c \in 1..Len(t) /\ Len(t) \in Nat /\ c <= n /\ n <= LexemeEnd(t, c)
    <2>1. c \in Lexemes(t) /\ n \in c..LexemeEnd(t, c)
        BY <1>1 DEF Reading
    <2>2. c \in 1..Len(t)
        BY <2>1, NotMisread
    <2>3. LexemeEnd(t, c) \in c..Len(t)
        BY <2>2, EndsSays
    <2> QED BY <2>1, <2>2, <2>3
<1>3. Reads(t, s, c, n)
    BY <1>1, <1>2 DEF Reads
<1>4. ReadsOn(t, s, m, c, n)
    <2>1. CASE t[c] \in Quotes /\ m = [kind |-> "quote", delimiter |-> t[c], escape |-> FALSE]
        BY <1>3, <2>1, InQuote, Zenon
    <2>2. CASE t[c] = "\\" /\ n = c /\ m = [kind |-> "escape"]
        BY <1>3, <2>2, InEscape, Zenon
    <2>3. CASE /\ Has(t, c, <<"-", "-">>)
               /\ m = IF n = c THEN [kind |-> "comment"] ELSE [kind |-> "dollar", delimiter |-> <<"\n">>]
        BY <1>3, <2>3, InComment, Zenon
    <2>4. CASE /\ Has(t, c, <<"/", "*">>)
               /\ IF n = c THEN m = [kind |-> "block", depth |-> 0]
                  ELSE m = [kind |-> "block", depth |-> Depth(t, c, n)] /\ Depth(t, c, n) >= 1
        BY <1>3, <2>4, InBlock, Zenon
    <2>5. CASE /\ TagAt(t, c) # <<>>
               /\ m = IF n < c + Len(TagAt(t, c)) - 1 THEN [kind |-> "tag", offset |-> c - s]
                      ELSE [kind |-> "dollar", delimiter |-> TagAt(t, c)]
        BY <1>3, <2>5, InDollar, Zenon
    <2> QED BY <1>1, <2>1, <2>2, <2>3, <2>4, <2>5, Zenon DEF In
<1>5. PICK m3 : /\ Becomes(m, t[n + 1], SubSeq(t, s + 1, n + 1), GroupsAt(t, n), m3)
                /\ IF n + 1 \in Ends(t, c) THEN Idle(t, m3, n + 1) ELSE In(t, s, m3, c, n + 1)
    BY <1>4 DEF ReadsOn
<1>6. n \in 0..Len(t) /\ n + 1 \in 1..Len(t) /\ n \in 0..(Len(t) - 1)
    BY <1>2
<1>7. m3 \in Pieces
      /\ AfterState(Wrap(GroupsAt(t, n)) \o <<m>>, t[n + 1], SubSeq(t, s + 1, n + 1)) = Wrap(GroupsAt(t, n)) \o <<m3>>
    <2>1. GroupsAt(t, n) \in Seq(Delimiters)
        BY <1>6, GroupsType
    <2>2. Becomes(m, t[n + 1], SubSeq(t, s + 1, n + 1), GroupsAt(t, n), m3)
        BY <1>5
    <2>3. n + 1 \in 1..Len(t)
        BY <1>6
    <2>4. m3 \in Pieces
        BY <2>2 DEF Becomes
    <2>5. AfterState(Wrap(GroupsAt(t, n)) \o <<m>>, t[n + 1], SubSeq(t, s + 1, n + 1)) = Wrap(GroupsAt(t, n)) \o <<m3>>
        <3>1. Leads(GroupsAt(t, n), m, t[n + 1], SubSeq(t, s + 1, n + 1), m3)
            BY <2>1, <2>2, <2>3, BecomesState, Zenon
        <3> QED BY <3>1 DEF Leads
    <2> QED BY <2>4, <2>5
<1>8. /\ n + 1 <= LexemeEnd(t, c) /\ LexemeEnd(t, c) \in Nat
      /\ n + 1 \in Ends(t, c) => LexemeEnd(t, c) = n + 1
      /\ n + 1 \notin Ends(t, c) => \A x \in Ends(t, c) : x > n + 1
    <2>1. Ends(t, c) \subseteq 1..Len(t) /\ LexemeEnd(t, c) = First(t, Ends(t, c))
        BY <1>2, EndsSays
    <2> QED BY <1>1, <1>2, <1>6, <2>1, FirstBehind
<1>9. n + 1 \notin Lexemes(t) /\ Reading(t, c, n + 1)
    <2>1. n < LexemeEnd(t, c)
        BY <1>8
    <2> QED BY <1>1, <2>1, SameLexeme
<1>10. GroupsAt(t, n + 1) = GroupsAt(t, n)
    BY <1>9, GroupsNext
<1>11. Rest(t, m3, n + 1) \/ Inside(t, s, m3, c, n + 1)
    <2>1. CASE n + 1 \in Ends(t, c)
        BY <1>5, <1>8, <1>9, <2>1 DEF Rest, Between
    <2>2. CASE n + 1 \notin Ends(t, c)
        BY <1>1, <1>5, <1>8, <1>9, <2>2 DEF Inside
    <2> QED BY <2>1, <2>2
<1> QED BY <1>7, <1>9, <1>10, <1>11 DEF Follows, Fits, CutAt

\* At a lexeme of one symbol.
LEMMA RestAtPlain ==
    ASSUME NEW t \in Seq(Symbols), NEW n \in Nat, n < Len(t), Reading(t, n + 1, n + 1), Plain(t, n + 1),
           NEW m, Idle(t, m, n + 1)
    PROVE  Rest(t, m, n + 1)
<1>1. n + 1 \in 1..Len(t)
    OBVIOUS
<1>2. LexemeEnd(t, n + 1) = n + 1
    BY <1>1, EndsSays
<1> QED BY <1>2 DEF Rest, Between

\* A separator.
LEMMA StepSeparator ==
    ASSUME NEW t \in Seq(Symbols), ~Misread(t), NEW s, NEW n \in Nat, AtLexeme(t, s, n),
           Reading(t, n + 1, n + 1), t[n + 1] = "semicolon", NEW m \in Pieces, Idle(t, m, n)
    PROVE  /\ Follows(t, s, n, AfterState(Wrap(GroupsAt(t, n)) \o <<m>>, t[n + 1], SubSeq(t, s + 1, n + 1)))
           /\ CutAt(t, n + 1) => Fits(t, n + 1, n + 1, Ready)
<1>1. PICK g : g = GroupsAt(t, n)
    OBVIOUS
<1>2. PICK data : data = SubSeq(t, s + 1, n + 1)
    OBVIOUS
<1>3. /\ n < Len(t) /\ n + 1 \in Lexemes(t) /\ Separated(t, s, n + 1) /\ n + 1 \in 1..Len(t) /\ (n + 1) - 1 = n
    BY DEF AtLexeme
<1>4. ~BeginsBody(t, n + 1, Lexemes(t))
    BY DEF BeginsBody
<1>5. g \in Seq(Delimiters)
    <2>1. n \in 0..Len(t)
        BY <1>3
    <2> QED BY <1>1, <2>1, GroupsType
<1>6. g # <<>> => Head(g) \in Delimiters /\ t[n + 1] # Head(g)
    <2>1. g # <<>> => Head(g) \in Delimiters
        BY <1>5
    <2> QED BY <2>1 DEF Delimiters
<1>7. GroupsAt(t, n + 1) = g
    BY <1>1, <1>4, <1>6, GroupsStay
<1>8. CutAt(t, n + 1) <=> g = <<>>
    BY <1>1, <1>3 DEF CutAt
<1>9. FromInnermost(m, t[n + 1], data) = Emit
    <2>1. AsIfReady(t, m, n, t[n + 1], data, {"a", "wide", "BEGIN", "CASE"})
        BY <1>2, IdleReads, Zenon
    <2>2. FromInnermost(m, t[n + 1], data) = FromReady(t[n + 1], data)
        BY <2>1 DEF AsIfReady
    <2>3. FromReady(t[n + 1], data) = Emit
        BY DEF FromReady, Quotes
    <2> QED BY <2>2, <2>3
<1>10. g # <<>> => ~EndsWith(data, <<Head(g)>>)
    BY <1>2, <1>3, <1>5, <1>6, AtDelimiter, Zenon
<1>11. NextState(Wrap(g) \o <<m>>, t[n + 1], data) = IF g = <<>> THEN Emit ELSE Wrap(g) \o <<m>>
    BY <1>5, <1>9, <1>10, EndsInside, Zenon
<1>12. AfterState(Wrap(g) \o <<m>>, t[n + 1], data) = IF g = <<>> THEN Emit ELSE Wrap(g) \o <<m>>
    <2>1. t[n + 1] # "wide"
        OBVIOUS
    <2> QED BY <1>11, <2>1, Zenon DEF AfterState
<1>13. Plain(t, n + 1)
    BY <1>3, PlainSays DEF Quotes
<1>14. g # <<>> => Rest(t, m, n + 1)
    <2>1. g # <<>> => Idle(t, m, n + 1)
        BY <1>1, <1>3, IdleStays
    <2> QED BY <1>3, <1>13, <2>1, RestAtPlain
<1>15. Follows(t, s, n, AfterState(Wrap(g) \o <<m>>, t[n + 1], data))
    <2>1. CASE g = <<>>
        BY <1>8, <1>12, <2>1 DEF Follows
    <2>2. CASE g # <<>>
        <3>1. Fits(t, s, n + 1, Wrap(g) \o <<m>>)
            BY <1>7, <1>14, <2>2 DEF Fits
        <3> QED BY <1>8, <1>12, <2>2, <3>1 DEF Follows
    <2> QED BY <2>1, <2>2
<1>16. ASSUME CutAt(t, n + 1) PROVE Fits(t, n + 1, n + 1, Ready)
    <2>1. Rest(t, ReadyPiece, n + 1)
        <3>1. Idle(t, ReadyPiece, n + 1)
            BY DEF Idle
        <3> QED BY <1>3, <1>13, <3>1, RestAtPlain
    <2>2. Wrap(GroupsAt(t, n + 1)) \o <<ReadyPiece>> = Ready
        <3>1. GroupsAt(t, n + 1) = <<>>
            BY <1>7, <1>8, <1>16
        <3>2. Wrap(<<>>) = <<>>
            <4>1. Wrap(<<>>) \in Seq(Pieces) /\ Len(Wrap(<<>>)) = 0
                <5>1. <<>> \in Seq(Delimiters) /\ Len(<<>>) = 0
                    OBVIOUS
                <5> QED BY <5>1, WrapType
            <4> QED BY <4>1, EmptySeq
        <3>3. <<>> \o <<ReadyPiece>> = <<ReadyPiece>>
            OBVIOUS
        <3> QED BY <3>1, <3>2, <3>3, ReadyIsPiece
    <2> QED BY <2>1, <2>2, ReadyIsPiece DEF Fits
<1> QED BY <1>1, <1>2, <1>15, <1>16

\* What opens a group.
LEMMA StepOpens ==
    ASSUME NEW t \in Seq(Symbols), ~Misread(t), NEW s, NEW n \in Nat, AtLexeme(t, s, n),
           Reading(t, n + 1, n + 1), NEW m \in Pieces, Idle(t, m, n), NEW d,
           \/ t[n + 1] = "(" /\ d = ")"
           \/ BeginsBody(t, n + 1, Lexemes(t)) /\ d = "END"
    PROVE  Follows(t, s, n, AfterState(Wrap(GroupsAt(t, n)) \o <<m>>, t[n + 1], SubSeq(t, s + 1, n + 1)))
<1>1. PICK g : g = GroupsAt(t, n)
    OBVIOUS
<1>2. PICK data : data = SubSeq(t, s + 1, n + 1)
    OBVIOUS
<1>3. /\ n < Len(t) /\ n + 1 \in Lexemes(t) /\ Separated(t, s, n + 1) /\ n + 1 \in 1..Len(t) /\ (n + 1) - 1 = n
    BY DEF AtLexeme
<1>4. g \in Seq(Delimiters) /\ d \in Delimiters
    <2>1. n \in 0..Len(t)
        BY <1>3
    <2> QED BY <1>1, <2>1, GroupsType DEF Delimiters
<1>5. PICK r : r = t[n + 1]
    OBVIOUS
<1>6. r \in {"(", "ATOMIC"}
    BY <1>5 DEF BeginsBody
<1>7. GroupsAt(t, n + 1) = <<d>> \o g
    BY <1>1, <1>5, <1>6, GroupsStay DEF BeginsBody
<1>8. PICK x : x = Atomic(<<d>>) \o Ready
    OBVIOUS
<1>9. FromInnermost(m, r, data) = x
    <2>1. AsIfReady(t, m, n, r, data, {"a", "wide", "BEGIN", "CASE"})
        BY <1>2, <1>5, IdleReads, Zenon
    <2>2. FromInnermost(m, r, data) = FromReady(r, data)
        BY <1>6, <2>1 DEF AsIfReady
    <2>3. r = "ATOMIC" => (IsBeginAtomic(data) <=> BeginsBody(t, n + 1, Lexemes(t)))
        BY <1>2, <1>3, <1>5, BeginsBodySays, Zenon
    <2>4. CASE r = "("
        <3>1. d = ")"
            BY <1>5, <2>4 DEF BeginsBody
        <3> QED BY <1>8, <2>2, <2>4, <3>1 DEF FromReady, Quotes
    <2>5. CASE r = "ATOMIC"
        <3>1. d = "END" /\ IsBeginAtomic(data)
            BY <1>5, <2>3, <2>5
        <3> QED BY <1>8, <2>2, <2>5, <3>1 DEF FromReady, Quotes
    <2> QED BY <1>6, <2>4, <2>5
<1>10. PICK a : a = [kind |-> "atomic", delimiter |-> <<d>>]
    OBVIOUS
<1>11. a \in Pieces
    <2>1. d \in Symbols
        BY <1>4 DEF Delimiters, Symbols
    <2>2. <<d>> \in Seq(Symbols)
        BY <2>1
    <2> QED BY <1>10, <2>2 DEF Pieces
<1>12. x \in Seq(Pieces) /\ Len(x) = 2 /\ x[1] = a /\ x[2] = ReadyPiece
    <2>1. x = <<a>> \o <<ReadyPiece>>
        BY <1>8, <1>10, ReadyIsPiece DEF Atomic
    <2> QED BY <1>11, <2>1, ReadyIsPiece
<1>13. x # Emit /\ x # Ready
    <2>1. Len(Emit) = 0 /\ Len(Ready) = 1
        BY DEF Emit, Ready
    <2>2. Len(x) # Len(Emit) /\ Len(x) # Len(Ready)
        BY <1>12, <2>1
    <2> QED BY <2>2, Zenon
<1>14. NextState(Wrap(g) \o <<m>>, r, data) = Wrap(g) \o x
    <2>1. Goes(m, r, data, x)
        BY <1>9, <1>13 DEF Goes
    <2>2. Stays(g, x, data)
        BY <1>13 DEF Stays
    <2> QED BY <1>4, <1>12, <2>1, <2>2, GoesOnInside, Zenon
<1>15. Wrap(g) \o x = Wrap(GroupsAt(t, n + 1)) \o <<ReadyPiece>>
    <2>1. <<ReadyPiece>> \in Seq(Pieces)
        BY ReadyIsPiece
    <2>2. Wrap(<<d>> \o g) \o <<ReadyPiece>> = Wrap(g) \o (Atomic(<<d>>) \o <<ReadyPiece>>)
        BY <1>4, <2>1, WrapCons, Zenon
    <2> QED BY <1>7, <1>8, <2>2, ReadyIsPiece
<1>16. AfterState(Wrap(g) \o <<m>>, r, data) = Wrap(GroupsAt(t, n + 1)) \o <<ReadyPiece>>
    <2>1. r # "wide"
        BY <1>6
    <2> QED BY <1>14, <1>15, <2>1, Zenon DEF AfterState
<1>17. Rest(t, ReadyPiece, n + 1)
    <2>1. Plain(t, n + 1)
        BY <1>3, <1>5, <1>6, PlainSays DEF Quotes
    <2>2. Idle(t, ReadyPiece, n + 1)
        BY DEF Idle
    <2> QED BY <1>3, <2>1, <2>2, RestAtPlain
<1>18. ~CutAt(t, n + 1)
    BY <1>5, <1>6 DEF CutAt
<1>19. Fits(t, s, n + 1, AfterState(Wrap(g) \o <<m>>, r, data))
    BY <1>16, <1>17, ReadyIsPiece DEF Fits
<1> QED BY <1>1, <1>2, <1>5, <1>18, <1>19 DEF Follows

\* What closes a group.
LEMMA StepCloses ==
    ASSUME NEW t \in Seq(Symbols), ~Misread(t), ~Nested(t), NEW s, NEW n \in Nat, AtLexeme(t, s, n),
           Reading(t, n + 1, n + 1), NEW m \in Pieces, Idle(t, m, n),
           GroupsAt(t, n) # <<>>, t[n + 1] = Head(GroupsAt(t, n))
    PROVE  Follows(t, s, n, AfterState(Wrap(GroupsAt(t, n)) \o <<m>>, t[n + 1], SubSeq(t, s + 1, n + 1)))
<1>1. PICK g : g = GroupsAt(t, n)
    OBVIOUS
<1>2. PICK data : data = SubSeq(t, s + 1, n + 1)
    OBVIOUS
<1>3. /\ n < Len(t) /\ n + 1 \in Lexemes(t) /\ Separated(t, s, n + 1) /\ n + 1 \in 1..Len(t) /\ n \in 0..Len(t)
    BY DEF AtLexeme
<1>4. g \in Seq(Delimiters) /\ g # <<>>
    BY <1>1, <1>3, GroupsType
<1>5. PICK r : r = t[n + 1]
    OBVIOUS
<1>6. r = Head(g) /\ r \in Delimiters
    BY <1>1, <1>4, <1>5
<1>7. r \in {")", "END"}
    BY <1>6 DEF Delimiters
<1>8. GroupsAt(t, n + 1) = Tail(g)
    BY <1>1, <1>4, <1>5, <1>6, <1>7, GroupsStay DEF BeginsBody
<1>9. FromInnermost(m, r, data) = Ready
    <2>1. AsIfReady(t, m, n, r, data, {"a", "wide", "BEGIN", "CASE"})
        BY <1>2, <1>5, IdleReads, Zenon
    <2>2. FromInnermost(m, r, data) = FromReady(r, data)
        BY <1>7, <2>1 DEF AsIfReady
    <2>3. FromReady(r, data) = Ready
        BY <1>7 DEF FromReady, Quotes
    <2> QED BY <2>2, <2>3
<1>10. EndsWith(data, <<Head(g)>>)
    BY <1>2, <1>3, <1>4, <1>5, <1>6, AtDelimiter, Zenon
<1>11. Len(g) >= 2 => ~EndsWith(data, <<g[2]>>)
    <2>1. SUFFICES ASSUME Len(g) >= 2 PROVE ~EndsWith(data, <<g[2]>>)
        OBVIOUS
    <2>2. PICK d : d = g[2]
        OBVIOUS
    <2>3. d # r
        BY <1>1, <1>3, <1>6, <2>1, <2>2, NotNested
    <2>4. d \in Delimiters
        BY <1>4, <2>1, <2>2
    <2>5. d \in Symbols /\ d # "semicolon"
        BY <2>4 DEF Delimiters, Symbols
    <2>6. EndsWith(data, <<d>>) <=> t[n + 1] = d
        BY <1>2, <1>3, <2>5, EndsWithOne, Zenon
    <2> QED BY <1>5, <2>2, <2>3, <2>6
<1>12. NextState(Wrap(g) \o <<m>>, r, data) = Wrap(Tail(g)) \o Ready
    BY <1>4, <1>9, <1>10, <1>11, ClosesGroup, Zenon
<1>13. AfterState(Wrap(g) \o <<m>>, r, data) = Wrap(GroupsAt(t, n + 1)) \o <<ReadyPiece>>
    <2>1. r # "wide"
        BY <1>7
    <2> QED BY <1>8, <1>12, <2>1, ReadyIsPiece, Zenon DEF AfterState
<1>14. Rest(t, ReadyPiece, n + 1)
    <2>1. Plain(t, n + 1)
        BY <1>3, <1>5, <1>7, PlainSays DEF Quotes
    <2>2. Idle(t, ReadyPiece, n + 1)
        BY DEF Idle
    <2> QED BY <1>3, <2>1, <2>2, RestAtPlain
<1>15. ~CutAt(t, n + 1)
    BY <1>5, <1>7 DEF CutAt
<1>16. Fits(t, s, n + 1, AfterState(Wrap(g) \o <<m>>, r, data))
    BY <1>13, <1>14, ReadyIsPiece DEF Fits
<1> QED BY <1>1, <1>2, <1>5, <1>15, <1>16 DEF Follows

\* All else.
LEMMA StepBegins ==
    ASSUME NEW t \in Seq(Symbols), ~Misread(t), NEW s, NEW n \in Nat, AtLexeme(t, s, n),
           Reading(t, n + 1, n + 1), NEW m \in Pieces, Idle(t, m, n),
           t[n + 1] # "semicolon", t[n + 1] # "(", ~BeginsBody(t, n + 1, Lexemes(t)),
           GroupsAt(t, n) # <<>> => t[n + 1] # Head(GroupsAt(t, n))
    PROVE  Follows(t, s, n, AfterState(Wrap(GroupsAt(t, n)) \o <<m>>, t[n + 1], SubSeq(t, s + 1, n + 1)))
<1>1. /\ n < Len(t) /\ n + 1 \in Lexemes(t) /\ Separated(t, s, n + 1) /\ n + 1 \in 1..Len(t) /\ n \in 0..Len(t)
      /\ s \in Nat /\ s < n + 1
    BY DEF AtLexeme, Separated
<1>2. PICK m3 : /\ Becomes(m, t[n + 1], SubSeq(t, s + 1, n + 1), GroupsAt(t, n), m3)
                /\ Begins(t, s, m3, n + 1) /\ GroupsAt(t, n + 1) = GroupsAt(t, n)
    BY LexemeBegins
<1>3. m3 \in Pieces
      /\ AfterState(Wrap(GroupsAt(t, n)) \o <<m>>, t[n + 1], SubSeq(t, s + 1, n + 1)) = Wrap(GroupsAt(t, n)) \o <<m3>>
    <2>1. GroupsAt(t, n) \in Seq(Delimiters)
        BY <1>1, GroupsType
    <2>2. Becomes(m, t[n + 1], SubSeq(t, s + 1, n + 1), GroupsAt(t, n), m3)
        BY <1>2
    <2>3. n + 1 \in 1..Len(t) /\ Separated(t, s, n + 1)
        BY <1>1
    <2>4. m3 \in Pieces
        BY <2>2 DEF Becomes
    <2>5. AfterState(Wrap(GroupsAt(t, n)) \o <<m>>, t[n + 1], SubSeq(t, s + 1, n + 1)) = Wrap(GroupsAt(t, n)) \o <<m3>>
        <3>1. Leads(GroupsAt(t, n), m, t[n + 1], SubSeq(t, s + 1, n + 1), m3)
            BY <2>1, <2>2, <2>3, BecomesState, Zenon
        <3> QED BY <3>1 DEF Leads
    <2> QED BY <2>4, <2>5
<1>4. Rest(t, m3, n + 1) \/ Inside(t, s, m3, n + 1, n + 1)
    <2>1. CASE Plain(t, n + 1) /\ Idle(t, m3, n + 1)
        BY <1>1, <2>1, RestAtPlain
    <2>2. CASE In(t, s, m3, n + 1, n + 1) /\ \A x \in Ends(t, n + 1) : x > n + 1
        BY <1>1, <2>2 DEF Inside
    <2> QED BY <1>2, <2>1, <2>2 DEF Begins
<1>5. ~CutAt(t, n + 1)
    BY DEF CutAt
<1>6. Fits(t, s, n + 1, Wrap(GroupsAt(t, n)) \o <<m3>>)
    BY <1>2, <1>3, <1>4 DEF Fits
<1> QED BY <1>3, <1>5, <1>6 DEF Follows

\* One symbol more, whatever it is.
LEMMA StepFits ==
    ASSUME NEW t \in Seq(Symbols), ~Misread(t), ~Nested(t), NEW n \in Nat, n < Len(t),
           NEW s, Separated(t, s, n + 1), NEW st, Fits(t, s, n, st)
    PROVE  /\ Follows(t, s, n, AfterState(st, t[n + 1], SubSeq(t, s + 1, n + 1)))
           /\ CutAt(t, n + 1) => Fits(t, n + 1, n + 1, Ready)
<1>1. PICK m \in Pieces : st = Wrap(GroupsAt(t, n)) \o <<m>> /\ (Rest(t, m, n) \/ \E c : Inside(t, s, m, c, n))
    BY DEF Fits
<1>2. CASE \E c : Inside(t, s, m, c, n)
    <2>1. PICK c : Inside(t, s, m, c, n)
        BY <1>2
    <2>2. Follows(t, s, n, AfterState(st, t[n + 1], SubSeq(t, s + 1, n + 1)))
        BY <1>1, <2>1, StepInside, Zenon
    <2>3. ~CutAt(t, n + 1)
        <3>1. /\ Reading(t, c, n) /\ (\A x \in Ends(t, c) : x > n) /\ Len(t) \in Nat
            BY <2>1 DEF Inside
        <3>2. c \in 1..Len(t)
            BY <3>1, NotMisread DEF Reading
        <3>3. Ends(t, c) \subseteq 1..Len(t) /\ LexemeEnd(t, c) = First(t, Ends(t, c))
            BY <3>2, EndsSays
        <3>4. n \in 0..(Len(t) - 1)
            BY <3>1
        <3>5. LexemeEnd(t, c) \in Nat /\ n + 1 <= LexemeEnd(t, c)
            BY <3>1, <3>3, <3>4, FirstBehind
        <3>6. n < LexemeEnd(t, c)
            BY <3>5
        <3> QED BY <3>1, <3>6, SameLexeme DEF CutAt
    <2> QED BY <2>2, <2>3
<1>3. CASE Rest(t, m, n)
    <2>1. n + 1 \in Lexemes(t) /\ Reading(t, n + 1, n + 1) /\ Idle(t, m, n)
        BY <1>3, NextLexeme DEF Rest
    <2>2. AtLexeme(t, s, n)
        BY <2>1 DEF AtLexeme
    <2>3. CASE t[n + 1] = "semicolon"
        BY <1>1, <2>1, <2>2, <2>3, StepSeparator, Zenon
    <2>4. CASE t[n + 1] # "semicolon"
        <3>1. ~CutAt(t, n + 1)
            BY <2>4 DEF CutAt
        <3>2. CASE t[n + 1] = "("
            BY <1>1, <2>1, <2>2, <3>1, <3>2, StepOpens, Zenon
        <3>3. CASE BeginsBody(t, n + 1, Lexemes(t))
            BY <1>1, <2>1, <2>2, <3>1, <3>3, StepOpens, Zenon
        <3>4. CASE GroupsAt(t, n) # <<>> /\ t[n + 1] = Head(GroupsAt(t, n))
            BY <1>1, <2>1, <2>2, <3>1, <3>4, StepCloses, Zenon
        <3>5. CASE /\ t[n + 1] # "(" /\ ~BeginsBody(t, n + 1, Lexemes(t))
                   /\ ~(GroupsAt(t, n) # <<>> /\ t[n + 1] = Head(GroupsAt(t, n)))
            BY <1>1, <2>1, <2>2, <2>4, <3>1, <3>5, StepBegins, Zenon
        <3> QED BY <3>2, <3>3, <3>4, <3>5
    <2> QED BY <2>3, <2>4
<1> QED BY <1>1, <1>2, <1>3

-----------------------------------------------------------------------------
(* What the tokenizer has done *)

\* What one symbol more makes of all that the tokenizer keeps.
Advance(t, n, a) ==
    LET next == AfterState(a.state, t[n + 1], SubSeq(t, a.start + 1, n + 1))
    IN  IF next = Emit THEN [start |-> n + 1, state |-> Ready, cuts |-> a.cuts \union {n + 1}]
        ELSE [start |-> a.start, state |-> next, cuts |-> a.cuts]

\* What it kept after each symbol.
Trace(t, h) ==
    /\ h[0] = [start |-> 0, state |-> Ready, cuts |-> {}]
    /\ \A n \in 0..(Len(t) - 1) : h[n + 1] = Advance(t, n, h[n])
    /\ \A n \in 0..Len(t) : h[n].start \in 0..n

\* What it keeps comes from the text, symbol by symbol.
TraceInv ==
    /\ text \in Seq(Symbols)
    /\ \E h : Trace(text, h) /\ h[Len(text)] = [start |-> start, state |-> state, cuts |-> cuts]

\* Where statements end that were read.
CutsTo(t, n) == {i \in Lexemes(t) : i <= n /\ CutAt(t, i)}

\* What is kept after so many symbols is what the rules say.
Known(t, n, a) ==
    /\ a.start \in 0..n /\ (a.start = 0 \/ t[a.start] = "semicolon")
    /\ a.cuts = CutsTo(t, n) /\ Fits(t, a.start, n, a.state)

\* In the beginning.
LEMMA KnownFirst ==
    ASSUME NEW t \in Seq(Symbols)
    PROVE  Known(t, 0, [start |-> 0, state |-> Ready, cuts |-> {}])
<1>1. CutsTo(t, 0) = {}
    <2>1. Lexemes(t) \subseteq 1..Len(t) /\ Len(t) \in Nat
        BY LexemesDo
    <2> QED BY <2>1 DEF CutsTo
<1>2. Wrap(GroupsAt(t, 0)) \o <<ReadyPiece>> = Ready
    <2>1. GroupsAt(t, 0) = <<>>
        BY GroupsDo DEF GroupsAt
    <2>2. Wrap(<<>>) = <<>>
        <3>1. <<>> \in Seq(Delimiters) /\ Len(<<>>) = 0
            OBVIOUS
        <3>2. Wrap(<<>>) \in Seq(Pieces) /\ Len(Wrap(<<>>)) = 0
            BY <3>1, WrapType
        <3> QED BY <3>2, EmptySeq
    <2>3. <<>> \o <<ReadyPiece>> = <<ReadyPiece>>
        OBVIOUS
    <2> QED BY <2>1, <2>2, <2>3, ReadyIsPiece
<1>3. Rest(t, ReadyPiece, 0)
    BY DEF Rest, Between, Idle
<1>4. Fits(t, 0, 0, Ready)
    BY <1>2, <1>3, ReadyIsPiece DEF Fits
<1> QED BY <1>1, <1>4 DEF Known

\* After each symbol.
LEMMA KnownNext ==
    ASSUME NEW t \in Seq(Symbols), ~Misread(t), ~Nested(t), NEW n \in Nat, n < Len(t),
           NEW a, Known(t, n, a)
    PROVE  Known(t, n + 1, Advance(t, n, a))
<1>1. PICK s : s = a.start
    OBVIOUS
<1>2. PICK st : st = a.state
    OBVIOUS
<1>3. s \in Nat /\ s <= n /\ (s = 0 \/ t[s] = "semicolon") /\ a.cuts = CutsTo(t, n) /\ Fits(t, s, n, st)
    BY <1>1, <1>2 DEF Known
<1>4. Separated(t, s, n + 1)
    BY <1>3 DEF Separated
<1>5. PICK next : next = AfterState(st, t[n + 1], SubSeq(t, s + 1, n + 1))
    OBVIOUS
<1>6. Follows(t, s, n, next) /\ (CutAt(t, n + 1) => Fits(t, n + 1, n + 1, Ready))
    BY <1>3, <1>4, <1>5, StepFits, Zenon
<1>7. Advance(t, n, a) = IF next = Emit THEN [start |-> n + 1, state |-> Ready, cuts |-> a.cuts \union {n + 1}]
                         ELSE [start |-> s, state |-> next, cuts |-> a.cuts]
    BY <1>1, <1>2, <1>5, Zenon DEF Advance
<1>8. CutsTo(t, n + 1) = IF CutAt(t, n + 1) THEN CutsTo(t, n) \union {n + 1} ELSE CutsTo(t, n)
    <2>1. Lexemes(t) \subseteq 1..Len(t) /\ Len(t) \in Nat
        BY LexemesDo
    <2>2. \A i \in Lexemes(t) : i <= n + 1 <=> i <= n \/ i = n + 1
        BY <2>1
    <2>3. CutAt(t, n + 1) => n + 1 \in Lexemes(t)
        BY DEF CutAt
    <2> QED BY <2>2, <2>3 DEF CutsTo
<1>9. CASE CutAt(t, n + 1)
    <2>1. next = Emit
        BY <1>6, <1>9 DEF Follows
    <2>2. PICK b : b = [start |-> n + 1, state |-> Ready, cuts |-> a.cuts \union {n + 1}]
        OBVIOUS
    <2>3. b.start = n + 1 /\ b.state = Ready /\ b.cuts = CutsTo(t, n + 1)
        BY <1>3, <1>8, <1>9, <2>2
    <2>4. t[n + 1] = "semicolon" /\ n + 1 \in 0..(n + 1)
        BY <1>9 DEF CutAt
    <2>5. Known(t, n + 1, b)
        BY <1>6, <1>9, <2>3, <2>4 DEF Known
    <2> QED BY <1>7, <2>1, <2>2, <2>5
<1>10. CASE ~CutAt(t, n + 1)
    <2>1. Fits(t, s, n + 1, next)
        BY <1>6, <1>10 DEF Follows
    <2>2. next # Emit
        <3>1. PICK m \in Pieces : next = Wrap(GroupsAt(t, n + 1)) \o <<m>>
            BY <2>1 DEF Fits
        <3>2. GroupsAt(t, n + 1) \in Seq(Delimiters)
            <4>1. n + 1 \in 0..Len(t)
                OBVIOUS
            <4> QED BY <4>1, GroupsType
        <3>3. Len(next) = Len(GroupsAt(t, n + 1)) + 1 /\ Len(GroupsAt(t, n + 1)) \in Nat
            BY <3>1, <3>2, StateOf
        <3>4. Len(Emit) = 0
            BY DEF Emit
        <3>5. Len(next) # Len(Emit)
            BY <3>3, <3>4
        <3> QED BY <3>5, Zenon
    <2>3. PICK b : b = [start |-> s, state |-> next, cuts |-> a.cuts]
        OBVIOUS
    <2>4. b.start = s /\ b.state = next /\ b.cuts = CutsTo(t, n + 1)
        BY <1>3, <1>8, <1>10, <2>3
    <2>5. s \in 0..(n + 1)
        BY <1>3
    <2>6. Known(t, n + 1, b)
        BY <1>3, <2>1, <2>4, <2>5 DEF Known
    <2> QED BY <1>7, <2>2, <2>3, <2>6
<1> QED BY <1>9, <1>10

\* At the end of a text, what was cut is where statements end.
LEMMA TraceCuts ==
    ASSUME NEW t \in Seq(Symbols), ~Misread(t), ~Nested(t), NEW h, Trace(t, h)
    PROVE  h[Len(t)].cuts = StatementEnds(t)
<1> DEFINE T == {n \in Nat : n <= Len(t) => Known(t, n, h[n])}
<1>1. 0 \in T
    BY KnownFirst DEF Trace
<1>2. ASSUME NEW n \in Nat, n \in T PROVE n + 1 \in T
    <2>1. SUFFICES ASSUME n + 1 <= Len(t) PROVE Known(t, n + 1, h[n + 1])
        OBVIOUS
    <2>2. n < Len(t) /\ n <= Len(t) /\ n \in 0..(Len(t) - 1)
        BY <2>1
    <2>3. Known(t, n, h[n])
        BY <1>2, <2>2
    <2>4. h[n + 1] = Advance(t, n, h[n])
        BY <2>2 DEF Trace
    <2> QED BY <2>2, <2>3, <2>4, KnownNext
<1>3. Len(t) \in T
    <2> HIDE DEF T
    <2>1. Len(t) \in Nat
        OBVIOUS
    <2> QED BY <1>1, <1>2, <2>1, Climb
<1>4. h[Len(t)].cuts = CutsTo(t, Len(t))
    BY <1>3 DEF Known
<1>5. CutsTo(t, Len(t)) = StatementEnds(t)
    <2>1. Lexemes(t) \subseteq 1..Len(t) /\ Len(t) \in Nat
        BY LexemesDo
    <2>2. StatementEnds(t) = {i \in Lexemes(t) : t[i] = "semicolon" /\ GroupsAt(t, i - 1) = <<>>}
        BY DEF StatementEnds, GroupsAt
    <2> QED BY <2>1, <2>2 DEF CutsTo, CutAt
<1> QED BY <1>4, <1>5

\* The trace grows with the text.
LEMMA TraceGrows ==
    ASSUME NEW t \in Seq(Symbols), NEW r \in Symbols, NEW h, Trace(t, h)
    PROVE  \E f : /\ Trace(Append(t, r), f)
                  /\ f[Len(t) + 1] = Advance(Append(t, r), Len(t), h[Len(t)])
<1>1. PICK u : u = Append(t, r)
    OBVIOUS
<1>2. PICK L : L = Len(t)
    OBVIOUS
<1>3. u \in Seq(Symbols) /\ L \in Nat /\ Len(u) = L + 1 /\ \A k \in 1..L : u[k] = t[k]
    BY <1>1, <1>2, AppendProperties
<1>4. PICK f : f = [n \in 0..(L + 1) |-> IF n <= L THEN h[n] ELSE Advance(u, L, h[L])]
    OBVIOUS
<1>5. (\A n \in 0..L : f[n] = h[n]) /\ f[L + 1] = Advance(u, L, h[L])
    BY <1>3, <1>4
<1>6. f[0] = [start |-> 0, state |-> Ready, cuts |-> {}]
    BY <1>3, <1>5 DEF Trace
<1>7. ASSUME NEW n \in 0..L PROVE f[n + 1] = Advance(u, n, f[n])
    <2>1. CASE n = L
        BY <1>3, <1>5, <2>1
    <2>2. CASE n # L
        <3>1. n \in 0..(L - 1) /\ n + 1 \in 0..L /\ n + 1 \in 1..L
            BY <1>3, <2>2
        <3>2. h[n + 1] = Advance(t, n, h[n]) /\ h[n].start \in 0..n
            BY <1>2, <1>7, <3>1 DEF Trace
        <3>3. SubSeq(u, h[n].start + 1, n + 1) = SubSeq(t, h[n].start + 1, n + 1)
            <4>1. h[n].start + 1 \in 1..(n + 1) /\ n + 1 <= L
                BY <3>1, <3>2
            <4>2. PICK s : s = h[n].start + 1
                OBVIOUS
            <4>3. s \in 1..(n + 1)
                BY <4>1, <4>2
            <4>4. /\ SubSeq(u, s, n + 1) \in Seq(Symbols) /\ Len(SubSeq(u, s, n + 1)) = (n + 1) - s + 1
                  /\ \A i \in 1..((n + 1) - s + 1) : SubSeq(u, s, n + 1)[i] = u[s + i - 1]
                BY <1>3, <3>1, <4>3, SubSeqProperties
            <4>5. /\ SubSeq(t, s, n + 1) \in Seq(Symbols) /\ Len(SubSeq(t, s, n + 1)) = (n + 1) - s + 1
                  /\ \A i \in 1..((n + 1) - s + 1) : SubSeq(t, s, n + 1)[i] = t[s + i - 1]
                BY <1>2, <3>1, <4>3, SubSeqProperties
            <4>6. \A i \in 1..((n + 1) - s + 1) : s + i - 1 \in 1..L
                BY <1>3, <3>1, <4>3
            <4>7. \A i \in 1..((n + 1) - s + 1) : SubSeq(u, s, n + 1)[i] = SubSeq(t, s, n + 1)[i]
                BY <1>3, <4>4, <4>5, <4>6
            <4>8. SubSeq(u, s, n + 1) = SubSeq(t, s, n + 1)
                BY <4>4, <4>5, <4>7, SeqEqual
            <4> QED BY <4>2, <4>8
        <3>4. u[n + 1] = t[n + 1]
            BY <1>3, <3>1
        <3>5. Advance(u, n, h[n]) = Advance(t, n, h[n])
            BY <3>3, <3>4, Zenon DEF Advance
        <3> QED BY <1>5, <1>7, <3>1, <3>2, <3>5
    <2> QED BY <2>1, <2>2
<1>8. ASSUME NEW n \in 0..(L + 1) PROVE f[n].start \in 0..n
    <2>1. CASE n \in 0..L
        BY <1>2, <1>5, <2>1 DEF Trace
    <2>2. CASE n = L + 1
        <3>1. h[L].start \in 0..L
            BY <1>2, <1>3 DEF Trace
        <3>2. h[L].start \in 0..(L + 1) /\ L + 1 \in 0..(L + 1)
            BY <1>3, <3>1
        <3>3. Advance(u, L, h[L]).start \in {h[L].start, L + 1}
            BY DEF Advance
        <3> QED BY <1>5, <2>2, <3>2, <3>3
    <2> QED BY <1>3, <2>1, <2>2
<1>9. Trace(u, f)
    <2>1. (L + 1) - 1 = L
        BY <1>3
    <2> QED BY <1>3, <1>6, <1>7, <1>8, <2>1 DEF Trace
<1> QED BY <1>1, <1>2, <1>5, <1>9

-----------------------------------------------------------------------------
(* The theorem *)

\* The trace is there in the beginning.
LEMMA TraceInit ==
    ASSUME Init
    PROVE  TraceInv
<1>1. text = <<>> /\ start = 0 /\ state = Ready /\ cuts = {}
    BY DEF Init
<1>2. PICK h : h = [n \in {0} |-> [start |-> 0, state |-> Ready, cuts |-> {}]]
    OBVIOUS
<1>3. h[0] = [start |-> 0, state |-> Ready, cuts |-> {}]
    BY <1>2
<1>4. Len(text) = 0 /\ text \in Seq(Symbols)
    BY <1>1
<1>5. \A n \in 0..Len(text) : h[n].start \in 0..n
    BY <1>3, <1>4
<1>6. \A n \in 0..(Len(text) - 1) : FALSE
    BY <1>4
<1>7. Trace(text, h)
    BY <1>3, <1>5, <1>6 DEF Trace
<1> QED BY <1>1, <1>3, <1>4, <1>7 DEF TraceInv

\* Scan adds to it what it does.
LEMMA TraceScan ==
    ASSUME TraceInv, NEW r \in Symbols, Scan(r)
    PROVE  TraceInv'
<1>1. text \in Seq(Symbols) /\ text' = Append(text, r) /\ Len(text) \in Nat
    BY DEF TraceInv, Scan
<1>2. text' \in Seq(Symbols) /\ Len(text') = Len(text) + 1 /\ text'[Len(text) + 1] = r
    BY <1>1, AppendProperties
<1>3. PICK h : Trace(text, h) /\ h[Len(text)] = [start |-> start, state |-> state, cuts |-> cuts]
    BY DEF TraceInv
<1>4. PICK f : Trace(text', f) /\ f[Len(text) + 1] = Advance(text', Len(text), h[Len(text)])
    BY <1>1, <1>3, TraceGrows
<1>5. start \in 0..Len(text)
    <2>1. h[Len(text)].start = start
        BY <1>3
    <2>2. Len(text) \in 0..Len(text)
        BY <1>1
    <2> QED BY <1>3, <2>1, <2>2 DEF Trace
<1>6. SubSeq(text, start + 1, Len(text)) \o <<r>> = SubSeq(text', start + 1, Len(text) + 1)
    <2>1. PICK s : s = start + 1
        OBVIOUS
    <2>2. PICK L : L = Len(text)
        OBVIOUS
    <2>3. L \in Nat /\ s \in 1..(L + 1) /\ \A k \in 1..L : text'[k] = text[k]
        BY <1>1, <1>5, <2>1, <2>2, AppendProperties
    <2>4. PICK x : x = SubSeq(text, s, L)
        OBVIOUS
    <2>5. x \in Seq(Symbols) /\ Len(x) = L - s + 1 /\ \A i \in 1..(L - s + 1) : x[i] = text[s + i - 1]
        <3>1. \A k \in s..L : text[k] \in Symbols
            BY <1>1, <2>2, <2>3
        <3>2. ~(s <= L) => L - s + 1 = 0
            BY <2>3
        <3> QED BY <2>3, <2>4, <3>1, <3>2, SubSeqProperties
    <2>6. PICK y : y = SubSeq(text', s, L + 1)
        OBVIOUS
    <2>7. y \in Seq(Symbols) /\ Len(y) = (L + 1) - s + 1 /\ \A i \in 1..((L + 1) - s + 1) : y[i] = text'[s + i - 1]
        BY <1>2, <2>2, <2>3, <2>6, SubSeqProperties
    <2>8. /\ x \o <<r>> \in Seq(Symbols) /\ Len(x \o <<r>>) = (L + 1) - s + 1
          /\ \A i \in 1..((L + 1) - s + 1) : (x \o <<r>>)[i] = IF i <= L - s + 1 THEN x[i] ELSE r
        <3>1. <<r>> \in Seq(Symbols) /\ Len(<<r>>) = 1 /\ <<r>>[1] = r
            OBVIOUS
        <3>2. L - s + 1 \in Nat /\ \A i \in 1..((L + 1) - s + 1) : i <= L - s + 1 \/ i - (L - s + 1) = 1
            BY <2>3
        <3> QED BY <2>3, <2>5, <3>1, <3>2, ConcatProperties
    <2>9. \A i \in 1..((L + 1) - s + 1) : (x \o <<r>>)[i] = y[i]
        <3>1. SUFFICES ASSUME NEW i \in 1..((L + 1) - s + 1) PROVE (x \o <<r>>)[i] = y[i]
            OBVIOUS
        <3>2. CASE i <= L - s + 1
            <4>1. i \in 1..(L - s + 1) /\ s + i - 1 \in 1..L
                BY <2>3, <3>1, <3>2
            <4> QED BY <2>3, <2>5, <2>7, <2>8, <3>1, <3>2, <4>1
        <3>3. CASE ~(i <= L - s + 1)
            <4>1. s + i - 1 = L + 1
                BY <2>3, <3>1, <3>3
            <4> QED BY <1>2, <2>2, <2>7, <2>8, <3>1, <3>3, <4>1
        <3> QED BY <3>2, <3>3
    <2>10. x \o <<r>> = y
        BY <2>7, <2>8, <2>9, SeqEqual
    <2> QED BY <2>1, <2>2, <2>4, <2>6, <2>10
<1>7. Advance(text', Len(text), h[Len(text)]) = [start |-> start', state |-> state', cuts |-> cuts']
    <2>1. PICK data : data = SubSeq(text, start + 1, Len(text)) \o <<r>>
        OBVIOUS
    <2>2. PICK next : next = AfterState(state, r, data)
        OBVIOUS
    <2>3. IF next = Emit
          THEN /\ cuts' = cuts \union {Len(text')} /\ start' = Len(text') /\ state' = Ready
          ELSE state' = next /\ UNCHANGED <<start, cuts>>
        BY <2>1, <2>2, Zenon DEF Scan, AfterState
    <2>4. /\ h[Len(text)].start = start /\ h[Len(text)].state = state /\ h[Len(text)].cuts = cuts
        BY <1>3
    <2>5. AfterState(h[Len(text)].state, text'[Len(text) + 1],
                     SubSeq(text', h[Len(text)].start + 1, Len(text) + 1)) = next
        BY <1>2, <1>6, <2>1, <2>2, <2>4
    <2>6. Advance(text', Len(text), h[Len(text)])
            = IF next = Emit THEN [start |-> Len(text) + 1, state |-> Ready, cuts |-> cuts \union {Len(text) + 1}]
              ELSE [start |-> start, state |-> next, cuts |-> cuts]
        BY <2>4, <2>5, Zenon DEF Advance
    <2> QED BY <1>2, <2>3, <2>6
<1>8. f[Len(text')] = [start |-> start', state |-> state', cuts |-> cuts']
    BY <1>2, <1>4, <1>7
<1> QED BY <1>2, <1>4, <1>8 DEF TraceInv

\* What the trace says of the cuts.
LEMMA TraceSays ==
    ASSUME TraceInv
    PROVE  Misread(text) \/ Nested(text) \/ cuts = StatementEnds(text)
<1>1. SUFFICES ASSUME ~Misread(text), ~Nested(text) PROVE cuts = StatementEnds(text)
    OBVIOUS
<1>2. PICK h : Trace(text, h) /\ h[Len(text)] = [start |-> start, state |-> state, cuts |-> cuts]
    BY DEF TraceInv
<1>3. text \in Seq(Symbols)
    BY DEF TraceInv
<1>4. h[Len(text)].cuts = StatementEnds(text)
    BY <1>1, <1>2, <1>3, TraceCuts
<1> QED BY <1>2, <1>4

\* The invariant: the symbols are those of an alphabet, and TraceInv.
SqlInv == alphabet \in Alphabets /\ TraceInv

\* It holds at first.
LEMMA SqlInvInit == ASSUME Init PROVE SqlInv
BY TraceInit DEF SqlInv, Init

\* Every symbol keeps it.
LEMMA SqlInvNext == ASSUME Assumptions, SqlInv, [Next]_vars PROVE SqlInv'
<1>1. CASE UNCHANGED vars
    <2>1. UNCHANGED <<alphabet, text, start, state, cuts>>
        BY <1>1 DEF vars
    <2> QED BY <2>1 DEF SqlInv, TraceInv, Trace
<1>2. CASE Next
    <2>1. PICK r \in alphabet : Scan(r)
        BY <1>2 DEF Next
    <2>2. r \in Symbols
        BY DEF Assumptions, SqlInv
    <2>3. alphabet' = alphabet
        BY <2>1 DEF Scan
    <2> QED BY <2>1, <2>2, <2>3, TraceScan DEF SqlInv
<1> QED BY <1>1, <1>2

\* Of every script, of any length and over any of the symbols: it is cut exactly
\* where its statements end, however comments, quotes, dollar quotes, groups and
\* function bodies stand in each other, apart from what Misread and Nested name
\* (tokenizer.ScanToken, AtomicState.Next).
THEOREM CutsAtEndsAlways == ASSUME Assumptions PROVE Spec => []CutsAtEnds
<1>1. SqlInv => CutsAtEnds
    BY TraceSays DEF SqlInv, CutsAtEnds
<1> QED BY <1>1, SqlInvInit, SqlInvNext, PTL DEF Spec
=============================================================================
