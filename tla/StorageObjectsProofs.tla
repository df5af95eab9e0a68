------------------------- MODULE StorageObjectsProofs -------------------------
(***************************************************************************)
(* What is proved of storage rm, mv and cp, as MCDeployments runs them,    *)
(* for every set of names, every tree of objects and every size of a page. *)
(* ObjInv is the inductive invariant that says what must not be lost, and  *)
(* AllDone the one that says what is still to be done: an object that was  *)
(* not removed, moved or copied yet waits on the stack of directories,     *)
(* among the entries that were listed, or on a page that was not read.     *)
(* DeploymentsProofs takes both for its theorems about all commands.       *)
(***************************************************************************)
EXTENDS MCDeployments, FiniteSetTheorems, SequenceTheorems, TLAPS

-----------------------------------------------------------------------------
(* storage rm, mv and cp *)

\* What a command may delete or move: for rm the objects given and, with -r,
\* what is below; for mv the object given and what is below.
Covered(o) ==
    /\ args.kind = "rm" =>
          \E p \in Objects!Given : p = o \/ (args.recursive /\ Objects!Below(p, o))
    /\ args.kind = "mv" => o = args.from \/ Objects!Below(args.from, o)
Reach == {o \in Seq(Objects!NameSet) : Covered(o)}
ReachedEntries == [path : Reach, isDir : BOOLEAN]

ArgsOK ==
    /\ args.kind \in {"rm", "mv", "get"}
    /\ args.kind = "rm" => args.paths \in Seq(Seq(Objects!NameSet))
    /\ args.kind = "mv" => args.from \in Seq(Objects!NameSet)

\* The walk of rm and mv stays below what they were given; rm walks with -r.
WalkOK ==
    args.kind \in {"rm", "mv"} =>
       /\ prefixes \in Seq(Reach) /\ dirs \in Seq(Reach) /\ entries \in Seq(ReachedEntries)
       /\ page \in Nat
       /\ step \in {"list", "act"} => dir \in Reach
       /\ args.kind = "rm" /\ step \notin {"begin", "first"} => args.recursive

ContentOK ==
    /\ \A o \in DOMAIN objects : objects[o] \in Initial \union {None}
    /\ touched \subseteq Initial \union {None}
    /\ others \in 0..Others

StepsOK ==
    /\ step \in {"begin", "first", "next", "pop", "list", "act", "bucket", "collect"}
    /\ reply \in {"none", "ok", "error", "declined"}
    /\ gone => DOMAIN objects = {}

\* Jobs are those of a download with -r, and the user's file is there without.
DownloadOK ==
    /\ IsFiniteSet(jobs) /\ Cardinality(jobs) <= MaxJobs
    /\ jobs # {} \/ (args.kind = "get" /\ step # "begin") => args.kind = "get" /\ args.recursive
    /\ mine => args.kind = "get" /\ ~args.recursive /\ local = Objects!OneFile(Objects!Mine)

\* Nothing is lost.
Unharmed == \A o \in Objects!Untouched : Objects!InPlace(o)
KeptOK ==
    /\ args.kind = "rm" =>
          /\ \A o \in Objects!Untouched : Objects!InPlace(o) \/ Covered(o)
          /\ reply = "declined" \/ (step \in {"begin", "first"} /\ reply = "none") => Unharmed
    /\ args.kind = "mv" =>
          \A o \in Objects!Untouched :
              IF Covered(o) THEN \E t \in DOMAIN objects : objects[t] = o ELSE Objects!InPlace(o)
    /\ args.kind = "get" => Unharmed

ObjInv == ArgsOK /\ WalkOK /\ ContentOK /\ StepsOK /\ DownloadOK /\ KeptOK

-----------------------------------------------------------------------------

\* What is in a directory that is covered is covered.
LEMMA BelowAppend ==
    ASSUME NEW S, NEW p \in Seq(S), NEW d \in Seq(S), NEW x \in S,
           p = d \/ Objects!Below(p, d)
    PROVE  Append(d, x) \in Seq(S) /\ Objects!Below(p, Append(d, x))
<1>1. /\ Append(d, x) \in Seq(S) /\ Len(Append(d, x)) = Len(d) + 1
      /\ \A n \in 1..Len(d) : Append(d, x)[n] = d[n]
    BY AppendProperties
<1>2. Len(p) \in Nat /\ Len(d) \in Nat /\ Len(p) <= Len(d)
    BY DEF Objects!Below
<1>3. SubSeq(d, 1, Len(p)) = p
    BY SubSeqFull DEF Objects!Below
<1>4. SubSeq(Append(d, x), 1, Len(p)) = SubSeq(d, 1, Len(p))
    <2>1. /\ \A n \in 1..Len(p) : Append(d, x)[n] \in S /\ d[n] \in S
          /\ \A n \in 1..Len(p) : Append(d, x)[n] = d[n]
        BY <1>1, <1>2
    <2> DEFINE a == SubSeq(Append(d, x), 1, Len(p))
               b == SubSeq(d, 1, Len(p))
    <2>2. /\ a \in Seq(S) /\ Len(a) = Len(p) /\ b \in Seq(S) /\ Len(b) = Len(p)
          /\ \A n \in 1..Len(p) : a[n] = Append(d, x)[n] /\ b[n] = d[n]
        BY <1>2, <2>1, SubSeqProperties
    <2> QED BY <2>1, <2>2, SeqEqual
<1> QED BY <1>1, <1>2, <1>3, <1>4 DEF Objects!Below

\* An order of a set is a function onto it.
LEMMA OrderIsIn ==
    ASSUME NEW T, IsFiniteSet(T), NEW q \in Objects!InOrder(T)
    PROVE  Cardinality(T) \in Nat /\ q \in [1..Cardinality(T) -> T]
<1>1. Objects!Cardinality(T) = Cardinality(T)
    BY DEF Objects!Cardinality, Cardinality, Objects!IsFiniteSet, IsFiniteSet
<1> QED BY <1>1, FS_CardinalityType DEF Objects!InOrder

\* An entry of a listing is a path below the directory.
LEMMA EntryIsBelow ==
    ASSUME Objects!Assumptions, NEW k \in 1..2 * Len(Names)
    PROVE  \E x \in Objects!NameSet, b \in BOOLEAN :
              Objects!Entry(k) = [path |-> Append(dir, x), isDir |-> b]
<1>1. Len(Names) \in Nat /\ DOMAIN Names = 1..Len(Names)
    BY DEF Objects!Assumptions
<1>2. PICK j \in DOMAIN Names : (k + 1) \div 2 = j
    BY <1>1
<1>3. PICK x \in Objects!NameSet : x = Names[(k + 1) \div 2]
    BY <1>2 DEF Objects!NameSet
<1>4. PICK b \in BOOLEAN : b = (k % 2 = 0)
    BY Zenon
<1> QED BY <1>3, <1>4, Zenon DEF Objects!Entry

\* The entries of a listing are finitely many.
LEMMA EntriesAreFinite ==
    ASSUME Objects!Assumptions, NEW T, T \subseteq 1..2 * Len(Names)
    PROVE  IsFiniteSet(T)
<1>1. 2 * Len(Names) \in Nat
    BY DEF Objects!Assumptions
<1>2. IsFiniteSet(1..2 * Len(Names))
    BY <1>1, FS_Interval
<1> QED BY <1>2, FS_Subset

\* What is in a directory that is covered is covered.
LEMMA CoveredAppend ==
    ASSUME ArgsOK, args.kind \in {"rm", "mv"}, args.kind = "rm" => args.recursive,
           NEW d \in Reach, NEW x \in Objects!NameSet
    PROVE  Append(d, x) \in Reach
<1>1. d \in Seq(Objects!NameSet) /\ Covered(d)
    BY DEF Reach
<1>2. Append(d, x) \in Seq(Objects!NameSet)
    BY <1>1, AppendProperties
<1>3. CASE args.kind = "rm"
    <2>1. PICK p \in Objects!Given : p = d \/ Objects!Below(p, d)
        BY <1>1, <1>3 DEF Covered
    <2>2. p \in Seq(Objects!NameSet)
        BY <1>3 DEF ArgsOK, Objects!Given
    <2>3. Objects!Below(p, Append(d, x))
        BY <1>1, <2>1, <2>2, BelowAppend
    <2> QED BY <1>2, <1>3, <2>1, <2>3 DEF Reach, Covered
<1>4. CASE args.kind = "mv"
    <2>1. Objects!Below(args.from, Append(d, x))
        BY <1>1, <1>4, BelowAppend DEF Covered, ArgsOK
    <2> QED BY <1>2, <1>4, <2>1 DEF Reach, Covered
<1> QED BY <1>3, <1>4

\* A page of a directory that is covered names what is covered.
LEMMA PageInReach ==
    ASSUME Objects!Assumptions, ArgsOK, args.kind \in {"rm", "mv"}, dir \in Reach, page \in Nat,
           args.kind = "rm" => args.recursive,
           NEW T, T \subseteq 1..2 * Len(Names), NEW q \in Objects!InOrder(T)
    PROVE  Objects!Page(q) \in Seq(ReachedEntries)
<1> DEFINE c == Cardinality(T)
<1>1. IsFiniteSet(T)
    BY EntriesAreFinite
<1>2. c \in Nat /\ q \in [1..c -> T]
    BY <1>1, OrderIsIn
<1>3. Objects!Cardinality(DOMAIN q) = c
    <2>1. Objects!Cardinality(DOMAIN q) = Cardinality(DOMAIN q)
        BY DEF Objects!Cardinality, Cardinality, Objects!IsFiniteSet, IsFiniteSet
    <2>2. DOMAIN q = 1..c
        BY <1>2
    <2>3. Cardinality(1..c) = c
        BY <1>2, FS_Interval
    <2> QED BY <2>1, <2>2, <2>3
<1>4. ASSUME NEW k \in T PROVE Objects!Entry(k) \in ReachedEntries
    <2>1. PICK x \in Objects!NameSet, b \in BOOLEAN :
                Objects!Entry(k) = [path |-> Append(dir, x), isDir |-> b]
        BY EntryIsBelow
    <2>2. Append(dir, x) \in Reach
        BY CoveredAppend
    <2>3. [path |-> Append(dir, x), isDir |-> b] \in ReachedEntries
        BY <2>2, Zenon DEF ReachedEntries
    <2> QED BY <2>1, <2>3, Zenon
<1>5. PICK z \in Nat : z = PageLimit * page
    BY DEF Objects!Assumptions
<1>6. PICK m \in Int : /\ m <= c - z
                       /\ Objects!Page(q) = [n \in 1..m |-> Objects!Entry(q[z + n])]
    <2>1. \E m \in Int : m <= c - z /\ m = IF c - z < PageLimit THEN c - z ELSE PageLimit
        BY <1>2, <1>5 DEF Objects!Assumptions
    <2> QED BY <1>3, <1>5, <2>1 DEF Objects!Page
<1>9. \A n \in 1..m : Objects!Entry(q[z + n]) \in ReachedEntries
    <2>1. ASSUME NEW n \in 1..m PROVE z + n \in 1..c
        BY <1>2, <1>5, <1>6
    <2> HIDE DEF c
    <2> QED BY <1>2, <1>4, <2>1
<1>7. PICK n \in Nat : 1..m = 1..n
    <2>1. CASE m < 0
        BY <2>1
    <2>2. CASE m >= 0
        BY <2>2
    <2> QED BY <2>1, <2>2
<1>8. Objects!Page(q) \in [1..n -> ReachedEntries]
    BY <1>6, <1>7, <1>9
<1> QED BY <1>8

\* What a command reaches depends on its arguments only.
LEMMA SameReach == ASSUME args' = args PROVE Reach' = Reach /\ ReachedEntries' = ReachedEntries
BY DEF Reach, ReachedEntries, Covered, Objects!Given, Objects!Below

\* A sequence of one.
LEMMA OneIsSeq == ASSUME NEW S, NEW x \in S PROVE <<x>> \in Seq(S)
OBVIOUS
\* A sequence of two.
LEMMA TwoAreSeq == ASSUME NEW S, NEW x \in S, NEW y \in S PROVE <<x, y>> \in Seq(S)
OBVIOUS

\* What goes through a sequence in order is made of its elements.
LEMMA OrderOfSeq ==
    ASSUME NEW S, NEW s \in Seq(S), NEW T, T \subseteq DOMAIN s, NEW q \in Objects!InOrder(T)
    PROVE  DOMAIN q = 1..Len(q) /\ Len(q) \in Nat /\ \A n \in DOMAIN q : q[n] \in T /\ s[q[n]] \in S
<1>1. IsFiniteSet(T)
    <2>1. DOMAIN s = 1..Len(s) /\ Len(s) \in Nat
        OBVIOUS
    <2>2. IsFiniteSet(1..Len(s))
        BY <2>1, FS_Interval
    <2> QED BY <2>1, <2>2, FS_Subset
<1>2. Cardinality(T) \in Nat /\ q \in [1..Cardinality(T) -> T]
    BY <1>1, OrderIsIn
<1>3. q \in Seq(T)
    BY <1>2
<1>4. ASSUME NEW n \in DOMAIN q PROVE q[n] \in T /\ s[q[n]] \in S
    BY <1>2, <1>4
<1> QED BY <1>3, <1>4

\* The steps of rm and mv that begin the walk.
LEMMA WalkBegins ==
    ASSUME ArgsOK, WalkOK,
           \/ Objects!BeginRemove \/ Objects!RemoveNamed \/ Objects!NextPrefix \/ Objects!MoveNamed
    PROVE  WalkOK'
<1>0. args' = args /\ args.kind \in {"rm", "mv"}
    BY DEF Objects!BeginRemove, Objects!RemoveNamed, Objects!NextPrefix, Objects!MoveNamed,
         Objects!At, Objects!fixed
<1>1. Reach' = Reach /\ ReachedEntries' = ReachedEntries
    BY <1>0, SameReach
<1>2. CASE Objects!BeginRemove
    BY <1>0, <1>1, <1>2 DEF Objects!BeginRemove, Objects!At, Objects!Stop, Objects!Goto,
         Objects!walk, WalkOK
<1>3. CASE Objects!RemoveNamed
    <2>1. /\ UNCHANGED <<dirs, dir, entries, page>> /\ args.kind = "rm" /\ step = "first"
          /\ step' \in {"first", "next"} /\ (step' = "next" => args.recursive)
        BY <1>3 DEF Objects!RemoveNamed, Objects!At, Objects!Stop, Objects!Goto
    <2>2. prefixes' \in Seq(Reach)
        <3>1. CASE prefixes' = prefixes
            BY <1>0, <3>1 DEF WalkOK
        <3>2. ASSUME NEW T, T \subseteq DOMAIN args.paths, NEW q \in Objects!InOrder(T),
                     prefixes' = [n \in DOMAIN q |-> args.paths[q[n]]]
              PROVE  prefixes' \in Seq(Reach)
            <4>1. args.paths \in Seq(Seq(Objects!NameSet))
                BY <2>1 DEF ArgsOK
            <4>2. \A n \in DOMAIN q : q[n] \in DOMAIN args.paths
                BY <3>2, <4>1, OrderOfSeq
            <4>3. \A n \in DOMAIN q : args.paths[q[n]] \in Reach
                <5>1. \A p \in Objects!Given : p \in Seq(Objects!NameSet)
                    BY <4>1 DEF Objects!Given
                <5>2. \A p \in Objects!Given : Covered(p)
                    BY <2>1 DEF Covered
                <5>3. \A n \in DOMAIN q : args.paths[q[n]] \in Objects!Given
                    BY <4>2 DEF Objects!Given
                <5> QED BY <5>1, <5>2, <5>3 DEF Reach
            <4>4. DOMAIN q = 1..Len(q) /\ Len(q) \in Nat
                BY <3>2, <4>1, OrderOfSeq
            <4> QED BY <3>2, <4>3, <4>4
        <3>3. \/ prefixes' = prefixes
              \/ \E q \in Objects!InOrder({n \in DOMAIN args.paths :
                                              args.paths[n] \notin DOMAIN objects}) :
                    prefixes' = [n \in DOMAIN q |-> args.paths[q[n]]]
            BY <1>3 DEF Objects!RemoveNamed
        <3> QED BY <3>1, <3>2, <3>3
    <2> QED BY <1>0, <1>1, <2>1, <2>2 DEF WalkOK
<1>4. CASE Objects!NextPrefix
    <2>1. /\ UNCHANGED <<dir, entries, page>> /\ args.kind = "rm" /\ step = "next"
          /\ step' \in {"next", "pop"}
        BY <1>4 DEF Objects!NextPrefix, Objects!At, Objects!Stop, Objects!Goto
    <2>2. \/ prefixes' = prefixes /\ dirs' = dirs
          \/ prefixes # <<>> /\ prefixes' = Tail(prefixes) /\ dirs' = <<Head(prefixes)>>
        BY <1>4 DEF Objects!NextPrefix
    <2>4. prefixes \in Seq(Reach) /\ dirs \in Seq(Reach)
        BY <1>0 DEF WalkOK
    <2>5. prefixes # <<>> => Head(prefixes) \in Reach /\ Tail(prefixes) \in Seq(Reach)
        BY <2>4, HeadTailProperties
    <2>6. prefixes # <<>> => <<Head(prefixes)>> \in Seq(Reach)
        BY <2>5, OneIsSeq
    <2>3. prefixes' \in Seq(Reach) /\ dirs' \in Seq(Reach)
        BY <2>2, <2>4, <2>5, <2>6, Zenon
    <2> QED BY <1>0, <1>1, <2>1, <2>3 DEF WalkOK
<1>5. CASE Objects!MoveNamed
    <2>1. /\ UNCHANGED <<prefixes, dir, entries, page>> /\ args.kind = "mv"
          /\ step' \in {"begin", "pop"}
          /\ dirs' = dirs \/ dirs' = <<args.from>>
        BY <1>5 DEF Objects!MoveNamed, Objects!At, Objects!Stop, Objects!Goto
    <2>2. args.from \in Reach
        BY <2>1 DEF Reach, Covered, ArgsOK
    <2>3. dirs' \in Seq(Reach)
        BY <1>0, <2>1, <2>2, OneIsSeq DEF WalkOK
    <2> QED BY <1>0, <1>1, <2>1, <2>3 DEF WalkOK
<1> QED BY <1>2, <1>3, <1>4, <1>5

\* The walk itself.
LEMMA WalkGoesOn ==
    ASSUME Objects!Assumptions, ArgsOK, WalkOK, args.kind \in {"rm", "mv"},
           \/ Objects!Pop \/ Objects!ListPage \/ Objects!RemoveFiles \/ Objects!DeleteBucket
           \/ Objects!EndOfPage \/ Objects!PushDir \/ Objects!MoveFile
    PROVE  WalkOK'
<1>0. args' = args
    BY DEF Objects!Pop, Objects!ListPage, Objects!RemoveFiles, Objects!DeleteBucket,
         Objects!EndOfPage, Objects!PushDir, Objects!MoveFile, Objects!fixed
<1>1. Reach' = Reach /\ ReachedEntries' = ReachedEntries
    BY <1>0, SameReach
<1>2. /\ prefixes \in Seq(Reach) /\ dirs \in Seq(Reach) /\ entries \in Seq(ReachedEntries)
      /\ page \in Nat
    BY DEF WalkOK
<1>3. CASE Objects!Pop
    <2>1. /\ prefixes' = prefixes /\ step = "pop"
          /\ step' \in {"list", "bucket", "next", "pop"}
          /\ \/ /\ step' = "list" /\ dirs # <<>> /\ dir' = Objects!Last(dirs)
                /\ dirs' = Objects!Front(dirs) /\ page' = 0 /\ entries' = <<>>
             \/ step' # "list" /\ UNCHANGED <<dirs, dir, page, entries>>
        BY <1>3 DEF Objects!Pop, Objects!At, Objects!Stop, Objects!Goto
    <2>2. dirs # <<>> => Objects!Last(dirs) \in Reach /\ Objects!Front(dirs) \in Seq(Reach)
        <3> SUFFICES ASSUME dirs # <<>>
                     PROVE  Objects!Last(dirs) \in Reach /\ Objects!Front(dirs) \in Seq(Reach)
            OBVIOUS
        <3>1. Len(dirs) \in Nat \ {0}
            BY <1>2
        <3>2. \A n \in 1..(Len(dirs) - 1) : dirs[n] \in Reach
            BY <1>2, <3>1
        <3>3. SubSeq(dirs, 1, Len(dirs) - 1) \in Seq(Reach)
            BY <3>1, <3>2, SubSeqProperties
        <3> QED BY <1>2, <3>1, <3>3 DEF Objects!Last, Objects!Front
    <2>4. <<>> \in Seq(ReachedEntries)
        BY EmptySeq
    <2>5. dirs' \in Seq(Reach)
        BY <1>2, <2>1, <2>2, Zenon
    <2>6. entries' \in Seq(ReachedEntries)
        BY <1>2, <2>1, <2>4, Zenon
    <2>3. page' \in Nat
        BY <1>2, <2>1
    <2> QED BY <1>0, <1>1, <1>2, <2>1, <2>2, <2>3, <2>5, <2>6 DEF WalkOK
<1>4. CASE Objects!ListPage
    <2>1. /\ UNCHANGED <<prefixes, dirs, dir>> /\ step = "list" /\ step' \in {"list", "act"}
          /\ \/ entries' = entries /\ page' = page
             \/ /\ page' = page + 1
                /\ \E q \in Objects!InOrder({k \in 1..2 * Len(Names) :
                                                Objects!Shown(Objects!Entry(k))}) :
                      entries' = entries \o Objects!Page(q)
        BY <1>4 DEF Objects!ListPage, Objects!At, Objects!Stop, Objects!Goto
    <2>2. dir \in Reach /\ (args.kind = "rm" => args.recursive)
        BY <2>1 DEF WalkOK
    <2>3. {k \in 1..2 * Len(Names) : Objects!Shown(Objects!Entry(k))} \subseteq 1..2 * Len(Names)
        OBVIOUS
    <2>4. entries' \in Seq(ReachedEntries)
        <3>1. ASSUME NEW T, T \subseteq 1..2 * Len(Names), NEW q \in Objects!InOrder(T)
              PROVE  entries \o Objects!Page(q) \in Seq(ReachedEntries)
            <4>1. Objects!Page(q) \in Seq(ReachedEntries)
                BY <1>2, <2>2, <3>1, PageInReach
            <4> QED BY <1>2, <4>1
        <3>2. \/ entries' = entries
              \/ \E T : /\ T \subseteq 1..2 * Len(Names)
                        /\ \E q \in Objects!InOrder(T) : entries' = entries \o Objects!Page(q)
            BY <2>1, <2>3
        <3> QED BY <1>2, <3>1, <3>2
    <2>5. page' \in Nat
        BY <1>2, <2>1
    <2> QED BY <1>0, <1>1, <1>2, <2>1, <2>2, <2>4, <2>5 DEF WalkOK
<1>5. CASE Objects!RemoveFiles
    <2>1. /\ UNCHANGED <<prefixes, dir, page>> /\ entries' = <<>> /\ step = "act"
          /\ step' \in {"list", "pop", "act"}
        BY <1>5 DEF Objects!RemoveFiles, Objects!At, Objects!Stop, Objects!Goto
    <2>2. PICK q \in Objects!InOrder(Objects!DirsListed) :
                dirs' = dirs \o [n \in DOMAIN q |-> entries[q[n]].path]
        BY <1>5 DEF Objects!RemoveFiles
    <2>3. Objects!DirsListed \subseteq DOMAIN entries
        BY DEF Objects!DirsListed
    <2>4. /\ DOMAIN q = 1..Len(q) /\ Len(q) \in Nat
          /\ \A n \in DOMAIN q : entries[q[n]] \in ReachedEntries
        BY <1>2, <2>3, OrderOfSeq
    <2>5. \A n \in DOMAIN q : entries[q[n]].path \in Reach
        BY <2>4 DEF ReachedEntries
    <2>6. [n \in DOMAIN q |-> entries[q[n]].path] \in Seq(Reach)
        BY <2>4, <2>5
    <2>7. dirs' \in Seq(Reach) /\ entries' \in Seq(ReachedEntries)
        BY <1>2, <2>1, <2>2, <2>6
    <2>8. dir \in Reach /\ (args.kind = "rm" => args.recursive)
        BY <2>1 DEF WalkOK
    <2> QED BY <1>0, <1>1, <1>2, <2>1, <2>7, <2>8 DEF WalkOK
<1>6. CASE Objects!DeleteBucket \/ Objects!EndOfPage
    <2>1. /\ UNCHANGED <<prefixes, dirs, dir, page, entries>> /\ step \in {"bucket", "act"}
          /\ step' \in {"bucket", "next", "pop"}
        BY <1>6 DEF Objects!DeleteBucket, Objects!EndOfPage, Objects!walk, Objects!At,
             Objects!Stop, Objects!Goto
    <2> QED BY <1>0, <1>1, <2>1 DEF WalkOK
<1>7. CASE Objects!PushDir \/ Objects!MoveFile
    <2>1. /\ UNCHANGED <<prefixes, dir, page>> /\ entries # <<>> /\ entries' = Tail(entries)
          /\ step = "act" /\ step' = "act"
          /\ dirs' = dirs \/ dirs' = Append(dirs, Head(entries).path)
        BY <1>7 DEF Objects!PushDir, Objects!MoveFile, Objects!At, Objects!Stop, Objects!Goto
    <2>2. Head(entries) \in ReachedEntries /\ entries' \in Seq(ReachedEntries)
        BY <1>2, <2>1
    <2>3. Head(entries).path \in Reach
        BY <2>2 DEF ReachedEntries
    <2>4. dirs' \in Seq(Reach)
        BY SMTT(60), <1>2, <2>1, <2>3, AppendProperties
    <2> QED BY <1>0, <1>1, <2>1, <2>2, <2>4 DEF WalkOK
<1> QED BY <1>3, <1>4, <1>5, <1>6, <1>7

-----------------------------------------------------------------------------

\* Before the answer to the prompt, or after a no.
Unbegun == reply = "declined" \/ (step \in {"begin", "first"} /\ reply = "none")

\* A step that changes no object, one that deletes or moves what it may, and one
\* of others.
Quiet == UNCHANGED <<objects, touched, others>> /\ (Unbegun' => Unbegun \/ args.kind # "rm")
Deletes ==
    /\ args.kind = "rm" /\ UNCHANGED <<touched, others>> /\ ~Unbegun'
    /\ \E P : /\ \A o \in P : Covered(o)
              /\ objects' = Objects!Without(P)
Moves ==
    /\ args.kind = "mv" /\ UNCHANGED <<touched, others>>
    /\ \E x, y : /\ Covered(x) /\ Objects!CanMove(x, y)
                 /\ objects' = Objects!Moved(x, y)
Interferes ==
    /\ others > 0 /\ others' = others - 1 /\ Unbegun' = Unbegun
    /\ \/ \E o \in Initial \ DOMAIN objects :
             objects' = Objects!With(objects, o, None) /\ touched' = touched \union {o}
       \/ \E o \in DOMAIN objects :
             objects' = Objects!Without({o}) /\ touched' = touched \union {objects[o]}

\* What any step does to the objects: nothing, or one of three things.
LEMMA EveryStep ==
    ASSUME ArgsOK, WalkOK, DownloadOK, Objects!Next
    PROVE  args' = args /\ (Quiet \/ Deletes \/ Moves \/ Interferes)
<1>0. args' = args
    BY DEF Objects!Next, Objects!BeginRemove, Objects!RemoveNamed, Objects!NextPrefix,
         Objects!MoveNamed, Objects!DownloadObject, Objects!BeginDownload, Objects!Pop,
         Objects!ListPage, Objects!RemoveFiles, Objects!DeleteBucket, Objects!EndOfPage,
         Objects!PushDir, Objects!MoveFile, Objects!PutDownload, Objects!JobEnds,
         Objects!Collect, Objects!Other, Objects!fixed
<1>1. CASE \/ Objects!BeginRemove \/ Objects!NextPrefix \/ Objects!Pop \/ Objects!ListPage
           \/ Objects!DeleteBucket \/ Objects!EndOfPage \/ Objects!PushDir
    <2>1. UNCHANGED <<objects, touched, others>>
        BY <1>1 DEF Objects!BeginRemove, Objects!NextPrefix, Objects!Pop, Objects!ListPage,
             Objects!DeleteBucket, Objects!EndOfPage, Objects!PushDir, Objects!world, Objects!service
    <2>2. Unbegun' => Unbegun
        BY <1>1 DEF Objects!BeginRemove, Objects!NextPrefix, Objects!Pop, Objects!ListPage,
             Objects!DeleteBucket, Objects!EndOfPage, Objects!PushDir, Unbegun, Objects!At,
             Objects!Goto, Objects!Stop, Objects!Kinds
    <2> QED BY <1>0, <2>1, <2>2 DEF Quiet
<1>2. CASE \/ Objects!DownloadObject \/ Objects!BeginDownload \/ Objects!PutDownload
           \/ Objects!JobEnds \/ Objects!Collect
    <2>1. UNCHANGED <<objects, touched, others>>
        BY <1>2 DEF Objects!DownloadObject, Objects!BeginDownload, Objects!PutDownload,
             Objects!JobEnds, Objects!Collect, Objects!world, Objects!service
    <2>2. args.kind = "get"
        BY <1>2 DEF Objects!DownloadObject, Objects!BeginDownload, Objects!PutDownload,
             Objects!JobEnds, Objects!Collect, Objects!At, DownloadOK
    <2> QED BY <1>0, <2>1, <2>2 DEF Quiet
<1>3. CASE Objects!RemoveNamed
    <2>1. /\ args.kind = "rm" /\ UNCHANGED <<touched, others>> /\ ~Unbegun'
          /\ \/ objects' = objects
             \/ objects' = Objects!Without({args.paths[n] : n \in DOMAIN args.paths})
        BY <1>3 DEF Objects!RemoveNamed, Objects!At, Objects!Goto, Objects!Stop, Unbegun
    <2>2. \A o \in {args.paths[n] : n \in DOMAIN args.paths} : Covered(o)
        BY <2>1 DEF Covered, Objects!Given
    <2> QED BY <1>0, <2>1, <2>2 DEF Quiet, Deletes
<1>4. CASE Objects!RemoveFiles
    <2>1. /\ args.kind = "rm" /\ UNCHANGED <<touched, others>> /\ ~Unbegun'
          /\ objects' = objects \/ objects' = Objects!Without(Objects!Objects)
        BY <1>4 DEF Objects!RemoveFiles, Objects!At, Objects!Goto, Objects!Stop, Unbegun
    <2>2. entries \in Seq(ReachedEntries)
        BY <2>1 DEF WalkOK
    <2>5. \A n \in DOMAIN entries : entries[n] \in ReachedEntries
        BY <2>2
    <2>3. \A n \in DOMAIN entries : entries[n].path \in Reach
        BY <2>5 DEF ReachedEntries
    <2>4. \A o \in Objects!Objects : Covered(o)
        BY <2>3 DEF Objects!Objects, Objects!Entries, Reach
    <2> QED BY <1>0, <2>1, <2>4 DEF Quiet, Deletes
<1>5. CASE Objects!MoveNamed
    <2>1. args.kind = "mv" /\ UNCHANGED <<touched, others>>
        BY <1>5 DEF Objects!MoveNamed, Objects!At
    <2>2. \/ objects' = objects
          \/ /\ Objects!CanMove(args.from, args.to)
             /\ objects' = Objects!Moved(args.from, args.to)
        BY <1>5 DEF Objects!MoveNamed
    <2>3. Covered(args.from)
        BY <2>1 DEF Covered
    <2> QED BY <1>0, <2>1, <2>2, <2>3 DEF Quiet, Moves
<1>6. CASE Objects!MoveFile
    <2>1. /\ args.kind = "mv" /\ UNCHANGED <<touched, others>> /\ entries # <<>>
          /\ \/ objects' = objects
             \/ \E y : /\ Objects!CanMove(Head(entries).path, y)
                       /\ objects' = Objects!Moved(Head(entries).path, y)
        BY <1>6 DEF Objects!MoveFile, Objects!At
    <2>2. Head(entries) \in ReachedEntries
        BY <2>1, HeadTailProperties DEF WalkOK
    <2>3. Covered(Head(entries).path)
        BY <2>2 DEF ReachedEntries, Reach
    <2> QED BY <1>0, <2>1, <2>3 DEF Quiet, Moves
<1>7. CASE Objects!Other
    BY <1>0, <1>7 DEF Objects!Other, Interferes, Unbegun
<1> QED BY <1>1, <1>2, <1>3, <1>4, <1>5, <1>6, <1>7 DEF Objects!Next

\* What the service keeps is what there was, or what others added.
LEMMA ContentStep ==
    ASSUME Objects!Assumptions, ContentOK, Quiet \/ Deletes \/ Moves \/ Interferes
    PROVE  ContentOK'
<1>1. CASE Quiet
    BY <1>1 DEF Quiet, ContentOK
<1>2. CASE Deletes
    BY <1>2 DEF Deletes, ContentOK, Objects!Without
<1>3. CASE Moves
    BY <1>3 DEF Moves, ContentOK, Objects!CanMove, Objects!Moved, Objects!Without, Objects!With
<1>4. CASE Interferes
    <2>1. others' \in 0..Others
        BY <1>4 DEF Interferes, ContentOK, Objects!Assumptions
    <2>2. /\ \A o \in DOMAIN objects' : objects'[o] \in Initial \union {None}
          /\ touched' \subseteq Initial \union {None}
        BY <1>4 DEF Interferes, ContentOK, Objects!Without, Objects!With
    <2> QED BY <2>1, <2>2 DEF ContentOK
<1> QED BY <1>1, <1>2, <1>3, <1>4

\* What nobody named, and nobody else touched, is where it was.
LEMMA KeptStep ==
    ASSUME ArgsOK, KeptOK, args' = args, start' = start, Quiet \/ Deletes \/ Moves \/ Interferes
    PROVE  KeptOK'
<1>0. \A o : Covered(o)' <=> Covered(o)
    BY DEF Covered, Objects!Given, Objects!Below
<1>1. CASE Quiet
    <2>1. /\ Objects!Untouched' = Objects!Untouched
          /\ \A o : Objects!InPlace(o)' <=> Objects!InPlace(o)
        BY <1>1 DEF Quiet, Objects!Untouched, Objects!InPlace
    <2>2. Unharmed' <=> Unharmed
        BY <2>1 DEF Unharmed
    <2>3. Unbegun' => Unbegun \/ args.kind # "rm"
        BY <1>1 DEF Quiet
    <2>4. objects' = objects
        BY <1>1 DEF Quiet
    <2> QED BY <1>0, <2>1, <2>2, <2>3, <2>4 DEF KeptOK, Unbegun
<1>2. CASE Deletes
    <2>1. /\ Objects!Untouched' = Objects!Untouched /\ args.kind = "rm" /\ ~Unbegun'
          /\ \A o : Objects!InPlace(o) => Objects!InPlace(o)' \/ Covered(o)
        BY <1>2 DEF Deletes, Objects!Untouched, Objects!InPlace, Objects!Without
    <2> QED BY <1>0, <2>1 DEF KeptOK, Unbegun
<1>3. CASE Moves
    <2>1. PICK x, y : /\ Covered(x) /\ Objects!CanMove(x, y)
                      /\ objects' = Objects!Moved(x, y)
        BY <1>3 DEF Moves
    <2>2. Objects!Untouched' = Objects!Untouched /\ args.kind = "mv"
        BY <1>3 DEF Moves, Objects!Untouched
    <2>3. /\ x \in DOMAIN objects /\ (y \in DOMAIN objects => y = x)
          /\ DOMAIN objects' = (DOMAIN objects \ {x}) \union {y}
          /\ objects'[y] = objects[x]
          /\ \A o \in DOMAIN objects : o # x => o # y /\ objects'[o] = objects[o]
        BY <2>1 DEF Objects!CanMove, Objects!Moved, Objects!Without, Objects!With
    <2>4. \A o : ~Covered(o) /\ Objects!InPlace(o) => Objects!InPlace(o)'
        BY <2>1, <2>3 DEF Objects!InPlace
    <2>5. \A o : (\E t \in DOMAIN objects : objects[t] = o) =>
                    \E t \in DOMAIN objects' : objects'[t] = o
        BY <2>3
    <2> QED BY <1>0, <2>2, <2>4, <2>5 DEF KeptOK
<1>4. CASE Interferes
    <2>1. Unbegun' = Unbegun /\ Objects!Untouched' \subseteq Objects!Untouched
        BY <1>4 DEF Interferes, Objects!Untouched
    <2>2. \A o : o \notin touched' /\ Objects!InPlace(o) => Objects!InPlace(o)'
        BY <1>4 DEF Interferes, Objects!InPlace, Objects!With, Objects!Without
    <2>3. \A o : o \notin touched' /\ (\E t \in DOMAIN objects : objects[t] = o) =>
                    \E t \in DOMAIN objects' : objects'[t] = o
        BY <1>4 DEF Interferes, Objects!With, Objects!Without
    <2>4. \A o \in Objects!Untouched' : o \notin touched'
        BY DEF Objects!Untouched
    <2>5. Unharmed => Unharmed'
        BY <2>1, <2>2, <2>4 DEF Unharmed
    <2> QED BY <1>0, <2>1, <2>2, <2>3, <2>4, <2>5 DEF KeptOK, Unbegun
<1> QED BY <1>1, <1>2, <1>3, <1>4

\* A bucket that is gone stays empty.
LEMMA StepsStep ==
    ASSUME StepsOK, Objects!Next
    PROVE  StepsOK'
<1>1. /\ step' \in {"begin", "first", "next", "pop", "list", "act", "bucket", "collect"}
      /\ reply' \in {"none", "ok", "error", "declined"}
    <2> USE DEF Objects!Goto, Objects!Stop, Objects!At, Objects!Kinds, StepsOK
    <2>1. CASE Objects!BeginRemove \/ Objects!RemoveNamed \/ Objects!NextPrefix
        BY <2>1 DEF Objects!BeginRemove, Objects!RemoveNamed, Objects!NextPrefix
    <2>2. CASE Objects!MoveNamed \/ Objects!DownloadObject \/ Objects!BeginDownload
        BY <2>2 DEF Objects!MoveNamed, Objects!DownloadObject, Objects!BeginDownload
    <2>3. CASE Objects!Pop
        BY <2>3 DEF Objects!Pop
    <2>4. CASE Objects!ListPage \/ Objects!RemoveFiles \/ Objects!DeleteBucket
        BY <2>4 DEF Objects!ListPage, Objects!RemoveFiles, Objects!DeleteBucket
    <2>5. CASE Objects!EndOfPage \/ Objects!PushDir \/ Objects!MoveFile
        BY <2>5 DEF Objects!EndOfPage, Objects!PushDir, Objects!MoveFile
    <2>6. CASE Objects!PutDownload \/ Objects!JobEnds \/ Objects!Collect \/ Objects!Other
        BY <2>6 DEF Objects!PutDownload, Objects!JobEnds, Objects!Collect, Objects!Other
    <2> QED BY <2>1, <2>2, <2>3, <2>4, <2>5, <2>6 DEF Objects!Next
<1>3. ASSUME gone' PROVE DOMAIN objects' = {}
    <2>1. CASE Objects!DeleteBucket
        BY <1>3, <2>1 DEF Objects!DeleteBucket, StepsOK
    <2>2. CASE Objects!Other
        BY <1>3, <2>2 DEF Objects!Other
    <2>3. CASE Objects!RemoveNamed \/ Objects!RemoveFiles \/ Objects!MoveNamed \/ Objects!MoveFile
        BY <1>3, <2>3 DEF StepsOK, Objects!RemoveNamed, Objects!RemoveFiles, Objects!MoveNamed,
             Objects!MoveFile, Objects!Without, Objects!CanMove
    <2>4. CASE \/ Objects!BeginRemove \/ Objects!NextPrefix \/ Objects!DownloadObject
               \/ Objects!BeginDownload \/ Objects!Pop \/ Objects!ListPage \/ Objects!EndOfPage
               \/ Objects!PushDir \/ Objects!PutDownload \/ Objects!JobEnds \/ Objects!Collect
        BY <1>3, <2>4 DEF StepsOK, Objects!BeginRemove, Objects!NextPrefix,
             Objects!DownloadObject, Objects!BeginDownload, Objects!Pop, Objects!ListPage,
             Objects!EndOfPage, Objects!PushDir, Objects!PutDownload, Objects!JobEnds,
             Objects!Collect, Objects!world, Objects!service
    <2> QED BY <2>1, <2>2, <2>3, <2>4 DEF Objects!Next
<1> QED BY <1>1, <1>3 DEF StepsOK

\* The jobs of a download.
LEMMA DownloadStep ==
    ASSUME MaxJobs \in Nat, DownloadOK, Objects!Next
    PROVE  DownloadOK'
<1>1. CASE Objects!PutDownload
    <2>1. PICK j : jobs' = jobs \union {j} /\ Objects!Cardinality(jobs) < MaxJobs
        BY <1>1 DEF Objects!PutDownload
    <2>2. Objects!Cardinality(jobs) = Cardinality(jobs)
        BY DEF Objects!Cardinality, Cardinality, Objects!IsFiniteSet, IsFiniteSet
    <2>5. IsFiniteSet(jobs) /\ Cardinality(jobs) \in Nat
        BY FS_CardinalityType DEF DownloadOK
    <2>6. /\ IsFiniteSet(jobs')
          /\ Cardinality(jobs') = Cardinality(jobs) \/ Cardinality(jobs') = Cardinality(jobs) + 1
        BY <2>1, <2>5, FS_AddElement
    <2>3. IsFiniteSet(jobs') /\ Cardinality(jobs') <= MaxJobs
        BY <2>1, <2>2, <2>5, <2>6
    <2>4. args.kind = "get" /\ step # "begin" /\ UNCHANGED <<args, local, mine>>
        BY <1>1 DEF Objects!PutDownload, Objects!At, Objects!fixed
    <2> QED BY <2>3, <2>4 DEF DownloadOK
<1>2. CASE Objects!JobEnds
    <2>1. jobs # {} /\ \E j \in jobs : jobs' = jobs \ {j}
        BY <1>2 DEF Objects!JobEnds
    <2>4. IsFiniteSet(jobs) /\ Cardinality(jobs) \in Nat /\ Cardinality(jobs) <= MaxJobs
        BY FS_CardinalityType DEF DownloadOK
    <2>5. /\ IsFiniteSet(jobs')
          /\ Cardinality(jobs') = Cardinality(jobs) \/ Cardinality(jobs') = Cardinality(jobs) - 1
        BY <2>1, <2>4, FS_RemoveElement
    <2>2. IsFiniteSet(jobs') /\ Cardinality(jobs') <= MaxJobs
        BY <2>4, <2>5
    <2>3. UNCHANGED <<args, mine, step>>
        BY <1>2 DEF Objects!JobEnds, Objects!fixed
    <2> QED BY <2>1, <2>2, <2>3 DEF DownloadOK
<1>3. CASE ~Objects!PutDownload /\ ~Objects!JobEnds
    <2>1. jobs' = jobs /\ UNCHANGED <<args, mine>>
        BY <1>3 DEF Objects!Next, Objects!BeginRemove, Objects!RemoveNamed, Objects!NextPrefix,
         Objects!MoveNamed, Objects!DownloadObject, Objects!BeginDownload, Objects!Pop,
         Objects!ListPage, Objects!RemoveFiles, Objects!DeleteBucket, Objects!EndOfPage,
         Objects!PushDir, Objects!MoveFile, Objects!Collect, Objects!Other, Objects!download,
         Objects!fixed
    <2>2. mine => local' = local
        BY <1>3 DEF Objects!Next, Objects!BeginRemove, Objects!RemoveNamed, Objects!NextPrefix,
         Objects!MoveNamed, Objects!DownloadObject, Objects!BeginDownload, Objects!Pop,
         Objects!ListPage, Objects!RemoveFiles, Objects!DeleteBucket, Objects!EndOfPage,
         Objects!PushDir, Objects!MoveFile, Objects!Collect, Objects!Other, Objects!download
    <2>3. args.kind = "get" /\ step' # "begin" => step # "begin" \/ args.recursive
        BY <1>3 DEF Objects!Next, Objects!BeginRemove, Objects!RemoveNamed, Objects!NextPrefix,
         Objects!MoveNamed, Objects!DownloadObject, Objects!BeginDownload, Objects!Pop,
         Objects!ListPage, Objects!RemoveFiles, Objects!DeleteBucket, Objects!EndOfPage,
         Objects!PushDir, Objects!MoveFile, Objects!Collect, Objects!Other, Objects!At,
         Objects!Stop, Objects!Goto
    <2>4. IsFiniteSet(jobs') /\ Cardinality(jobs') <= MaxJobs
        BY <2>1 DEF DownloadOK
    <2> QED BY <2>1, <2>2, <2>3, <2>4 DEF DownloadOK, Objects!OneFile, Objects!Mine
<1> QED BY <1>1, <1>2, <1>3

\* A command begins with all objects in place.
LEMMA ObjInvInit == ASSUME Objects!Assumptions, Objects!Init PROVE ObjInv
<1>1. args \in Objects!Commands
    BY DEF Objects!Init
<1>2. Arguments \subseteq Seq(Objects!NameSet) /\ Initial \subseteq Seq(Objects!NameSet)
    BY DEF Objects!Assumptions
<1>3. ArgsOK
    <2>1. \A p \in Arguments : <<p>> \in Seq(Seq(Objects!NameSet))
        BY <1>2, OneIsSeq
    <2>2. \A p, q \in Arguments : <<p, q>> \in Seq(Seq(Objects!NameSet))
        BY <1>2, TwoAreSeq
    <2>3. args.kind \in {"rm", "mv", "get"}
        BY <1>1 DEF Objects!Commands
    <2>4. args.kind = "rm" => \/ \E p \in Arguments : args.paths = <<p>>
                              \/ \E p, q \in Arguments : args.paths = <<p, q>>
        BY <1>1 DEF Objects!Commands
    <2>5. args.kind = "mv" => args.from \in Arguments
        BY <1>1 DEF Objects!Commands
    <2> QED BY <1>2, <2>1, <2>2, <2>3, <2>4, <2>5 DEF ArgsOK
<1>4. WalkOK
    BY EmptySeq DEF Objects!Init, WalkOK
<1>5. ContentOK
    <2>1. /\ others = Others /\ touched = {} /\ start \subseteq Initial
          /\ objects = [o \in start |-> o]
        BY DEF Objects!Init
    <2>2. others \in 0..Others
        BY <2>1 DEF Objects!Assumptions
    <2> QED BY <2>1, <2>2 DEF ContentOK
<1>6. StepsOK
    BY DEF Objects!Init, StepsOK
<1>7. DownloadOK
    <2>1. jobs = {} /\ step = "begin"
        BY DEF Objects!Init
    <2>2. IsFiniteSet(jobs) /\ Cardinality(jobs) = 0
        BY <2>1, FS_EmptySet
    <2>3. mine => args.kind = "get" /\ ~args.recursive /\ local = Objects!OneFile(Objects!Mine)
        BY DEF Objects!Init
    <2>4. MaxJobs \in Nat
        BY DEF Objects!Assumptions
    <2> QED BY <2>1, <2>2, <2>3, <2>4 DEF DownloadOK
<1>8. KeptOK
    <2>1. \A o \in Objects!Untouched : Objects!InPlace(o)
        BY DEF Objects!Init, Objects!Untouched, Objects!InPlace
    <2> QED BY <2>1 DEF KeptOK, Unharmed, Objects!InPlace
<1> QED BY <1>3, <1>4, <1>5, <1>6, <1>7, <1>8 DEF ObjInv

\* The invariant is inductive.
LEMMA ObjInvNext ==
    ASSUME Objects!Assumptions
    PROVE  ObjInv /\ [Objects!Next]_(Objects!vars) => ObjInv'
<1> SUFFICES ASSUME ObjInv, [Objects!Next]_(Objects!vars) PROVE ObjInv'
    OBVIOUS
<1>1. CASE UNCHANGED Objects!vars
    <2>1. UNCHANGED <<objects, gone, start, mine, touched, others, args, step, prefixes, prefix>>
        BY <1>1 DEF Objects!vars, Objects!world, Objects!service, Objects!fixed, Objects!walk
    <2>2. UNCHANGED <<dirs, dir, search, page, entries, full, count, jobs, broken, local, reply>>
        BY <1>1 DEF Objects!vars, Objects!walk, Objects!download
    <2>3. ArgsOK' /\ ContentOK' /\ StepsOK' /\ DownloadOK'
        BY <2>1, <2>2 DEF ObjInv, ArgsOK, ContentOK, StepsOK, DownloadOK, Objects!OneFile,
             Objects!Mine
    <2>4. WalkOK'
        BY <2>1, <2>2, SameReach DEF ObjInv, WalkOK
    <2>5. KeptOK'
        <3>1. Quiet
            BY <2>1, <2>2 DEF Quiet, Unbegun
        <3> QED BY <2>1, <3>1, KeptStep DEF ObjInv
    <2> QED BY <2>3, <2>4, <2>5 DEF ObjInv
<1>2. CASE Objects!Next
    <2>1. args' = args /\ (Quiet \/ Deletes \/ Moves \/ Interferes)
        BY SMTT(60), <1>2, EveryStep DEF ObjInv
    <2>2. start' = start
        BY <1>2 DEF Objects!Next, Objects!BeginRemove, Objects!RemoveNamed, Objects!NextPrefix,
         Objects!MoveNamed, Objects!DownloadObject, Objects!BeginDownload, Objects!Pop,
         Objects!ListPage, Objects!RemoveFiles, Objects!DeleteBucket, Objects!EndOfPage,
         Objects!PushDir, Objects!MoveFile, Objects!PutDownload, Objects!JobEnds,
         Objects!Collect, Objects!Other, Objects!fixed
    <2>3. ArgsOK'
        BY <2>1 DEF ObjInv, ArgsOK
    <2>4. ContentOK' /\ KeptOK'
        BY <2>1, <2>2, ContentStep, KeptStep DEF ObjInv
    <2>5. StepsOK' /\ DownloadOK'
        BY <1>2, StepsStep, DownloadStep DEF ObjInv, Objects!Assumptions
    <2>6. WalkOK'
        <3>1. CASE args.kind = "get"
            BY <2>1, <3>1 DEF WalkOK
        <3>2. CASE args.kind # "get"
            <4>1. args.kind \in {"rm", "mv"}
                BY <3>2 DEF ObjInv, ArgsOK
            <4>2. \/ Objects!BeginRemove \/ Objects!RemoveNamed \/ Objects!NextPrefix
                  \/ Objects!MoveNamed \/ Objects!Pop \/ Objects!ListPage \/ Objects!RemoveFiles
                  \/ Objects!DeleteBucket \/ Objects!EndOfPage \/ Objects!PushDir
                  \/ Objects!MoveFile \/ Objects!JobEnds \/ Objects!Other
                BY <1>2, <3>2 DEF Objects!Next, Objects!DownloadObject, Objects!BeginDownload,
                     Objects!PutDownload, Objects!Collect, Objects!At
            <4>3. CASE Objects!JobEnds \/ Objects!Other
                BY <2>1, <4>3, SameReach DEF Objects!JobEnds, Objects!Other, Objects!walk, ObjInv,
                     WalkOK
            <4> QED BY <4>1, <4>2, <4>3, WalkBegins, WalkGoesOn DEF ObjInv
        <3> QED BY <3>1, <3>2
    <2> QED BY <2>3, <2>4, <2>5, <2>6 DEF ObjInv
<1> QED BY <1>1, <1>2

\* What a command does not reach, it keeps.
LEMMA ObjInvSays == ObjInv => Objects!TypeOK /\ Objects!ObjectsAreKept
<1> SUFFICES ASSUME ObjInv PROVE Objects!TypeOK /\ Objects!ObjectsAreKept
    OBVIOUS
<1>1. Objects!TypeOK
    <2>1. Objects!Cardinality(jobs) = Cardinality(jobs)
        BY DEF Objects!Cardinality, Cardinality, Objects!IsFiniteSet, IsFiniteSet
    <2>2. Cardinality(jobs) <= MaxJobs
        BY DEF ObjInv, DownloadOK
    <2>3. /\ \A o \in DOMAIN objects : objects[o] \in Initial \union {None}
          /\ touched \subseteq Initial \union {None} /\ others \in 0..Others
        BY DEF ObjInv, ContentOK
    <2> QED BY <2>1, <2>2, <2>3 DEF ObjInv, StepsOK, Objects!TypeOK
<1>2. args.kind = "rm" =>
         \A o \in Objects!Untouched :
            Objects!InPlace(o) \/ (reply # "declined" /\ \E p \in Objects!Given :
                p = o \/ (args.recursive /\ Objects!Below(p, o)))
    BY DEF ObjInv, KeptOK, Unharmed, Covered
<1>3. args.kind = "mv" =>
         \A o \in Objects!Untouched :
            IF o = args.from \/ Objects!Below(args.from, o)
            THEN \E t \in DOMAIN objects : objects[t] = o
            ELSE Objects!InPlace(o)
    BY DEF ObjInv, KeptOK, Covered
<1>4. args.kind = "get" =>
         /\ \A o \in Objects!Untouched : Objects!InPlace(o)
         /\ mine => local = Objects!OneFile(Objects!Mine)
    BY DEF ObjInv, KeptOK, Unharmed, DownloadOK
<1> QED BY <1>1, <1>2, <1>3, <1>4 DEF Objects!ObjectsAreKept

-----------------------------------------------------------------------------
(* storage rm, mv and cp have done the whole directory *)

\* An entry of a listing leads to an object: it names it or a directory above.
Tells(e, o) == IF e.isDir THEN Objects!Below(e.path, o) ELSE e.path = o

\* The entries that a listing of dir shows, and that an object is behind one on
\* a page that was not read yet.
Listing == {k \in 1..2 * Len(Names) : Objects!Shown(Objects!Entry(k))}
Unread(o) ==
    \A q \in Objects!InOrder(Listing) :
       \E n \in DOMAIN q : n > PageLimit * page /\ Tells(Objects!Entry(q[n]), o)

\* The walk has still to come to an object.
Waits(o) ==
    \/ \E n \in DOMAIN dirs : Objects!Below(dirs[n], o)
    \/ \E n \in DOMAIN entries : Tells(entries[n], o)
    \/ (step = "list" \/ (step = "act" /\ full /\ args.kind = "get")) /\ Unread(o)

\* The paths that a mv or cp of a directory may come to.
Inside(p) == p = args.from \/ Objects!Below(args.from, p)
Insides == {p \in Seq(Objects!NameSet) : Inside(p)}
Belows == {p \in Seq(Objects!NameSet) : Objects!Below(args.from, p)}

\* Nobody else changed the bucket, and the command did not fail.
Alone == touched = {} /\ reply \in {"none", "ok"}
Begun == step \notin {"begin", "first"} \/ reply = "ok"

BetweenOK ==
    /\ step \in {"begin", "first", "next", "pop", "bucket"} => entries = <<>>
    /\ step = "begin" => page = 0 /\ jobs = {} /\ search = None /\ dirs = <<>>
    /\ page \in Nat /\ start \subseteq Initial
    /\ step \in {"begin", "first"} /\ reply = "none" /\ touched = {} => objects = [o \in start |-> o]
    /\ args.kind = "mv" => args.to \in Seq(Objects!NameSet)
    /\ args.kind = "get" =>
          args.from \in Seq(Objects!NameSet) /\ (args.from = <<>> => args.slash)

\* rm: what was given and what is below it is gone, or the walk is still to come
\* to it: to the given path, which still waits, or to the object.
Cleared(p) == (\A o \in DOMAIN objects : ~Objects!Below(p, o)) /\ (p = <<>> => gone)
InWork(p) ==
    /\ prefix = p /\ step \in {"pop", "list", "act", "bucket"}
    /\ \A o \in DOMAIN objects : Objects!Below(p, o) => step # "bucket" /\ Waits(o)
RemoveAll ==
    args.kind = "rm" /\ Alone =>
       /\ DOMAIN objects \subseteq start
       /\ Begun => \A p \in Objects!Given : p \notin DOMAIN objects
       /\ Begun /\ args.recursive =>
             \A p \in Objects!Given \ start :
                \/ Cleared(p)
                \/ reply = "none" /\ InWork(p)
                \/ reply = "none" /\ \E n \in DOMAIN prefixes : prefixes[n] = p
RemoveAsks ==
    args.kind = "rm" =>
       /\ step # "begin" /\ <<>> \in Objects!Given => args.recursive
       /\ reply = "ok" => step # "begin"

\* mv: an object below the source is where it belongs, or in its place and waits.
Arrived(o) == Objects!Target(o) \in DOMAIN objects /\ objects[Objects!Target(o)] = o
MoveAll ==
    args.kind = "mv" /\ Alone /\ Objects!Apart =>
       /\ step = "begin" /\ reply = "ok" => args.from \in start /\ Arrived(args.from)
       /\ step # "begin" =>
             /\ args.from \notin start
             /\ dirs \in Seq(Insides) /\ entries \in Seq([path : Belows, isDir : BOOLEAN])
             /\ step \in {"list", "act"} => dir \in Insides
             /\ \A t \in DOMAIN objects : Objects!Below(args.from, t) => objects[t] = t /\ t \in start
             /\ \A o \in start : Objects!Below(args.from, o) =>
                   Arrived(o) \/ (reply = "none" /\ Objects!InPlace(o) /\ Waits(o))

\* cp -r: an object below the source is copied, in a job, or waits.
Copied(o) ==
    LET t == Objects!Rest(args.from, o) IN t \in DOMAIN local /\ local[t] = o
ListsInside ==
    \/ search = None /\ dir \in Insides
    \/ /\ search \in Objects!NameSet /\ dir \in Seq(Objects!NameSet) /\ ~args.slash
       /\ args.from = Append(dir, search)
CopyAll ==
    args.kind = "get" /\ args.recursive /\ Objects!OneName /\ Alone /\ ~broken =>
       /\ objects = [o \in start |-> o]
       /\ \A j \in jobs : j.from \in Insides /\ j.to = Objects!Rest(args.from, j.from)
       /\ step # "begin" =>
             /\ dirs \in Seq(Insides) /\ entries \in Seq([path : Insides, isDir : BOOLEAN])
             /\ step \in {"list", "act"} => ListsInside
             /\ \A o \in start : Objects!Below(args.from, o) =>
                   \/ Copied(o)
                   \/ \E j \in jobs : j.from = o
                   \/ step \in {"pop", "list", "act"} /\ Waits(o)
CopyEnds ==
    args.kind = "get" /\ args.recursive /\ reply = "ok" =>
       step = "collect" /\ jobs = {} /\ ~broken

AllDone == BetweenOK /\ RemoveAsks /\ RemoveAll /\ MoveAll /\ CopyAll /\ CopyEnds

-----------------------------------------------------------------------------

\* A set of numbers has a least one.
LEMMA LeastOne ==
    ASSUME NEW T \in SUBSET Nat, T # {}
    PROVE  \E n \in T : \A m \in T : n <= m
<1>1. PICK R : R = OpToRel(<, Nat)
    OBVIOUS
<1>2. IsWellFoundedOn(R, Nat)
    BY <1>1, NatLessThanWellFounded
<1>3. R = {x \in Nat \X Nat : x[1] < x[2]}
    BY <1>1 DEF OpToRel
<1>4. PICK n \in T : \A m \in T : ~(<<m, n>> \in R)
    BY <1>2, WFMin
<1>5. \A m \in T : ~(m < n)
    BY <1>3, <1>4
<1> QED BY <1>5

\* The way through a set of numbers in order comes to each of them.
IsWay(q, T, c) ==
    /\ c \in Nat /\ q \in [1..c -> T] /\ DOMAIN q = 1..c
    /\ \A n \in 1..c : q[n] \in T /\ q[n] \in Nat
    /\ \A m, n \in 1..c : m < n => q[m] < q[n]
    /\ \A k \in T : \E n \in 1..c : q[n] = k

\* A listing in order is such a way.
LEMMA OrderIsOnto ==
    ASSUME NEW T, IsFiniteSet(T), T \subseteq Nat, NEW q \in Objects!InOrder(T)
    PROVE  IsWay(q, T, Cardinality(T))
<1> DEFINE c == Cardinality(T)
<1>1. c \in Nat /\ q \in [1..c -> T]
    BY OrderIsIn
<1>2. \A m, n \in DOMAIN q : m < n => q[m] < q[n]
    BY DEF Objects!InOrder
<1>7. \A n \in 1..c : q[n] \in T /\ q[n] \in Nat
    <2> HIDE DEF c
    <2> QED BY <1>1
<1>3. \A m, n \in 1..c : m # n => q[m] # q[n]
    <2>1. SUFFICES ASSUME NEW m \in 1..c, NEW n \in 1..c, m # n PROVE q[m] # q[n]
        OBVIOUS
    <2>2. q[m] \in Nat /\ q[n] \in Nat
        BY <1>7, <2>1
    <2>5. m \in Nat /\ n \in Nat
        BY <1>1, <2>1
    <2>3. m < n => q[m] < q[n]
        BY <1>1, <1>2
    <2>4. n < m => q[n] < q[m]
        BY <1>1, <1>2
    <2> QED BY <2>1, <2>2, <2>3, <2>4, <2>5
<1>4. q \in Injection(1..c, T)
    BY <1>1, <1>3 DEF Injection, IsInjective
<1>5. Cardinality(1..c) = c
    BY <1>1, FS_Interval
<1>6. q \in Surjection(1..c, T)
    BY <1>4, <1>5, FS_Injection
<1> QED BY <1>1, <1>2, <1>6, <1>7 DEF Surjection, IsWay

\* There is one way only.
LEMMA OrderIsOne ==
    ASSUME NEW T, IsFiniteSet(T), T \subseteq Nat,
           NEW p \in Objects!InOrder(T), NEW q \in Objects!InOrder(T)
    PROVE  p = q
<1>0. PICK c : IsWay(p, T, c) /\ IsWay(q, T, c)
    BY OrderIsOnto
<1> DEFINE Differ == {n \in 1..c : p[n] # q[n]}
<1>1. /\ DOMAIN p = 1..c /\ c \in Nat
      /\ \A n \in 1..c : p[n] \in T
      /\ \A m, n \in 1..c : m < n => p[m] < p[n]
      /\ \A k \in T : \E n \in 1..c : p[n] = k
    BY <1>0 DEF IsWay
<1>2. /\ DOMAIN q = 1..c
      /\ \A n \in 1..c : q[n] \in T
      /\ \A m, n \in 1..c : m < n => q[m] < q[n]
      /\ \A k \in T : \E n \in 1..c : q[n] = k
    BY <1>0 DEF IsWay
<1>3. p \in [1..c -> T] /\ q \in [1..c -> T]
    BY <1>0 DEF IsWay
<1>4. SUFFICES ASSUME Differ # {} PROVE FALSE
    <2>1. SUFFICES ASSUME Differ = {} PROVE p = q
        OBVIOUS
    <2>2. \A n \in 1..c : p[n] = q[n]
        BY <2>1
    <2>3. p = [n \in 1..c |-> p[n]] /\ q = [n \in 1..c |-> q[n]]
        BY <1>3
    <2> HIDE DEF Differ
    <2> QED BY <2>2, <2>3, Zenon
<1>5. PICK n \in Differ : \A m \in Differ : n <= m
    <2>1. Differ \in SUBSET Nat
        BY <1>1
    <2> QED BY <1>4, <2>1, LeastOne
<1>6. /\ n \in 1..c /\ p[n] # q[n] /\ n \in Nat
      /\ \A m \in 1..c : m < n => p[m] = q[m]
    <2>1. n \in 1..c /\ p[n] # q[n] /\ n \in Nat
        BY <1>5
    <2>2. ASSUME NEW m \in 1..c, m < n PROVE p[m] = q[m]
        BY <1>5, <2>1, <2>2
    <2> QED BY <2>1, <2>2
<1>7. p[n] \in Nat /\ q[n] \in Nat
    BY <1>1, <1>2, <1>6
<1>8. ASSUME p[n] < q[n] PROVE FALSE
    <2>1. PICK m \in 1..c : q[m] = p[n]
        BY <1>1, <1>2, <1>6
    <2>2. m \in Nat
        BY <1>1
    <2>3. m < n => p[m] = q[m] /\ p[m] < p[n]
        BY <1>1, <1>6
    <2>4. n < m => q[n] < q[m]
        BY <1>2, <1>6
    <2> QED BY <1>6, <1>7, <1>8, <2>1, <2>2, <2>3, <2>4
<1>9. ASSUME q[n] < p[n] PROVE FALSE
    <2>1. PICK m \in 1..c : p[m] = q[n]
        BY <1>1, <1>2, <1>6
    <2>2. m \in Nat
        BY <1>1
    <2>3. m < n => p[m] = q[m] /\ q[m] < q[n]
        BY <1>2, <1>6
    <2>4. n < m => p[n] < p[m]
        BY <1>1, <1>6
    <2> QED BY <1>6, <1>7, <1>9, <2>1, <2>2, <2>3, <2>4
<1> QED BY <1>6, <1>7, <1>8, <1>9

\* What a page has, of the entries in their order: all that follow those of the
\* pages before, or as many of them as a page has.
IsPage(s, q, c, z) ==
    \E m \in Nat :
       /\ s = [n \in 1..m |-> Objects!Entry(q[z + n])] /\ Len(s) = m
       /\ \A n \in 1..m : z + n \in 1..c
       /\ m = PageLimit \/ (m < PageLimit /\ c - z <= m)

\* Objects!Page takes such a page.
LEMMA PageIs ==
    ASSUME Objects!Assumptions, page \in Nat,
           NEW T, T \subseteq 1..2 * Len(Names), NEW q \in Objects!InOrder(T)
    PROVE  IsPage(Objects!Page(q), q, Cardinality(T), PageLimit * page)
<1>1. IsFiniteSet(T)
    BY EntriesAreFinite
<1>2. PICK c \in Nat : c = Cardinality(T) /\ q \in [1..c -> T]
    BY <1>1, OrderIsIn
<1>3. Objects!Cardinality(DOMAIN q) = c
    <2>1. Objects!Cardinality(DOMAIN q) = Cardinality(DOMAIN q)
        BY DEF Objects!Cardinality, Cardinality, Objects!IsFiniteSet, IsFiniteSet
    <2>2. Cardinality(1..c) = c
        BY <1>2, FS_Interval
    <2> QED BY <1>2, <2>1, <2>2
<1>5. PICK z \in Nat : z = PageLimit * page
    BY DEF Objects!Assumptions
<1>6. PICK k \in Int : /\ k = IF c - z < PageLimit THEN c - z ELSE PageLimit
                       /\ Objects!Page(q) = [n \in 1..k |-> Objects!Entry(q[z + n])]
    <2>1. \E k \in Int : k = IF c - z < PageLimit THEN c - z ELSE PageLimit
        BY <1>2, <1>5 DEF Objects!Assumptions
    <2> QED BY <1>3, <1>5, <2>1 DEF Objects!Page
<1>7. PICK m \in Nat : /\ 1..k = 1..m
                       /\ m <= c - z \/ m = 0
                       /\ m = PageLimit \/ (m < PageLimit /\ c - z <= m)
    <2>1. PageLimit \in Nat \ {0}
        BY DEF Objects!Assumptions
    <2>2. CASE k < 0
        <3>1. 1..k = 1..0
            BY <2>2
        <3> QED BY <1>2, <1>5, <1>6, <2>1, <2>2, <3>1
    <2>3. CASE k >= 0
        BY <1>2, <1>5, <1>6, <2>1, <2>3
    <2> QED BY <1>6, <2>2, <2>3
<1>8. \A n \in 1..m : z + n \in 1..c
    BY <1>2, <1>5, <1>7
<1>9. Objects!Page(q) = [n \in 1..m |-> Objects!Entry(q[z + n])]
    BY <1>6, <1>7
<1>10. Len(Objects!Page(q)) = m
    BY <1>9
<1> QED BY <1>2, <1>5, <1>7, <1>8, <1>9, <1>10 DEF IsPage

\* What is below a directory is an entry of it, or below one.
LEMMA EntryFor ==
    ASSUME NEW S, NEW d \in Seq(S), NEW o \in Seq(S), Objects!Below(d, o)
    PROVE  \E x \in S : Append(d, x) \in Seq(S) /\ (o = Append(d, x) \/ Objects!Below(Append(d, x), o))
<1>1. /\ Len(o) \in Nat /\ Len(d) \in Nat /\ Len(o) > Len(d) /\ SubSeq(o, 1, Len(d)) = d
      /\ DOMAIN o = 1..Len(o)
    BY DEF Objects!Below
<1>2. PICK x \in S : x = o[Len(d) + 1]
    BY <1>1
<1> DEFINE a == Append(d, x)
           b == SubSeq(o, 1, Len(d) + 1)
<1>3. /\ a \in Seq(S) /\ Len(a) = Len(d) + 1
      /\ \A n \in 1..Len(d) : a[n] = d[n]
      /\ a[Len(d) + 1] = x
    BY AppendProperties
<1>4. /\ b \in Seq(S) /\ Len(b) = Len(d) + 1
      /\ \A n \in 1..Len(d) + 1 : b[n] = o[n]
    <2>1. \A n \in 1..Len(d) + 1 : o[n] \in S
        BY <1>1
    <2> QED BY <1>1, <2>1, SubSeqProperties
<1>5. \A n \in 1..Len(d) : o[n] = d[n]
    <2>1. \A n \in 1..Len(d) : o[n] \in S
        BY <1>1
    <2>2. \A n \in 1..Len(d) : SubSeq(o, 1, Len(d))[n] = o[n]
        BY <1>1, <2>1, SubSeqProperties
    <2> QED BY <1>1, <2>2
<1>6. a = b
    <2>1. ASSUME NEW n \in 1..Len(d) + 1 PROVE a[n] = b[n]
        <3>1. n \in 1..Len(d) \/ n = Len(d) + 1
            BY <1>1
        <3> QED BY <1>2, <1>3, <1>4, <1>5, <2>1, <3>1
    <2> HIDE DEF a, b
    <2> QED BY <1>3, <1>4, <2>1, SeqEqual
<1>7. CASE Len(o) = Len(d) + 1
    <2>1. o = b
        BY <1>7, SubSeqFull
    <2> QED BY <1>3, <1>6, <2>1
<1>8. CASE Len(o) > Len(d) + 1
    BY <1>3, <1>6, <1>8 DEF Objects!Below
<1>9. Len(o) = Len(d) + 1 \/ Len(o) > Len(d) + 1
    <2>1. Len(o) \in Nat /\ Len(d) \in Nat /\ Len(o) > Len(d)
        BY <1>1
    <2> QED BY <2>1
<1> QED BY <1>7, <1>8, <1>9, Zenon

\* A listing shows an entry that leads to an object below the directory.
LEMMA ListingTells ==
    ASSUME Objects!Assumptions, NEW x \in Objects!NameSet, NEW o \in DOMAIN objects',
           dir' \in Seq(Objects!NameSet), search' \in {None, x},
           o = Append(dir', x) \/ Objects!Below(Append(dir', x), o)
    PROVE  \E k \in Listing' : Tells(Objects!Entry(k)', o)
<1>1. Len(Names) \in Nat /\ DOMAIN Names = 1..Len(Names)
    BY DEF Objects!Assumptions
<1>2. PICK j \in 1..Len(Names) : Names[j] = x
    BY <1>1 DEF Objects!NameSet
<1>3. Objects!Last(Append(dir', x)) = x
    BY AppendProperties DEF Objects!Last
<1>4. CASE o = Append(dir', x)
    <2>1. PICK k \in 1..2 * Len(Names) : k = 2 * j - 1
        BY <1>1
    <2>2. (k + 1) \div 2 = j
        BY <2>1
    <2>3. k % 2 # 0
        BY <2>1
    <2>4. Objects!Entry(k)' = [path |-> o, isDir |-> FALSE]
        BY <1>2, <1>4, <2>2, <2>3 DEF Objects!Entry
    <2>5. k \in Listing'
        <3>1. Objects!Shown(Objects!Entry(k))'
            BY <1>3, <1>4, <2>4 DEF Objects!Shown
        <3> QED BY <3>1 DEF Listing
    <2>6. Tells(Objects!Entry(k)', o)
        BY <2>4 DEF Tells
    <2> QED BY <2>5, <2>6
<1>5. CASE Objects!Below(Append(dir', x), o)
    <2>1. PICK k \in 1..2 * Len(Names) : k = 2 * j
        BY <1>1
    <2>2. (k + 1) \div 2 = j
        BY <2>1
    <2>3. k % 2 = 0
        BY <2>1
    <2>4. Objects!Entry(k)' = [path |-> Append(dir', x), isDir |-> TRUE]
        BY <1>2, <2>2, <2>3 DEF Objects!Entry
    <2>5. k \in Listing'
        <3>1. Objects!Shown(Objects!Entry(k))'
            BY <1>3, <1>5, <2>4 DEF Objects!Shown
        <3> QED BY <3>1 DEF Listing
    <2>6. Tells(Objects!Entry(k)', o)
        BY <1>5, <2>4 DEF Tells
    <2> QED BY <2>5, <2>6
<1> QED BY <1>4, <1>5

\* Before the first page of a directory, what is below it is not read yet.
LEMMA UnreadBegins ==
    ASSUME Objects!Assumptions, NEW x \in Objects!NameSet, NEW o \in DOMAIN objects',
           dir' \in Seq(Objects!NameSet), search' \in {None, x}, page' = 0,
           o = Append(dir', x) \/ Objects!Below(Append(dir', x), o)
    PROVE  Unread(o)'
<1>1. PICK k \in Listing' : Tells(Objects!Entry(k)', o)
    BY ListingTells
<1>2. IsFiniteSet(Listing') /\ Listing' \subseteq Nat
    <2>1. Listing' \subseteq 1..2 * Len(Names)
        BY DEF Listing
    <2>2. 1..2 * Len(Names) \subseteq Nat
        OBVIOUS
    <2>3. IsFiniteSet(Listing')
        BY <2>1, EntriesAreFinite
    <2> QED BY <2>1, <2>2, <2>3
<1>3. ASSUME NEW q \in Objects!InOrder(Listing')
      PROVE  \E n \in DOMAIN q : n > PageLimit * page' /\ Tells(Objects!Entry(q[n])', o)
    <2>1. PICK c : IsWay(q, Listing', c)
        BY <1>2, OrderIsOnto
    <2>2. PICK n \in 1..c : q[n] = k
        BY <2>1 DEF IsWay
    <2>3. n \in DOMAIN q /\ n > PageLimit * page'
        BY <2>1, <2>2 DEF IsWay, Objects!Assumptions
    <2> QED BY <1>1, <2>2, <2>3
<1> QED BY <1>3 DEF Unread

\* What decides whether an object waits.
LEMMA SameUnread ==
    ASSUME UNCHANGED <<objects, dir, search, page>>, NEW o
    PROVE  Unread(o)' <=> Unread(o)
<1>1. \A k : Objects!Entry(k)' = Objects!Entry(k)
    BY DEF Objects!Entry
<1>2. \A k : Objects!Shown(Objects!Entry(k))' <=> Objects!Shown(Objects!Entry(k))
    BY <1>1 DEF Objects!Shown
<1>3. Listing' = Listing
    BY <1>2 DEF Listing
<1> QED BY <1>1, <1>3 DEF Unread, Tells

\* and so does what waits.
LEMMA SameWaits ==
    ASSUME UNCHANGED <<objects, dir, search, page, dirs, entries, step, full, args>>, NEW o
    PROVE  Waits(o)' <=> Waits(o)
<1>1. Unread(o)' <=> Unread(o)
    BY SameUnread
<1> QED BY <1>1 DEF Waits, Tells

\* An object that waits is not forgotten when a directory is taken from the stack.
LEMMA PopWaits ==
    ASSUME Objects!Assumptions, Objects!Pop, dirs \in Seq(Seq(Objects!NameSet)), entries = <<>>,
           NEW o \in Seq(Objects!NameSet), o \in DOMAIN objects, Waits(o)
    PROVE  step' = "list" /\ reply' = reply /\ Waits(o)'
<1>1. step = "pop" /\ objects' = objects
    BY DEF Objects!Pop, Objects!At, Objects!world, Objects!service
<1>2. PICK n \in DOMAIN dirs : Objects!Below(dirs[n], o)
    BY <1>1 DEF Waits
<1>3. Len(dirs) \in Nat /\ n \in 1..Len(dirs) /\ dirs # <<>> /\ DOMAIN dirs = 1..Len(dirs)
    BY <1>2
<1>4. /\ dir' = Objects!Last(dirs) /\ dirs' = Objects!Front(dirs) /\ search' = None
      /\ page' = 0 /\ step' = "list" /\ reply' = reply
    BY <1>3 DEF Objects!Pop, Objects!Goto
<1>5. CASE n = Len(dirs)
    <2>1. dir' = dirs[n] /\ dir' \in Seq(Objects!NameSet) /\ Objects!Below(dir', o)
        BY <1>2, <1>3, <1>4, <1>5 DEF Objects!Last
    <2>2. PICK x \in Objects!NameSet : o = Append(dir', x) \/ Objects!Below(Append(dir', x), o)
        BY <2>1, EntryFor
    <2>3. o \in DOMAIN objects' /\ search' \in {None, x}
        BY <1>1, <1>4
    <2>4. Unread(o)'
        BY <1>4, <2>1, <2>2, <2>3, UnreadBegins
    <2> QED BY <1>4, <2>4 DEF Waits
<1>6. CASE n # Len(dirs)
    <2>1. n \in 1..(Len(dirs) - 1) /\ Len(dirs) - 1 \in Nat
        BY <1>3, <1>6
    <2>2. \A k \in 1..(Len(dirs) - 1) : dirs[k] \in Seq(Objects!NameSet)
        BY <1>3
    <2>3. /\ Len(dirs') = Len(dirs) - 1 /\ dirs' \in Seq(Seq(Objects!NameSet))
          /\ \A k \in 1..(Len(dirs) - 1) : dirs'[k] = dirs[k]
        BY <1>3, <1>4, <2>2, SubSeqProperties DEF Objects!Front
    <2>6. DOMAIN dirs' = 1..Len(dirs')
        BY <2>3
    <2>7. DOMAIN dirs' = 1..(Len(dirs) - 1)
        BY <2>3, <2>6, Zenon
    <2>4. n \in DOMAIN dirs' /\ dirs'[n] = dirs[n]
        BY <2>1, <2>3, <2>7, Zenon
    <2>5. Objects!Below(dirs'[n], o)
        BY <1>2, <2>4
    <2> QED BY <1>4, <2>4, <2>5 DEF Waits
<1> QED BY <1>5, <1>6

\* ... when a page is read,
LEMMA ListWaits ==
    ASSUME Objects!Assumptions, Objects!ListPage, page \in Nat, NEW S, entries \in Seq(S),
           reply' = "none", step' \in {"list", "act"}, NEW o, Waits(o)
    PROVE  Waits(o)'
<1>1. /\ UNCHANGED <<objects, dir, search, dirs, args>> /\ step = "list"
      /\ args.kind \in {"rm", "mv", "get"}
    BY DEF Objects!ListPage, Objects!At, Objects!Kinds, Objects!world, Objects!service, Objects!fixed
<1>2. PICK q \in Objects!InOrder(Listing) :
            /\ entries' = entries \o Objects!Page(q)
            /\ full' = (Len(Objects!Page(q)) = PageLimit)
            /\ page' = page + 1
            /\ step' = IF full' /\ args.kind # "get" THEN "list" ELSE "act"
    BY DEF Objects!ListPage, Listing, Objects!Goto, Objects!Stop, Objects!AllPages, Objects!At
<1>3. Listing \subseteq 1..2 * Len(Names)
    BY DEF Listing
<1>4. PICK c, z : IsPage(Objects!Page(q), q, c, z) /\ c = Cardinality(Listing) /\ z = PageLimit * page
    BY <1>2, <1>3, PageIs
<1>5. PICK m \in Nat : /\ DOMAIN Objects!Page(q) = 1..m /\ Len(Objects!Page(q)) = m
                       /\ \A n \in 1..m : /\ z + n \in 1..c
                                          /\ Objects!Page(q)[n] = Objects!Entry(q[z + n])
                       /\ m = PageLimit \/ (m < PageLimit /\ c - z <= m)
    <2>1. PICK m \in Nat :
                /\ Objects!Page(q) = [n \in 1..m |-> Objects!Entry(q[z + n])]
                /\ Len(Objects!Page(q)) = m
                /\ \A n \in 1..m : z + n \in 1..c
                /\ m = PageLimit \/ (m < PageLimit /\ c - z <= m)
        BY <1>4 DEF IsPage
    <2>2. /\ DOMAIN Objects!Page(q) = 1..m
          /\ \A n \in 1..m : Objects!Page(q)[n] = Objects!Entry(q[z + n])
        BY <2>1
    <2> QED BY <2>1, <2>2
<1>6. IsFiniteSet(Listing) /\ Listing \subseteq Nat
    <2>1. 1..2 * Len(Names) \subseteq Nat
        OBVIOUS
    <2> QED BY <1>3, <2>1, EntriesAreFinite
<1>7. IsWay(q, Listing, c)
    BY <1>2, <1>4, <1>6, OrderIsOnto
<1>8. Len(entries) \in Nat /\ DOMAIN entries = 1..Len(entries)
    OBVIOUS
<1>9. /\ \A n \in 1..Len(entries) : n \in DOMAIN entries' /\ entries'[n] = entries[n]
      /\ \A n \in 1..m : /\ Len(entries) + n \in DOMAIN entries'
                         /\ entries'[Len(entries) + n] = Objects!Page(q)[n]
    BY <1>2, <1>5, <1>8
<1>10. CASE \E n \in DOMAIN dirs : Objects!Below(dirs[n], o)
    BY <1>1, <1>10 DEF Waits
<1>11. CASE \E n \in DOMAIN entries : Tells(entries[n], o)
    <2>1. PICK n \in 1..Len(entries) : Tells(entries[n], o)
        BY <1>8, <1>11
    <2>2. n \in DOMAIN entries' /\ Tells(entries'[n], o)
        BY <1>9, <2>1
    <2> QED BY <2>2 DEF Waits, Tells
<1>12. CASE Unread(o)
    <2>1. PICK n \in DOMAIN q : n > z /\ Tells(Objects!Entry(q[n]), o)
        BY <1>2, <1>4, <1>12 DEF Unread
    <2>2. PICK p \in Nat : p = PageLimit
        BY DEF Objects!Assumptions
    <2>3. /\ c \in Nat /\ n \in 1..c /\ z \in Nat /\ PageLimit * page' = z + p
          /\ z = p * page
        <3>1. c \in Nat /\ n \in 1..c
            BY <1>7, <2>1 DEF IsWay
        <3>2. z = p * page /\ page' = page + 1
            BY <1>2, <1>4, <2>2
        <3>3. p * (page + 1) = p * page + p
            BY <2>2
        <3>4. p * page \in Nat
            BY <2>2
        <3> QED BY <2>2, <3>1, <3>2, <3>3, <3>4
    <2>4. CASE n <= z + m
        <3>1. n - z \in 1..m /\ z + (n - z) = n
            BY <2>1, <2>3, <2>4
        <3>2. Objects!Page(q)[n - z] = Objects!Entry(q[n])
            BY <1>5, <3>1
        <3>3. PICK k \in DOMAIN entries' : entries'[k] = Objects!Entry(q[n])
            BY <1>9, <3>1, <3>2
        <3>4. Tells(entries'[k], o)
            BY <2>1, <3>3
        <3> QED BY <3>4 DEF Waits, Tells
    <2>5. CASE n > z + m
        <3>1. m = p /\ n > z + p
            BY <1>5, <2>2, <2>3, <2>5
        <3>2. full'
            BY <1>2, <1>5, <2>2, <3>1
        <3>3. step' = "list" \/ (step' = "act" /\ full' /\ args'.kind = "get")
            BY <1>1, <1>2, <3>2
        <3>4. Unread(o)'
            <4>1. \A k : Objects!Entry(k)' = Objects!Entry(k)
                BY <1>1 DEF Objects!Entry
            <4>2. \A k : Objects!Shown(Objects!Entry(k))' <=> Objects!Shown(Objects!Entry(k))
                BY <1>1, <4>1 DEF Objects!Shown
            <4>3. Listing' = Listing
                BY <4>2 DEF Listing
            <4>4. ASSUME NEW r \in Objects!InOrder(Listing)
                  PROVE  \E k \in DOMAIN r : k > PageLimit * page' /\ Tells(Objects!Entry(r[k])', o)
                <5>1. r = q
                    BY <1>2, <1>6, OrderIsOne
                <5>2. n > PageLimit * page'
                    BY <2>3, <3>1
                <5>3. Tells(Objects!Entry(q[n])', o)
                    BY <2>1, <4>1 DEF Tells
                <5> QED BY <2>1, <5>1, <5>2, <5>3
            <4> QED BY <4>3, <4>4 DEF Unread, Tells
        <3> QED BY <3>3, <3>4 DEF Waits
    <2>6. n \in Int /\ z + m \in Int
        BY <2>3
    <2> QED BY <2>4, <2>5, <2>6
<1> QED BY <1>1, <1>10, <1>11, <1>12 DEF Waits

\* ... when a directory is put on it,
LEMMA PushWaits ==
    ASSUME Objects!PushDir, NEW S, NEW T, entries \in Seq(S), dirs \in Seq(T), NEW o, Waits(o)
    PROVE  Waits(o)'
<1>1. /\ UNCHANGED <<objects, dir, search, page, step, full, args>>
      /\ entries # <<>> /\ Head(entries).isDir
      /\ dirs' = Append(dirs, Head(entries).path) /\ entries' = Tail(entries)
    BY DEF Objects!PushDir, Objects!At, Objects!world, Objects!service, Objects!fixed
<1>2. Unread(o)' <=> Unread(o)
    BY <1>1, SameUnread
<1>3. /\ Len(dirs) \in Nat /\ DOMAIN dirs = 1..Len(dirs)
      /\ \A n \in 1..Len(dirs) : n \in DOMAIN dirs' /\ dirs'[n] = dirs[n]
      /\ Len(dirs) + 1 \in DOMAIN dirs' /\ dirs'[Len(dirs) + 1] = Head(entries).path
    BY <1>1
<1>4. CASE \E n \in DOMAIN dirs : Objects!Below(dirs[n], o)
    <2>1. PICK n \in DOMAIN dirs : Objects!Below(dirs[n], o)
        BY <1>4
    <2>2. n \in DOMAIN dirs' /\ dirs'[n] = dirs[n]
        BY <1>3
    <2>3. Objects!Below(dirs'[n], o)
        BY <2>1, <2>2
    <2> QED BY <2>2, <2>3 DEF Waits
<1>5. CASE \E n \in DOMAIN entries : Tells(entries[n], o)
    <2>1. PICK n \in DOMAIN entries : Tells(entries[n], o)
        BY <1>5
    <2>2. CASE n = 1
        <3>1. Objects!Below(dirs'[Len(dirs) + 1], o)
            BY <1>1, <1>3, <2>1, <2>2 DEF Tells
        <3> QED BY <1>3, <3>1 DEF Waits
    <2>3. CASE n # 1
        <3>1. n - 1 \in DOMAIN entries' /\ entries'[n - 1] = entries[n]
            BY <1>1, <2>1, <2>3
        <3>2. Tells(entries'[n - 1], o)
            BY <2>1, <3>1
        <3> QED BY <3>1, <3>2 DEF Waits, Tells
    <2> QED BY <2>2, <2>3
<1> QED BY <1>1, <1>2, <1>4, <1>5 DEF Waits

\* ... when a page was done,
LEMMA EndWaits ==
    ASSUME Objects!EndOfPage, NEW o, Waits(o)
    PROVE  Waits(o)'
<1>1. /\ UNCHANGED <<objects, dir, search, page, full, args, dirs, entries>> /\ entries = <<>>
      /\ step = "act" /\ step' = IF full /\ args.kind = "get" THEN "list" ELSE "pop"
    BY DEF Objects!EndOfPage, Objects!At, Objects!Goto, Objects!world, Objects!service,
         Objects!fixed, Objects!walk
<1>2. Unread(o)' <=> Unread(o)
    BY <1>1, SameUnread
<1> QED BY <1>1, <1>2 DEF Waits, Tells

\* ... and when an entry is done, but for what the entry names.
LEMMA TailWaits ==
    ASSUME NEW S, entries \in Seq(S), entries # <<>>, entries' = Tail(entries), dirs' = dirs,
           step = "act", step' = "act", args' = args, full' = full, NEW o, Waits(o),
           args.kind = "get" => (Unread(o)' <=> Unread(o))
    PROVE  Waits(o)' \/ Tells(Head(entries), o)
<1>1. CASE \E n \in DOMAIN entries : Tells(entries[n], o)
    <2>1. PICK n \in DOMAIN entries : Tells(entries[n], o)
        BY <1>1
    <2>2. CASE n = 1
        BY <2>1, <2>2
    <2>3. CASE n # 1
        <3>1. n - 1 \in DOMAIN entries' /\ entries'[n - 1] = entries[n]
            BY <2>1, <2>3
        <3>2. Tells(entries'[n - 1], o)
            BY <2>1, <3>1
        <3> QED BY <3>1, <3>2 DEF Waits, Tells
    <2> QED BY <2>2, <2>3
<1>2. CASE ~\E n \in DOMAIN entries : Tells(entries[n], o)
    BY <1>2 DEF Waits
<1> QED BY <1>1, <1>2

\* ... and when rm deletes the objects of a directory, but for these.
LEMMA RemoveWaits ==
    ASSUME Objects!RemoveFiles, NEW S, NEW T, entries \in Seq(S), dirs \in Seq(T),
           NEW o \in DOMAIN objects', reply' = "none", Waits(o)
    PROVE  Waits(o)'
<1>1. PICK q \in Objects!InOrder(Objects!DirsListed) :
            dirs' = dirs \o [n \in DOMAIN q |-> entries[q[n]].path]
    BY DEF Objects!RemoveFiles
<1>2. /\ args' = args /\ args.kind = "rm" /\ step = "act" /\ objects' = Objects!Without(Objects!Objects)
    BY DEF Objects!RemoveFiles, Objects!At, Objects!Stop, Objects!fixed
<1>3. o \notin Objects!Objects
    BY <1>2 DEF Objects!Without
<1>4. DOMAIN entries = 1..Len(entries) /\ Len(entries) \in Nat
    OBVIOUS
<1>5. Objects!DirsListed \subseteq 1..Len(entries)
    BY <1>4 DEF Objects!DirsListed
<1>6. IsFiniteSet(Objects!DirsListed) /\ Objects!DirsListed \subseteq Nat
    <2>1. IsFiniteSet(1..Len(entries))
        BY <1>4, FS_Interval
    <2>2. 1..Len(entries) \subseteq Nat
        BY <1>4
    <2>3. IsFiniteSet(Objects!DirsListed)
        BY <1>5, <2>1, FS_Subset
    <2> QED BY <1>5, <2>2, <2>3
<1>7. PICK c : IsWay(q, Objects!DirsListed, c)
    BY <1>6, OrderIsOnto
<1>8. /\ Len(dirs) \in Nat /\ DOMAIN dirs = 1..Len(dirs)
      /\ \A n \in 1..Len(dirs) : n \in DOMAIN dirs' /\ dirs'[n] = dirs[n]
      /\ \A n \in 1..c : /\ Len(dirs) + n \in DOMAIN dirs'
                         /\ dirs'[Len(dirs) + n] = entries[q[n]].path
    <2> DEFINE t == [n \in DOMAIN q |-> entries[q[n]].path]
    <2>1. c \in Nat /\ DOMAIN q = 1..c
        BY <1>7 DEF IsWay
    <2>2. DOMAIN t = 1..c /\ Len(t) = c /\ \A n \in 1..c : t[n] = entries[q[n]].path
        BY <2>1
    <2>3. Len(dirs) \in Nat /\ DOMAIN dirs = 1..Len(dirs) /\ dirs' = dirs \o t
        BY <1>1
    <2> HIDE DEF t
    <2> QED BY <2>1, <2>2, <2>3
<1>9. CASE \E n \in DOMAIN dirs : Objects!Below(dirs[n], o)
    <2>1. PICK n \in DOMAIN dirs : Objects!Below(dirs[n], o)
        BY <1>9
    <2>2. n \in DOMAIN dirs' /\ dirs'[n] = dirs[n]
        BY <1>8
    <2>3. Objects!Below(dirs'[n], o)
        BY <2>1, <2>2
    <2> QED BY <2>2, <2>3 DEF Waits
<1>10. CASE \E n \in DOMAIN entries : Tells(entries[n], o)
    <2>1. PICK n \in DOMAIN entries : Tells(entries[n], o)
        BY <1>10
    <2>2. entries[n].isDir /\ Objects!Below(entries[n].path, o)
        BY <1>3, <2>1 DEF Tells, Objects!Objects, Objects!Entries
    <2>3. n \in Objects!DirsListed
        BY <2>2 DEF Objects!DirsListed
    <2>4. PICK k \in 1..c : q[k] = n
        BY <1>7, <2>3 DEF IsWay
    <2>5. Len(dirs) + k \in DOMAIN dirs' /\ dirs'[Len(dirs) + k] = entries[n].path
        BY <1>8, <2>4
    <2>6. Objects!Below(dirs'[Len(dirs) + k], o)
        BY <2>2, <2>5
    <2> QED BY <2>5, <2>6 DEF Waits
<1> QED BY <1>2, <1>9, <1>10 DEF Waits

\* Before the walk, and between two directories, nothing is listed.
LEMMA BetweenStep ==
    ASSUME BetweenOK, Objects!Next
    PROVE  BetweenOK'
<1>1. UNCHANGED <<args, start>>
    BY DEF Objects!Next, Objects!BeginRemove, Objects!RemoveNamed, Objects!NextPrefix,
         Objects!MoveNamed, Objects!DownloadObject, Objects!BeginDownload, Objects!Pop,
         Objects!ListPage, Objects!RemoveFiles, Objects!DeleteBucket, Objects!EndOfPage,
         Objects!PushDir, Objects!MoveFile, Objects!PutDownload, Objects!JobEnds,
         Objects!Collect, Objects!Other, Objects!fixed
<1>2. start' \subseteq Initial
    BY <1>1 DEF BetweenOK
<1>3. args'.kind = "mv" => args'.to \in Seq(Objects!NameSet)
    BY <1>1 DEF BetweenOK
<1>4. args'.kind = "get" =>
         args'.from \in Seq(Objects!NameSet) /\ (args'.from = <<>> => args'.slash)
    BY <1>1 DEF BetweenOK
<1>5. page' \in Nat
    <2>1. page' \in {page, page + 1, 0}
        BY DEF Objects!Next, Objects!BeginRemove, Objects!RemoveNamed, Objects!NextPrefix,
             Objects!MoveNamed, Objects!DownloadObject, Objects!BeginDownload, Objects!Pop,
             Objects!ListPage, Objects!RemoveFiles, Objects!DeleteBucket, Objects!EndOfPage,
             Objects!PushDir, Objects!MoveFile, Objects!PutDownload, Objects!JobEnds,
             Objects!Collect, Objects!Other, Objects!walk
    <2> QED BY <2>1 DEF BetweenOK
<1>6. step' \in {"begin", "first", "next", "pop", "bucket"} => entries' = <<>>
    <2> USE DEF Objects!At, Objects!Goto, Objects!Stop, Objects!walk
    <2>1. CASE \/ Objects!BeginRemove \/ Objects!RemoveNamed \/ Objects!NextPrefix
               \/ Objects!MoveNamed \/ Objects!DownloadObject
        BY <2>1 DEF BetweenOK, Objects!BeginRemove, Objects!RemoveNamed, Objects!NextPrefix,
             Objects!MoveNamed, Objects!DownloadObject
    <2>2. CASE Objects!BeginDownload \/ Objects!Pop \/ Objects!ListPage
        BY <2>2 DEF BetweenOK, Objects!BeginDownload, Objects!Pop, Objects!ListPage
    <2>3. CASE \/ Objects!RemoveFiles \/ Objects!DeleteBucket \/ Objects!EndOfPage
               \/ Objects!PushDir \/ Objects!MoveFile \/ Objects!PutDownload
        BY <2>3 DEF BetweenOK, Objects!RemoveFiles, Objects!DeleteBucket, Objects!EndOfPage,
             Objects!PushDir, Objects!MoveFile, Objects!PutDownload
    <2>4. CASE Objects!JobEnds \/ Objects!Collect \/ Objects!Other
        BY <2>4 DEF BetweenOK, Objects!JobEnds, Objects!Collect, Objects!Other
    <2> QED BY <2>1, <2>2, <2>3, <2>4 DEF Objects!Next
<1>7. step' = "begin" => page' = 0 /\ jobs' = {} /\ search' = None /\ dirs' = <<>>
    <2> USE DEF Objects!At, Objects!Goto, Objects!Stop, Objects!walk, Objects!download
    <2>1. CASE \/ Objects!BeginRemove \/ Objects!RemoveNamed \/ Objects!NextPrefix
               \/ Objects!MoveNamed \/ Objects!DownloadObject
        BY <2>1 DEF BetweenOK, Objects!BeginRemove, Objects!RemoveNamed, Objects!NextPrefix,
             Objects!MoveNamed, Objects!DownloadObject
    <2>2. CASE Objects!BeginDownload \/ Objects!Pop \/ Objects!ListPage
        BY <2>2 DEF BetweenOK, Objects!BeginDownload, Objects!Pop, Objects!ListPage, Objects!Kinds
    <2>3. CASE \/ Objects!RemoveFiles \/ Objects!DeleteBucket \/ Objects!EndOfPage
               \/ Objects!PushDir \/ Objects!MoveFile \/ Objects!PutDownload
        BY <2>3 DEF BetweenOK, Objects!RemoveFiles, Objects!DeleteBucket, Objects!EndOfPage,
             Objects!PushDir, Objects!MoveFile, Objects!PutDownload
    <2>4. CASE Objects!JobEnds \/ Objects!Collect \/ Objects!Other
        BY <2>4 DEF BetweenOK, Objects!JobEnds, Objects!Collect, Objects!Other
    <2> QED BY <2>1, <2>2, <2>3, <2>4 DEF Objects!Next
<1>8. ASSUME step' \in {"begin", "first"}, reply' = "none", touched' = {}
      PROVE  objects' = [o \in start' |-> o]
    <2> USE DEF Objects!At, Objects!Goto, Objects!Stop, Objects!world, Objects!service
    <2>1. CASE \/ Objects!BeginRemove \/ Objects!RemoveNamed \/ Objects!NextPrefix
               \/ Objects!MoveNamed \/ Objects!DownloadObject
        BY <1>1, <1>8, <2>1 DEF BetweenOK, Objects!BeginRemove, Objects!RemoveNamed,
             Objects!NextPrefix, Objects!MoveNamed, Objects!DownloadObject
    <2>2. CASE Objects!BeginDownload \/ Objects!Pop \/ Objects!ListPage
        BY <1>1, <1>8, <2>2 DEF BetweenOK, Objects!BeginDownload, Objects!Pop, Objects!ListPage, Objects!Kinds
    <2>3. CASE \/ Objects!RemoveFiles \/ Objects!DeleteBucket \/ Objects!EndOfPage
               \/ Objects!PushDir \/ Objects!MoveFile \/ Objects!PutDownload
        BY <1>1, <1>8, <2>3 DEF BetweenOK, Objects!RemoveFiles, Objects!DeleteBucket,
             Objects!EndOfPage, Objects!PushDir, Objects!MoveFile, Objects!PutDownload
    <2>4. CASE Objects!JobEnds \/ Objects!Collect
        BY <1>1, <1>8, <2>4 DEF BetweenOK, Objects!JobEnds, Objects!Collect
    <2>5. CASE Objects!Other
        BY <1>8, <2>5 DEF Objects!Other
    <2> QED BY <2>1, <2>2, <2>3, <2>4, <2>5 DEF Objects!Next
<1> QED BY <1>2, <1>3, <1>4, <1>5, <1>6, <1>7, <1>8 DEF BetweenOK

\* Where nobody else changed the bucket, nobody has, and rm and mv have no jobs.
LEMMA AloneBefore ==
    ASSUME Objects!Next, Alone'
    PROVE  /\ args' = args /\ start' = start /\ touched = {} /\ touched' = {} /\ ~Objects!Other
           /\ Objects!JobEnds \/ reply = "none"
<1>1. UNCHANGED <<args, start>>
    BY DEF Objects!Next, Objects!BeginRemove, Objects!RemoveNamed, Objects!NextPrefix,
         Objects!MoveNamed, Objects!DownloadObject, Objects!BeginDownload, Objects!Pop,
         Objects!ListPage, Objects!RemoveFiles, Objects!DeleteBucket, Objects!EndOfPage,
         Objects!PushDir, Objects!MoveFile, Objects!PutDownload, Objects!JobEnds,
         Objects!Collect, Objects!Other, Objects!fixed
<1>2. ~Objects!Other
    BY DEF Objects!Other, Alone
<1>3. touched' = touched
    BY <1>2 DEF Objects!Next, Objects!BeginRemove, Objects!RemoveNamed, Objects!NextPrefix,
         Objects!MoveNamed, Objects!DownloadObject, Objects!BeginDownload, Objects!Pop,
         Objects!ListPage, Objects!RemoveFiles, Objects!DeleteBucket, Objects!EndOfPage,
         Objects!PushDir, Objects!MoveFile, Objects!PutDownload, Objects!JobEnds,
         Objects!Collect, Objects!world
<1>4. Objects!JobEnds \/ reply = "none"
    BY <1>2 DEF Objects!Next, Objects!BeginRemove, Objects!RemoveNamed, Objects!NextPrefix,
         Objects!MoveNamed, Objects!DownloadObject, Objects!BeginDownload, Objects!Pop,
         Objects!ListPage, Objects!RemoveFiles, Objects!DeleteBucket, Objects!EndOfPage,
         Objects!PushDir, Objects!MoveFile, Objects!PutDownload, Objects!Collect, Objects!At
<1> QED BY <1>1, <1>2, <1>3, <1>4 DEF Alone

\* A walk of rm or mv is one of paths.
LEMMA WalkIsOfPaths ==
    ASSUME WalkOK, args.kind \in {"rm", "mv"}
    PROVE  dirs \in Seq(Seq(Objects!NameSet)) /\ entries \in Seq(ReachedEntries) /\ page \in Nat
<1>1. dirs \in Seq(Reach) /\ Reach \subseteq Seq(Objects!NameSet)
    BY DEF WalkOK, Reach
<1>2. dirs \in Seq(Seq(Objects!NameSet))
    BY <1>1
<1> QED BY <1>2 DEF WalkOK

\* rm asks for -r before it takes a whole bucket.
LEMMA AsksStep ==
    ASSUME RemoveAsks, Objects!Next
    PROVE  RemoveAsks'
<1>1. args' = args
    BY DEF Objects!Next, Objects!BeginRemove, Objects!RemoveNamed, Objects!NextPrefix,
         Objects!MoveNamed, Objects!DownloadObject, Objects!BeginDownload, Objects!Pop,
         Objects!ListPage, Objects!RemoveFiles, Objects!DeleteBucket, Objects!EndOfPage,
         Objects!PushDir, Objects!MoveFile, Objects!PutDownload, Objects!JobEnds,
         Objects!Collect, Objects!Other, Objects!fixed
<1>2. Objects!Given' = Objects!Given
    BY <1>1 DEF Objects!Given
<1>5. args.kind = "rm" /\ reply' = "ok" => step' # "begin"
    BY <1>1 DEF Objects!Next, Objects!BeginRemove, Objects!RemoveNamed, Objects!NextPrefix,
         Objects!MoveNamed, Objects!DownloadObject, Objects!BeginDownload, Objects!Pop,
         Objects!ListPage, Objects!RemoveFiles, Objects!DeleteBucket, Objects!EndOfPage,
         Objects!PushDir, Objects!MoveFile, Objects!PutDownload, Objects!JobEnds,
         Objects!Collect, Objects!Other, Objects!At, Objects!Stop, Objects!Goto, RemoveAsks
<1>3. SUFFICES ASSUME args.kind = "rm", step = "begin", step' # "begin", <<>> \in Objects!Given
               PROVE  args.recursive
    BY <1>1, <1>2, <1>5 DEF RemoveAsks
<1>4. Objects!BeginRemove
    BY <1>3 DEF Objects!Next, Objects!RemoveNamed, Objects!NextPrefix,
         Objects!MoveNamed, Objects!DownloadObject, Objects!BeginDownload, Objects!Pop,
         Objects!ListPage, Objects!RemoveFiles, Objects!DeleteBucket, Objects!EndOfPage,
         Objects!PushDir, Objects!MoveFile, Objects!PutDownload, Objects!JobEnds,
         Objects!Collect, Objects!Other, Objects!At
<1> QED BY <1>3, <1>4 DEF Objects!BeginRemove, Objects!Stop, Objects!Given

\* A download that succeeds has ended all its jobs.
LEMMA EndsStep ==
    ASSUME CopyEnds, Objects!Next
    PROVE  CopyEnds'
<1>1. args' = args
    BY DEF Objects!Next, Objects!BeginRemove, Objects!RemoveNamed, Objects!NextPrefix,
         Objects!MoveNamed, Objects!DownloadObject, Objects!BeginDownload, Objects!Pop,
         Objects!ListPage, Objects!RemoveFiles, Objects!DeleteBucket, Objects!EndOfPage,
         Objects!PushDir, Objects!MoveFile, Objects!PutDownload, Objects!JobEnds,
         Objects!Collect, Objects!Other, Objects!fixed
<1>2. SUFFICES ASSUME args.kind = "get", args.recursive, reply' = "ok"
               PROVE  step' = "collect" /\ jobs' = {} /\ ~broken'
    BY <1>1 DEF CopyEnds
<1>3. CASE Objects!JobEnds
    BY <1>2, <1>3 DEF Objects!JobEnds, CopyEnds
<1>4. CASE ~Objects!JobEnds
    BY <1>2, <1>4 DEF Objects!Next, Objects!BeginRemove, Objects!RemoveNamed, Objects!NextPrefix,
         Objects!MoveNamed, Objects!DownloadObject, Objects!BeginDownload, Objects!Pop,
         Objects!ListPage, Objects!RemoveFiles, Objects!DeleteBucket, Objects!EndOfPage,
         Objects!PushDir, Objects!MoveFile, Objects!PutDownload, Objects!Collect, Objects!Other,
         Objects!At, Objects!Stop, Objects!Goto, Objects!download
<1> QED BY <1>3, <1>4

\* The way through the indices of a sequence leaves none of them out.
LEMMA OrderLists ==
    ASSUME NEW S, NEW s \in Seq(S), NEW T, T \subseteq DOMAIN s, NEW q \in Objects!InOrder(T),
           NEW k \in T
    PROVE  \E n \in DOMAIN q : q[n] = k
<1>1. DOMAIN s = 1..Len(s) /\ Len(s) \in Nat
    OBVIOUS
<1>2. IsFiniteSet(T)
    <2>1. IsFiniteSet(1..Len(s))
        BY <1>1, FS_Interval
    <2> QED BY <1>1, <2>1, FS_Subset
<1>3. T \subseteq Nat
    <2>1. 1..Len(s) \subseteq Nat
        BY <1>1
    <2> QED BY <1>1, <2>1
<1>4. IsWay(q, T, Cardinality(T))
    BY <1>2, <1>3, OrderIsOnto
<1> QED BY <1>4 DEF IsWay

\* rm -r: what is cleared stays clear.
LEMMA StaysClear ==
    ASSUME DOMAIN objects' \subseteq DOMAIN objects, gone => gone', NEW p, Cleared(p)
    PROVE  Cleared(p)'
BY DEF Cleared

\* rm: no step forgets what was given.
LEMMA RemoveStep ==
    ASSUME Objects!Assumptions, ArgsOK, WalkOK, DownloadOK, BetweenOK, RemoveAll, Objects!Next
    PROVE  RemoveAll'
<1> USE DEF RemoveAll
<1>0. SUFFICES ASSUME args'.kind = "rm", Alone'
               PROVE  /\ (DOMAIN objects \subseteq start)'
                      /\ Begun' => \A p \in Objects!Given' : p \notin DOMAIN objects'
                      /\ Begun' /\ args'.recursive =>
                            \A p \in Objects!Given' \ start' :
                               \/ Cleared(p)'
                               \/ reply' = "none" /\ InWork(p)'
                               \/ reply' = "none" /\ \E n \in DOMAIN prefixes' : prefixes'[n] = p
    OBVIOUS
<1>1. /\ args' = args /\ args.kind = "rm" /\ start' = start /\ touched = {} /\ touched' = {}
      /\ Objects!Given' = Objects!Given /\ reply' \in {"none", "ok"}
    BY <1>0, AloneBefore DEF Objects!Given, Alone
<1>2. /\ reply = "none" /\ Alone
      /\ \/ Objects!BeginRemove
         \/ Objects!RemoveNamed
         \/ Objects!NextPrefix
         \/ Objects!Pop
         \/ Objects!ListPage
         \/ Objects!RemoveFiles
         \/ Objects!DeleteBucket
    <2>1. ~Objects!Other /\ ~Objects!JobEnds
        BY <1>0, <1>1, AloneBefore DEF Objects!JobEnds, DownloadOK
    <2>2. reply = "none"
        BY <1>0, <2>1, AloneBefore
    <2> QED BY <1>1, <2>1, <2>2 DEF Alone, Objects!Next, Objects!MoveNamed, Objects!DownloadObject,
             Objects!BeginDownload, Objects!EndOfPage, Objects!PushDir, Objects!MoveFile,
             Objects!PutDownload, Objects!Collect, Objects!At
<1>3. DOMAIN objects \subseteq start
    BY <1>1, <1>2
<1>4. \A o \in DOMAIN objects : o \in Seq(Objects!NameSet)
    BY <1>3 DEF BetweenOK, Objects!Assumptions
<1>5. dirs \in Seq(Seq(Objects!NameSet)) /\ entries \in Seq(ReachedEntries) /\ page \in Nat
    BY <1>1, WalkIsOfPaths
<1>6. CASE Objects!BeginRemove
    <2>1. objects' = objects /\ ~Begun'
        BY <1>1, <1>6 DEF Objects!BeginRemove, Objects!At, Objects!Goto, Objects!Stop,
             Objects!world, Objects!service, Begun
    <2> QED BY <1>1, <1>3, <2>1
<1>7. CASE Objects!RemoveNamed
    <2>1. PICK q \in Objects!InOrder({n \in DOMAIN args.paths : args.paths[n] \notin DOMAIN objects}) :
             /\ prefixes' = [n \in DOMAIN q |-> args.paths[q[n]]]
             /\ objects' = Objects!Without(Objects!Given)
             /\ step = "first"
             /\ args.recursive => reply' = "none"
        BY <1>1, <1>7 DEF Objects!RemoveNamed, Objects!Stop, Objects!Goto, Objects!Given, Objects!At
    <2>2. /\ DOMAIN objects' \subseteq start
          /\ \A p \in Objects!Given : p \notin DOMAIN objects'
        BY <1>3, <2>1 DEF Objects!Without
    <2>3. ASSUME args.recursive, NEW p \in Objects!Given \ start
          PROVE  \E n \in DOMAIN prefixes' : prefixes'[n] = p
        <3>1. args.paths \in Seq(Seq(Objects!NameSet))
            BY <1>1 DEF ArgsOK
        <3>2. p \notin DOMAIN objects
            BY <1>3, <2>3
        <3>3. PICK k \in DOMAIN args.paths : args.paths[k] = p
            BY <2>3 DEF Objects!Given
        <3>4. PICK n \in DOMAIN q : q[n] = k
            <4>1. PICK T : T = {n \in DOMAIN args.paths : args.paths[n] \notin DOMAIN objects}
                OBVIOUS
            <4>2. T \subseteq DOMAIN args.paths /\ k \in T /\ q \in Objects!InOrder(T)
                BY <3>2, <3>3, <4>1
            <4> QED BY <3>1, <4>2, OrderLists
        <3> QED BY <2>1, <3>3, <3>4
    <2> QED BY <1>1, <2>1, <2>2, <2>3
<1>8. CASE Objects!NextPrefix
    <2>1. /\ step = "next" /\ objects' = objects /\ gone' = gone /\ Begun
          /\ \/ prefixes = <<>>
             \/ /\ prefixes # <<>> /\ prefix' = Head(prefixes) /\ prefixes' = Tail(prefixes)
                /\ dirs' = <<prefix'>> /\ step' = "pop" /\ reply' = "none"
        BY <1>2, <1>8 DEF Objects!NextPrefix, Objects!At, Objects!Goto, Objects!world,
             Objects!service, Begun
    <2>2. \A p : Cleared(p) => Cleared(p)'
        BY <2>1, StaysClear
    <2>3. ASSUME args.recursive, NEW p \in Objects!Given \ start, ~Cleared(p)
          PROVE  /\ reply' = "none"
                 /\ InWork(p)' \/ \E n \in DOMAIN prefixes' : prefixes'[n] = p
        <3>1. ~InWork(p)
            BY <2>1 DEF InWork
        <3>2. PICK n \in DOMAIN prefixes : prefixes[n] = p
            BY <1>1, <1>2, <2>1, <2>3, <3>1
        <3>3. prefixes \in Seq(Reach)
            BY <1>1 DEF WalkOK
        <3>4. /\ prefixes # <<>> /\ prefix' = Head(prefixes) /\ prefixes' = Tail(prefixes)
              /\ dirs' = <<prefix'>> /\ step' = "pop" /\ reply' = "none"
            BY <2>1, <3>2
        <3>5. CASE n = 1
            <4>1. prefix' = p
                BY <3>2, <3>3, <3>4, <3>5
            <4>2. 1 \in DOMAIN dirs' /\ dirs'[1] = p
                BY <3>4, <4>1
            <4>3. \A o : Objects!Below(p, o) => Waits(o)'
                BY <4>2 DEF Waits
            <4> QED BY <3>4, <4>1, <4>3 DEF InWork
        <3>6. CASE n # 1
            <4>1. n - 1 \in DOMAIN prefixes' /\ prefixes'[n - 1] = p
                BY <3>2, <3>3, <3>4, <3>6
            <4> QED BY <3>4, <4>1
        <3> QED BY <3>5, <3>6
    <2> QED BY <1>1, <1>2, <1>3, <2>1, <2>2, <2>3
<1>9. CASE Objects!Pop
    <2>1. /\ UNCHANGED <<objects, gone, prefix, prefixes, reply>> /\ step = "pop" /\ Begun
          /\ step' \in {"list", "bucket", "next"} /\ (step' = "next" => prefix # <<>>)
        BY <1>1, <1>9 DEF Objects!Pop, Objects!At, Objects!Goto, Objects!world,
             Objects!service, Begun
    <2>2. \A p : Cleared(p) => Cleared(p)'
        BY <2>1, StaysClear
    <2>3. entries = <<>>
        BY <2>1 DEF BetweenOK
    <2>4. ASSUME NEW p, InWork(p) PROVE InWork(p)' \/ Cleared(p)'
        <3>1. \A o \in DOMAIN objects : Objects!Below(p, o) => step' = "list" /\ Waits(o)'
            BY <1>4, <1>5, <1>9, <2>3, <2>4, PopWaits DEF InWork
        <3>2. prefix' = p
            BY <2>1, <2>4 DEF InWork
        <3>3. CASE step' \in {"list", "bucket"}
            BY <2>1, <3>1, <3>2, <3>3 DEF InWork
        <3>4. CASE step' = "next"
            <4>1. p # <<>>
                BY <2>1, <3>2, <3>4
            <4>2. \A o \in DOMAIN objects' : ~Objects!Below(p, o)
                BY <2>1, <3>1, <3>4
            <4> QED BY <4>1, <4>2 DEF Cleared
        <3> QED BY <2>1, <3>3, <3>4
    <2> QED BY <1>1, <1>2, <1>3, <2>1, <2>2, <2>4
<1>10. CASE Objects!ListPage
    <2>1. /\ UNCHANGED <<objects, gone, prefix, prefixes>> /\ step = "list" /\ Begun
          /\ reply' = "none" /\ step' \in {"list", "act"}
        BY <1>1, <1>2, <1>10 DEF Objects!ListPage, Objects!At, Objects!Goto, Objects!Stop,
             Objects!world, Objects!service, Begun
    <2>2. \A p : Cleared(p) => Cleared(p)'
        BY <2>1, StaysClear
    <2>3. \A p : InWork(p) => InWork(p)'
        <3>1. \A o : Waits(o) => Waits(o)'
            BY <1>5, <1>10, <2>1, ListWaits
        <3> QED BY <2>1, <3>1 DEF InWork
    <2> QED BY <1>1, <1>2, <1>3, <2>1, <2>2, <2>3
<1>11. CASE Objects!RemoveFiles
    <2>1. /\ UNCHANGED <<gone, prefix, prefixes>> /\ step = "act" /\ Begun
          /\ reply' = "none" /\ step' \in {"list", "pop"}
          /\ objects' = Objects!Without(Objects!Objects)
        BY <1>1, <1>2, <1>11 DEF Objects!RemoveFiles, Objects!At, Objects!Goto, Objects!Stop, Begun
    <2>2. DOMAIN objects' \subseteq DOMAIN objects
        BY <2>1 DEF Objects!Without
    <2>3. \A p : Cleared(p) => Cleared(p)'
        BY <2>1, <2>2, StaysClear
    <2>4. \A p : InWork(p) => InWork(p)'
        <3>1. \A o \in DOMAIN objects' : Waits(o) => Waits(o)'
            BY <1>5, <1>11, <2>1, RemoveWaits
        <3> QED BY <2>1, <2>2, <3>1 DEF InWork
    <2> QED BY <1>1, <1>2, <1>3, <2>1, <2>2, <2>3, <2>4
<1>12. CASE Objects!DeleteBucket
    <2>1. objects' = objects /\ DOMAIN objects = {} /\ gone'
        BY <1>1, <1>12 DEF Objects!DeleteBucket, Objects!Stop
    <2>2. \A p : Cleared(p)'
        BY <2>1 DEF Cleared
    <2> QED BY <2>1, <2>2
<1> QED BY <1>2, <1>6, <1>7, <1>8, <1>9, <1>10, <1>11, <1>12

\* A page is made of entries.
LEMMA PageIsOf ==
    ASSUME Objects!Assumptions, page \in Nat, NEW T, T \subseteq 1..2 * Len(Names),
           NEW q \in Objects!InOrder(T), NEW E, \A k \in T : Objects!Entry(k) \in E
    PROVE  Objects!Page(q) \in Seq(E)
<1>1. PICK c, z : IsPage(Objects!Page(q), q, c, z) /\ c = Cardinality(T)
    BY PageIs
<1>2. PICK m \in Nat : /\ Objects!Page(q) = [n \in 1..m |-> Objects!Entry(q[z + n])]
                       /\ \A n \in 1..m : z + n \in 1..c
    BY <1>1 DEF IsPage
<1>3. IsFiniteSet(T)
    BY EntriesAreFinite
<1>4. q \in [1..c -> T]
    BY <1>1, <1>3, OrderIsIn
<1>5. \A n \in 1..m : Objects!Entry(q[z + n]) \in E
    BY <1>2, <1>4
<1>6. Objects!Page(q) \in [1..m -> E]
    BY <1>2, <1>5
<1> QED BY <1>6

\* What a directory inside the source lists is below the source.
LEMMA EntryIsInside ==
    ASSUME Objects!Assumptions, args.from \in Seq(Objects!NameSet), dir \in Insides,
           NEW k \in 1..2 * Len(Names)
    PROVE  Objects!Entry(k) \in [path : Belows, isDir : BOOLEAN]
<1>1. PICK x \in Objects!NameSet, b \in BOOLEAN : Objects!Entry(k) = [path |-> Append(dir, x), isDir |-> b]
    BY EntryIsBelow
<1>2. dir \in Seq(Objects!NameSet) /\ (args.from = dir \/ Objects!Below(args.from, dir))
    BY DEF Insides, Inside
<1>3. Append(dir, x) \in Belows
    <2>1. Append(dir, x) \in Seq(Objects!NameSet) /\ Objects!Below(args.from, Append(dir, x))
        BY <1>2, BelowAppend
    <2> QED BY <2>1 DEF Belows
<1>4. [path |-> Append(dir, x), isDir |-> b] \in [path : Belows, isDir : BOOLEAN]
    BY <1>3, Zenon
<1> QED BY <1>1, <1>4, Zenon

\* What is below the source is inside it.
LEMMA BelowsAreInside ==
    /\ Belows \subseteq Insides /\ Insides \subseteq Seq(Objects!NameSet)
    /\ [path : Belows, isDir : BOOLEAN] \subseteq [path : Insides, isDir : BOOLEAN]
<1>1. Belows \subseteq Insides /\ Insides \subseteq Seq(Objects!NameSet)
    BY DEF Belows, Insides, Inside
<1> QED BY <1>1

\* The paths inside the source depend on the arguments only.
LEMMA SameInside == ASSUME args' = args PROVE Insides' = Insides /\ Belows' = Belows
BY DEF Insides, Belows, Inside, Objects!Below

\* What follows the source in the source itself.
LEMMA NothingFollows ==
    ASSUME NEW S, NEW s \in Seq(S), NEW t \in Seq(S)
    PROVE  t \o Objects!Rest(s, s) = t
<1>1. Objects!Rest(s, s) = <<>>
    BY SubSeqEmpty DEF Objects!Rest
<1>2. t \o <<>> = t
    BY ConcatEmptySeq
<1> QED BY <1>1, <1>2

\* The types of the walk of mv and of cp -r, one directory further.
LEMMA PopInside ==
    ASSUME Objects!Pop, dirs \in Seq(Insides), dirs # <<>>, args' = args
    PROVE  /\ dirs' \in Seq(Insides) /\ dir' \in Insides /\ search' = None /\ entries' = <<>>
           /\ step' = "list" /\ reply' = reply
<1>1. /\ dir' = Objects!Last(dirs) /\ dirs' = Objects!Front(dirs) /\ search' = None
      /\ entries' = <<>> /\ step' = "list" /\ reply' = reply
    BY DEF Objects!Pop, Objects!Goto
<1>2. Len(dirs) \in Nat \ {0}
    OBVIOUS
<1>3. \A n \in 1..(Len(dirs) - 1) : dirs[n] \in Insides
    BY <1>2
<1>4. SubSeq(dirs, 1, Len(dirs) - 1) \in Seq(Insides)
    BY <1>2, <1>3, SubSeqProperties
<1> QED BY <1>1, <1>2, <1>4 DEF Objects!Last, Objects!Front

\* mv: what is done of the directory, and its types.
Walking ==
    /\ dirs \in Seq(Insides) /\ entries \in Seq([path : Belows, isDir : BOOLEAN])
    /\ step \in {"list", "act"} => dir \in Insides
OnlyInPlace ==
    \A t \in DOMAIN objects : Objects!Below(args.from, t) => objects[t] = t /\ t \in start
OnTheWay ==
    \A o \in start : Objects!Below(args.from, o) =>
        Arrived(o) \/ (reply = "none" /\ Objects!InPlace(o) /\ Waits(o))

\* What is to be said of a mv that nobody disturbs, by its parts.
LEMMA MovesOn ==
    ASSUME args.kind = "mv", Alone, Objects!Apart
    PROVE  MoveAll <=>
              /\ step = "begin" /\ reply = "ok" => args.from \in start /\ Arrived(args.from)
              /\ step # "begin" => args.from \notin start /\ Walking /\ OnlyInPlace /\ OnTheWay
BY DEF MoveAll, Walking, OnlyInPlace, OnTheWay

\* mv of one object, and the begin of the walk.
LEMMA MoveBegins ==
    ASSUME Objects!Assumptions, ArgsOK, BetweenOK, Objects!MoveNamed, reply' \in {"none", "ok"},
           args' = args, start' = start, touched = {}, args.kind = "mv"
    PROVE  /\ step' = "begin" /\ reply' = "ok" => args.from \in start /\ Arrived(args.from)'
           /\ step' # "begin" => args.from \notin start /\ Walking' /\ OnlyInPlace' /\ OnTheWay'
<1>1. /\ objects = [o \in start |-> o] /\ args.from \in Seq(Objects!NameSet)
      /\ args.to \in Seq(Objects!NameSet) /\ step = "begin" /\ entries = <<>>
    BY DEF BetweenOK, ArgsOK, Objects!MoveNamed, Objects!At
<1>2. \/ /\ Objects!CanMove(args.from, args.to) /\ objects' = Objects!Moved(args.from, args.to)
         /\ step' = "begin" /\ reply' = "ok"
      \/ /\ args.from \notin DOMAIN objects /\ dirs' = <<args.from>> /\ step' = "pop"
         /\ objects' = objects /\ entries' = entries /\ reply' = "none"
    BY <1>1 DEF Objects!MoveNamed, Objects!Goto, Objects!Stop, Objects!At
<1>3. CASE Objects!CanMove(args.from, args.to) /\ objects' = Objects!Moved(args.from, args.to)
           /\ step' = "begin" /\ reply' = "ok"
    <2>1. args.from \in start /\ objects[args.from] = args.from
        BY <1>1, <1>3 DEF Objects!CanMove
    <2>2. Objects!Target(args.from) = args.to
        BY <1>1, NothingFollows DEF Objects!Target
    <2>3. Objects!Target(args.from)' = args.to
        BY <2>2 DEF Objects!Target, Objects!Rest
    <2>4. args.to \in DOMAIN objects' /\ objects'[args.to] = args.from
        BY <1>3, <2>1 DEF Objects!Moved, Objects!With
    <2>5. Arrived(args.from)'
        BY <2>3, <2>4 DEF Arrived, Objects!Target, Objects!Rest
    <2> QED BY <1>3, <2>1, <2>5
<1>4. CASE args.from \notin DOMAIN objects /\ dirs' = <<args.from>> /\ step' = "pop"
           /\ objects' = objects /\ entries' = entries /\ reply' = "none"
    <2>1. Insides' = Insides /\ Belows' = Belows
        BY SameInside
    <2>2. args.from \in Insides
        BY <1>1 DEF Insides, Inside
    <2>3. Walking'
        BY <1>1, <1>4, <2>1, <2>2, OneIsSeq, EmptySeq DEF Walking
    <2>4. OnlyInPlace'
        BY <1>1, <1>4 DEF OnlyInPlace
    <2>5. ASSUME NEW o \in start, Objects!Below(args.from, o)
          PROVE  Objects!InPlace(o)' /\ Waits(o)'
        <3>1. 1 \in DOMAIN dirs' /\ dirs'[1] = args.from
            BY <1>4
        <3>2. Objects!Below(dirs'[1], o)
            BY <2>5, <3>1
        <3>3. Waits(o)'
            BY <3>1, <3>2 DEF Waits
        <3> QED BY <1>1, <1>4, <3>3 DEF Objects!InPlace
    <2>6. OnTheWay'
        BY <1>4, <2>5 DEF OnTheWay, Objects!Below
    <2> QED BY <1>1, <1>4, <2>3, <2>4, <2>6
<1> QED BY <1>2, <1>3, <1>4

\* An entry that names an object moves it, and nothing else.
LEMMA MoveMoves ==
    ASSUME Objects!Apart, Walking, OnlyInPlace, OnTheWay, Objects!MoveFile, reply' = "none",
           args' = args, start' = start, args.kind = "mv"
    PROVE  Walking' /\ OnlyInPlace' /\ OnTheWay'
<1> DEFINE E == [path : Belows, isDir : BOOLEAN]
<1>0. PICK s, t : s = Head(entries).path /\ t = Objects!Target(s)
    OBVIOUS
<1>1. /\ entries # <<>> /\ ~Head(entries).isDir /\ entries' = Tail(entries)
      /\ step = "act" /\ step' = "act" /\ UNCHANGED <<dirs, dir, full>>
      /\ Objects!CanMove(s, t) /\ objects' = Objects!Moved(s, t)
    BY <1>0 DEF Objects!MoveFile, Objects!At, Objects!Goto, Objects!Stop, Objects!Target
<1>2. Insides' = Insides /\ Belows' = Belows
    BY SameInside
<1>3. entries \in Seq(E)
    BY DEF Walking
<1>4. Head(entries) \in E /\ Tail(entries) \in Seq(E)
    BY <1>1, <1>3, HeadTailProperties
<1>5. Objects!Below(args.from, s)
    BY <1>0, <1>4 DEF Belows
<1>6. Walking'
    BY <1>1, <1>2, <1>4 DEF Walking
<1>7. /\ s \in DOMAIN objects /\ objects[s] = s /\ s \in start
      /\ t \in DOMAIN objects => t = s
      /\ ~Objects!Below(args.from, t)
    BY <1>0, <1>1, <1>5 DEF OnlyInPlace, Objects!CanMove, Objects!Apart
<1>8. t # s /\ t \notin DOMAIN objects
    BY <1>5, <1>7
<1>9. /\ DOMAIN objects' = (DOMAIN objects \ {s}) \union {t} /\ objects'[t] = s
      /\ \A o \in DOMAIN objects : o # s => objects'[o] = objects[o]
    BY <1>1, <1>7, <1>8 DEF Objects!Moved, Objects!With, Objects!Without
<1>10. OnlyInPlace'
    <2>1. \A o \in DOMAIN objects' : Objects!Below(args.from, o) => o \in DOMAIN objects /\ o # s
        BY <1>7, <1>9
    <2>2. \A o \in DOMAIN objects' : Objects!Below(args.from, o) => objects'[o] = o /\ o \in start
        BY <1>9, <2>1 DEF OnlyInPlace
    <2> QED BY <2>2 DEF OnlyInPlace, Objects!Below
<1>11. \A o : Objects!Target(o)' = Objects!Target(o)
    BY DEF Objects!Target, Objects!Rest
<1>12. ASSUME NEW o \in start, Objects!Below(args.from, o)
       PROVE  Arrived(o)' \/ (Objects!InPlace(o)' /\ Waits(o)')
    <2>1. CASE o = s
        BY <1>0, <1>9, <1>11, <2>1 DEF Arrived
    <2>2. CASE o # s /\ Arrived(o)
        <3>1. ~Objects!Below(args.from, Objects!Target(o))
            BY <1>12 DEF Objects!Apart
        <3>2. Objects!Target(o) # s /\ Objects!Target(o) \in DOMAIN objects
            BY <1>5, <2>2, <3>1 DEF Arrived
        <3> QED BY <1>9, <1>11, <2>2, <3>2 DEF Arrived
    <2>3. CASE o # s /\ Objects!InPlace(o) /\ Waits(o)
        <3>1. Objects!InPlace(o)'
            BY <1>9, <2>3 DEF Objects!InPlace
        <3>2. Waits(o)' \/ Tells(Head(entries), o)
            BY <1>1, <1>3, <2>3, TailWaits
        <3>3. ~Tells(Head(entries), o)
            BY <1>0, <1>1, <2>3 DEF Tells
        <3> QED BY <3>1, <3>2, <3>3
    <2> QED BY <1>12, <2>1, <2>2, <2>3 DEF OnTheWay
<1>13. OnTheWay'
    <2>1. \A o : Objects!Below(args'.from, o) <=> Objects!Below(args.from, o)
        OBVIOUS
    <2> QED BY <1>12, <2>1 DEF OnTheWay, Objects!Below
<1> QED BY <1>6, <1>10, <1>13

\* The other steps of mv move nothing.
LEMMA MoveWalks ==
    ASSUME Objects!Assumptions, ArgsOK, BetweenOK, Walking, OnlyInPlace, OnTheWay,
           reply = "none", reply' \in {"none", "ok"}, args' = args, start' = start,
           args.kind = "mv",
           Objects!Pop \/ Objects!ListPage \/ Objects!EndOfPage \/ Objects!PushDir
    PROVE  Walking' /\ OnlyInPlace' /\ OnTheWay' /\ step' # "begin"
<1> DEFINE E == [path : Belows, isDir : BOOLEAN]
<1>1. Insides' = Insides /\ Belows' = Belows /\ objects' = objects
    BY SameInside DEF Objects!Pop, Objects!ListPage, Objects!EndOfPage, Objects!PushDir,
         Objects!world, Objects!service
<1>2. OnlyInPlace'
    BY <1>1 DEF OnlyInPlace, Objects!Below
<1>3. \A o : (Arrived(o)' <=> Arrived(o)) /\ (Objects!InPlace(o)' <=> Objects!InPlace(o))
    BY <1>1 DEF Arrived, Objects!InPlace, Objects!Target, Objects!Rest
<1>4. /\ dirs \in Seq(Insides) /\ entries \in Seq(E) /\ page \in Nat
      /\ args.from \in Seq(Objects!NameSet)
    BY DEF Walking, BetweenOK, ArgsOK
<1>5. dirs \in Seq(Seq(Objects!NameSet))
    BY <1>4, BelowsAreInside
<1>6. \A o \in start : o \in Seq(Objects!NameSet)
    BY DEF BetweenOK, Objects!Assumptions
<1>7. ASSUME \A o \in start : Objects!InPlace(o) /\ Waits(o) => reply' = "none" /\ Waits(o)'
      PROVE  OnTheWay'
    BY <1>3, <1>7 DEF OnTheWay, Objects!Below
<1>8. CASE Objects!Pop
    <2>1. step = "pop" /\ entries = <<>>
        BY <1>8 DEF Objects!Pop, Objects!At, BetweenOK
    <2>2. ASSUME NEW o \in start, Objects!InPlace(o), Waits(o) PROVE reply' = "none" /\ Waits(o)'
        BY <1>5, <1>6, <1>8, <2>1, <2>2, PopWaits DEF Objects!InPlace
    <2>3. Walking' /\ step' # "begin"
        <3>1. CASE dirs = <<>>
            BY <1>1, <1>4, <1>8, <2>1, <3>1 DEF Objects!Pop, Objects!Stop, Walking
        <3>2. CASE dirs # <<>>
            BY <1>1, <1>4, <1>8, <3>2, PopInside, EmptySeq DEF Walking
        <3> QED BY <3>1, <3>2
    <2> QED BY <1>2, <1>7, <2>2, <2>3
<1>9. CASE Objects!ListPage
    <2>1. /\ UNCHANGED <<dirs, dir>> /\ step = "list" /\ step' \in {"list", "act"} /\ reply' = "none"
          /\ \E q \in Objects!InOrder(Listing) : entries' = entries \o Objects!Page(q)
        BY <1>9 DEF Objects!ListPage, Objects!At, Objects!Goto, Objects!Stop, Listing
    <2>2. Listing \subseteq 1..2 * Len(Names)
        BY DEF Listing
    <2>3. dir \in Insides
        BY <2>1 DEF Walking
    <2>4. \A k \in Listing : Objects!Entry(k) \in E
        BY <1>4, <2>2, <2>3, EntryIsInside
    <2>5. \A q \in Objects!InOrder(Listing) : Objects!Page(q) \in Seq(E)
        BY <1>4, <2>2, <2>4, PageIsOf
    <2>6. entries' \in Seq(E)
        BY <1>4, <2>1, <2>5, ConcatProperties
    <2>7. Walking'
        BY <1>1, <1>4, <2>1, <2>3, <2>6 DEF Walking
    <2>8. ASSUME NEW o \in start, Waits(o) PROVE Waits(o)'
        BY <1>4, <1>9, <2>1, <2>8, ListWaits
    <2> QED BY <1>2, <1>7, <2>1, <2>7, <2>8
<1>10. CASE Objects!EndOfPage
    <2>1. UNCHANGED <<dirs, dir, entries>> /\ step = "act" /\ step' \in {"list", "pop"} /\ reply' = "none"
        BY <1>10 DEF Objects!EndOfPage, Objects!At, Objects!Goto, Objects!walk
    <2>2. Walking'
        BY <1>1, <2>1 DEF Walking
    <2>3. ASSUME NEW o \in start, Waits(o) PROVE Waits(o)'
        BY <1>10, <2>3, EndWaits
    <2> QED BY <1>2, <1>7, <2>1, <2>2, <2>3
<1>11. CASE Objects!PushDir
    <2>1. /\ dir' = dir /\ step' = step /\ step = "act" /\ reply' = "none"
          /\ entries # <<>> /\ dirs' = Append(dirs, Head(entries).path) /\ entries' = Tail(entries)
        BY <1>11 DEF Objects!PushDir, Objects!At
    <2>2. Head(entries) \in E /\ Tail(entries) \in Seq(E)
        BY <1>4, <2>1, HeadTailProperties
    <2>3. Head(entries).path \in Insides
        BY <2>2, BelowsAreInside
    <2>4. dirs' \in Seq(Insides)
        BY <1>4, <2>1, <2>3, AppendProperties
    <2>5. Walking'
        BY <1>1, <2>1, <2>2, <2>4 DEF Walking
    <2>6. ASSUME NEW o \in start, Waits(o) PROVE Waits(o)'
        BY <1>4, <1>11, <2>6, PushWaits
    <2> QED BY <1>2, <1>7, <2>1, <2>5, <2>6
<1> QED BY <1>8, <1>9, <1>10, <1>11

\* mv: no step forgets an object of the directory.
LEMMA MoveStep ==
    ASSUME Objects!Assumptions, ArgsOK, DownloadOK, BetweenOK, MoveAll, Objects!Next
    PROVE  MoveAll'
<1>0. SUFFICES ASSUME args'.kind = "mv", Alone', Objects!Apart' PROVE MoveAll'
    BY DEF MoveAll
<1>1. /\ args' = args /\ args.kind = "mv" /\ start' = start /\ touched = {} /\ touched' = {}
      /\ reply' \in {"none", "ok"}
    BY <1>0, AloneBefore DEF Alone
<1>2. Objects!Apart
    BY <1>0, <1>1 DEF Objects!Apart, Objects!Below, Objects!Target, Objects!Rest
<1>3. /\ reply = "none" /\ Alone
      /\ \/ Objects!MoveNamed
         \/ Objects!Pop
         \/ Objects!ListPage
         \/ Objects!EndOfPage
         \/ Objects!PushDir
         \/ Objects!MoveFile
    <2>1. ~Objects!Other /\ ~Objects!JobEnds
        BY <1>0, <1>1, AloneBefore DEF Objects!JobEnds, DownloadOK
    <2>2. reply = "none"
        BY <1>0, <2>1, AloneBefore
    <2> QED BY <1>1, <2>1, <2>2 DEF Alone, Objects!Next, Objects!BeginRemove, Objects!RemoveNamed,
             Objects!NextPrefix, Objects!DownloadObject, Objects!BeginDownload,
             Objects!RemoveFiles, Objects!DeleteBucket, Objects!PutDownload, Objects!Collect,
             Objects!At
<1>4. SUFFICES /\ step' = "begin" /\ reply' = "ok" => args.from \in start /\ Arrived(args.from)'
               /\ step' # "begin" => args.from \notin start /\ Walking' /\ OnlyInPlace' /\ OnTheWay'
    BY <1>0, <1>1 DEF MoveAll, Walking, OnlyInPlace, OnTheWay
<1>5. CASE Objects!MoveNamed
    BY <1>1, <1>5, MoveBegins
<1>6. CASE ~Objects!MoveNamed
    <2>1. step # "begin"
        BY <1>3, <1>6 DEF Objects!Pop, Objects!ListPage, Objects!EndOfPage, Objects!PushDir,
             Objects!MoveFile, Objects!At
    <2>2. args.from \notin start /\ Walking /\ OnlyInPlace /\ OnTheWay
        BY <1>1, <1>2, <1>3, <2>1 DEF MoveAll, Walking, OnlyInPlace, OnTheWay
    <2>3. CASE Objects!MoveFile
        <3>1. reply' = "none" /\ step' = "act"
            BY <1>1, <2>3 DEF Objects!MoveFile, Objects!At, Objects!Goto, Objects!Stop
        <3> QED BY <1>1, <1>2, <2>2, <2>3, <3>1, MoveMoves
    <2>4. CASE ~Objects!MoveFile
        BY <1>1, <1>3, <1>6, <2>2, <2>4, MoveWalks
    <2> QED BY <2>3, <2>4
<1> QED BY <1>5, <1>6

\* What is inside the source is the source and what follows it.
LEMMA RestFollows ==
    ASSUME NEW S, NEW s \in Seq(S), NEW o \in Seq(S), o = s \/ Objects!Below(s, o)
    PROVE  s \o Objects!Rest(s, o) = o
<1>1. CASE o = s
    BY <1>1, NothingFollows
<1>2. CASE Objects!Below(s, o)
    <2>1. /\ Len(s) \in Nat /\ Len(o) \in Nat /\ Len(o) > Len(s) /\ SubSeq(o, 1, Len(s)) = s
          /\ \A n \in 1..Len(o) : o[n] \in S
        BY <1>2 DEF Objects!Below
    <2>2. \A n \in 1..Len(s) : s[n] = o[n]
        <3>1. \A n \in 1..Len(s) : o[n] \in S
            BY <2>1
        <3>2. \A n \in 1..Len(s) : SubSeq(o, 1, Len(s))[n] = o[n]
            BY <2>1, <3>1, SubSeqProperties
        <3> QED BY <2>1, <3>2
    <2>6. PICK r : r = Objects!Rest(s, o)
        OBVIOUS
    <2>3. /\ r \in Seq(S) /\ Len(r) = Len(o) - Len(s)
          /\ \A n \in 1..(Len(o) - Len(s)) : r[n] = o[Len(s) + n]
        BY <2>1, <2>6 DEF Objects!Rest
    <2>4. s \o r \in Seq(S) /\ Len(s \o r) = Len(o)
        BY <2>1, <2>3
    <2>5. ASSUME NEW n \in 1..Len(o) PROVE (s \o r)[n] = o[n]
        <3>1. CASE n \in 1..Len(s)
            BY <2>1, <2>2, <2>3, <3>1
        <3>2. CASE n \notin 1..Len(s)
            <4>1. n - Len(s) \in 1..(Len(o) - Len(s))
                BY <2>1, <3>2
            <4>2. r[n - Len(s)] = o[n]
                BY <2>1, <2>3, <4>1
            <4> QED BY <2>1, <2>3, <3>2, <4>1, <4>2
        <3> QED BY <3>1, <3>2
    <2> QED BY <2>4, <2>5, <2>6, SeqEqual
<1> QED BY <1>1, <1>2

\* Two objects inside the source do not go to one file.
LEMMA RestIsOne ==
    ASSUME NEW p \in Insides, NEW o \in Insides, args.from \in Seq(Objects!NameSet),
           Objects!Rest(args.from, p) = Objects!Rest(args.from, o)
    PROVE  p = o
<1>1. args.from \o Objects!Rest(args.from, p) = p
    BY RestFollows DEF Insides, Inside
<1>2. args.from \o Objects!Rest(args.from, o) = o
    BY RestFollows DEF Insides, Inside
<1> QED BY <1>1, <1>2

\* Where no name begins with another, a file is named by what follows the source.
LEMMA LocalIsRest ==
    ASSUME BetweenOK, args.kind = "get", Objects!OneName, NEW o \in Insides
    PROVE  Objects!LocalPath(o) = Objects!Rest(args.from, o)
<1>1. CASE args.slash
    BY <1>1 DEF Objects!LocalPath
<1>2. CASE ~args.slash
    <2>1. args.from \in Seq(Objects!NameSet) /\ args.from # <<>>
        BY <1>2 DEF BetweenOK
    <2>2. Len(args.from) \in Nat /\ Len(args.from) \in 1..Len(args.from)
        BY <2>1
    <2>3. o \in Seq(Objects!NameSet) /\ (o = args.from \/ Objects!Below(args.from, o))
        BY DEF Insides, Inside
    <2>4. o[Len(args.from)] = args.from[Len(args.from)]
        <3>1. CASE o = args.from
            BY <3>1
        <3>2. CASE Objects!Below(args.from, o)
            <4>1. SubSeq(o, 1, Len(args.from)) = args.from /\ Len(o) > Len(args.from) /\ Len(o) \in Nat
                BY <2>3, <3>2 DEF Objects!Below
            <4>2. \A n \in 1..Len(args.from) : o[n] \in Objects!NameSet
                BY <2>2, <2>3, <4>1
            <4>3. \A n \in 1..Len(args.from) : SubSeq(o, 1, Len(args.from))[n] = o[n]
                BY <2>2, <4>2, SubSeqProperties
            <4> QED BY <2>2, <4>1, <4>3
        <3> QED BY <2>3, <3>1, <3>2
    <2> QED BY <2>4 DEF Objects!LocalPath
<1> QED BY <1>1, <1>2

\* The last name of a path that is not empty.
LEMMA FrontAndLast ==
    ASSUME NEW S, NEW s \in Seq(S), s # <<>>
    PROVE  /\ Objects!Front(s) \in Seq(S) /\ Objects!Last(s) \in S
           /\ Append(Objects!Front(s), Objects!Last(s)) = s
<1>1. PICK m \in Nat : Len(s) = m + 1 /\ \A n \in 1..m : s[n] \in S
    <2>1. Len(s) \in Nat \ {0} /\ Len(s) - 1 \in Nat
        OBVIOUS
    <2>2. \A n \in 1..(Len(s) - 1) : s[n] \in S
        BY <2>1
    <2>3. Len(s) = (Len(s) - 1) + 1
        BY <2>1
    <2> QED BY <2>1, <2>2, <2>3, Zenon
<1>2. PICK f : f = SubSeq(s, 1, m)
    OBVIOUS
<1>3. f \in Seq(S) /\ Len(f) = m /\ \A n \in 1..m : f[n] = s[n]
    BY <1>1, <1>2, SubSeqProperties
<1>4. s[m + 1] \in S
    BY <1>1
<1>5. /\ Append(f, s[m + 1]) \in Seq(S) /\ Len(Append(f, s[m + 1])) = m + 1
      /\ \A n \in 1..m + 1 : Append(f, s[m + 1])[n] = s[n]
    BY <1>1, <1>3, <1>4
<1>6. Append(f, s[m + 1]) = s
    BY <1>1, <1>5, SeqEqual
<1>7. Objects!Front(s) = f /\ Objects!Last(s) = s[m + 1]
    BY <1>1, <1>2 DEF Objects!Front, Objects!Last
<1> QED BY <1>3, <1>4, <1>6, <1>7

\* cp -r: the types of the walk, the jobs, and what is on its way.
Downloading ==
    /\ dirs \in Seq(Insides) /\ entries \in Seq([path : Insides, isDir : BOOLEAN])
    /\ step \in {"list", "act"} => ListsInside
JobsFit == \A j \in jobs : j.from \in Insides /\ j.to = Objects!Rest(args.from, j.from)
OnItsWay(o) ==
    \/ Copied(o)
    \/ \E j \in jobs : j.from = o
    \/ step \in {"pop", "list", "act"} /\ Waits(o)
AllOnTheirWay == \A o \in start : Objects!Below(args.from, o) => OnItsWay(o)

\* What is to be said of a copy that nobody disturbs, by its parts.
LEMMA CopiesOn ==
    ASSUME args.kind = "get", args.recursive, Objects!OneName, Alone, ~broken
    PROVE  CopyAll <=>
              /\ objects = [o \in start |-> o] /\ JobsFit
              /\ step # "begin" => Downloading /\ AllOnTheirWay
BY DEF CopyAll, Downloading, JobsFit, AllOnTheirWay, OnItsWay

\* What the first directory of a download lists is inside the source, too.
LEMMA EntryIsInsideToo ==
    ASSUME Objects!Assumptions, args.from \in Seq(Objects!NameSet), ListsInside, Objects!OneName,
           NEW k \in Listing
    PROVE  Objects!Entry(k) \in [path : Insides, isDir : BOOLEAN]
<1>0. k \in 1..2 * Len(Names) /\ Objects!Shown(Objects!Entry(k))
    BY DEF Listing
<1>1. CASE dir \in Insides
    BY <1>0, <1>1, EntryIsInside, BelowsAreInside
<1>2. CASE dir \notin Insides
    <2>1. /\ search \in Objects!NameSet /\ dir \in Seq(Objects!NameSet) /\ ~args.slash
          /\ args.from = Append(dir, search)
        BY <1>2 DEF ListsInside
    <2>2. PICK x \in Objects!NameSet, b \in BOOLEAN : Objects!Entry(k) = [path |-> Append(dir, x), isDir |-> b]
        BY <1>0, EntryIsBelow
    <2>3. Objects!Last(Append(dir, x)) = x /\ Objects!Last(args.from) = search
        BY <2>1, AppendProperties DEF Objects!Last
    <2>4. search = None \/ search = x \/ <<search, x>> \in DOMAIN Suffix
        BY <1>0, <2>2, <2>3 DEF Objects!Shown
    <2>5. search # None
        BY <2>1 DEF Objects!Assumptions
    <2>6. <<search, x>> \notin DOMAIN Suffix
        BY <2>1, <2>3 DEF Objects!OneName
    <2>7. Append(dir, x) = args.from
        BY <2>1, <2>4, <2>5, <2>6
    <2>8. args.from \in Insides
        BY DEF Insides, Inside
    <2>9. [path |-> args.from, isDir |-> b] \in [path : Insides, isDir : BOOLEAN]
        BY <2>8, Zenon
    <2> QED BY <2>2, <2>7, <2>9, Zenon
<1> QED BY <1>1, <1>2

\* A download changes no object, and what was copied stays.
LEMMA CopiesStay ==
    ASSUME args' = args, local' = local, NEW o
    PROVE  Copied(o)' <=> Copied(o)
BY DEF Copied, Objects!Rest

\* The begin of a download.
LEMMA DownloadBegins ==
    ASSUME Objects!Assumptions, BetweenOK, objects = [o \in start |-> o], Objects!BeginDownload,
           args' = args, start' = start
    PROVE  Downloading' /\ AllOnTheirWay' /\ jobs' = {}
<1>1. /\ args.kind = "get" /\ step = "begin" /\ entries = <<>> /\ page = 0 /\ search = None
      /\ dirs = <<>> /\ jobs = {} /\ args.from \in Seq(Objects!NameSet)
      /\ args.from = <<>> => args.slash
    BY DEF BetweenOK, Objects!BeginDownload, Objects!At
<1>2. /\ UNCHANGED <<objects, entries, page, dirs, jobs>> /\ step' = "list"
      /\ \/ args.slash /\ dir' = args.from /\ search' = search
         \/ /\ ~args.slash /\ dir' = Objects!Front(args.from)
            /\ search' = Objects!Last(args.from)
    BY DEF Objects!BeginDownload, Objects!Goto, Objects!world, Objects!service, Objects!download
<1>3. Insides' = Insides
    BY SameInside
<1>4. /\ dirs' \in Seq(Insides)
      /\ entries' \in Seq([path : Insides, isDir : BOOLEAN])
    BY <1>1, <1>2, EmptySeq
<1>5. \A o \in start : o \in DOMAIN objects' /\ o \in Seq(Objects!NameSet)
    BY <1>2 DEF BetweenOK, Objects!Assumptions
<1>6. ASSUME NEW o \in start, Unread(o)' PROVE OnItsWay(o)'
    BY <1>2, <1>6 DEF OnItsWay, Waits
<1>7. CASE args.slash /\ dir' = args.from /\ search' = search
    <2>1. args.from \in Insides
        BY <1>1 DEF Insides, Inside
    <2>2. ListsInside'
        BY <1>1, <1>3, <1>7, <2>1 DEF ListsInside
    <2>3. ASSUME NEW o \in start, Objects!Below(args.from, o) PROVE OnItsWay(o)'
        <3>1. PICK x \in Objects!NameSet : o = Append(args.from, x) \/ Objects!Below(Append(args.from, x), o)
            BY <1>1, <1>5, <2>3, EntryFor
        <3>2. /\ dir' \in Seq(Objects!NameSet) /\ search' \in {None, x} /\ page' = 0
              /\ o = Append(dir', x) \/ Objects!Below(Append(dir', x), o)
            BY <1>1, <1>2, <1>7, <3>1
        <3>3. Unread(o)'
            BY <1>5, <3>2, UnreadBegins
        <3> QED BY <1>6, <3>3
    <2>4. AllOnTheirWay'
        BY <2>3 DEF AllOnTheirWay, Objects!Below
    <2> QED BY <1>1, <1>2, <1>3, <1>4, <2>2, <2>4 DEF Downloading
<1>8. CASE ~args.slash /\ dir' = Objects!Front(args.from) /\ search' = Objects!Last(args.from)
    <2>1. /\ dir' \in Seq(Objects!NameSet) /\ search' \in Objects!NameSet
          /\ Append(dir', search') = args.from
        BY <1>1, <1>8, FrontAndLast
    <2>2. ListsInside'
        BY <1>8, <2>1 DEF ListsInside
    <2>3. ASSUME NEW o \in start, Objects!Below(args.from, o) PROVE OnItsWay(o)'
        <3>1. PICK x \in Objects!NameSet : x = search'
            BY <2>1
        <3>2. search' \in {None, x} /\ page' = 0 /\ Objects!Below(Append(dir', x), o)
            BY <1>1, <1>2, <2>1, <2>3, <3>1
        <3>3. Unread(o)'
            BY <1>5, <2>1, <3>2, UnreadBegins
        <3> QED BY <1>6, <3>3
    <2>4. AllOnTheirWay'
        BY <2>3 DEF AllOnTheirWay, Objects!Below
    <2> QED BY <1>1, <1>2, <1>3, <1>4, <2>2, <2>4 DEF Downloading
<1> QED BY <1>2, <1>7, <1>8

\* The walk of a download.
LEMMA DownloadWalks ==
    ASSUME Objects!Assumptions, BetweenOK, objects = [o \in start |-> o], Downloading,
           AllOnTheirWay, Objects!OneName, ~broken', reply' \in {"none", "ok"},
           args' = args, start' = start, args.kind = "get",
           Objects!Pop \/ Objects!ListPage \/ Objects!EndOfPage \/ Objects!PushDir
    PROVE  Downloading' /\ AllOnTheirWay' /\ jobs' = jobs /\ step' # "begin"
<1> DEFINE E == [path : Insides, isDir : BOOLEAN]
<1>1. Insides' = Insides /\ objects' = objects /\ local' = local /\ jobs' = jobs
    BY SameInside DEF Objects!Pop, Objects!ListPage, Objects!EndOfPage, Objects!PushDir,
         Objects!world, Objects!service, Objects!download
<1>2. \A o : Copied(o)' <=> Copied(o)
    BY <1>1, CopiesStay
<1>4. /\ dirs \in Seq(Insides) /\ entries \in Seq(E) /\ page \in Nat
      /\ args.from \in Seq(Objects!NameSet)
    BY DEF Downloading, BetweenOK
<1>5. dirs \in Seq(Seq(Objects!NameSet))
    BY <1>4, BelowsAreInside
<1>6. \A o \in start : o \in Seq(Objects!NameSet) /\ o \in DOMAIN objects
    BY DEF BetweenOK, Objects!Assumptions
<1>7. ASSUME \A o \in start : Waits(o) => step' \in {"pop", "list", "act"} /\ Waits(o)'
      PROVE  AllOnTheirWay'
    BY <1>1, <1>2, <1>7 DEF AllOnTheirWay, OnItsWay, Objects!Below
<1>8. CASE Objects!Pop
    <2>1. step = "pop" /\ entries = <<>>
        BY <1>8 DEF Objects!Pop, Objects!At, BetweenOK
    <2>2. ASSUME NEW o \in start, Waits(o) PROVE step' = "list" /\ Waits(o)'
        BY <1>5, <1>6, <1>8, <2>1, <2>2, PopWaits
    <2>3. Downloading' /\ step' # "begin"
        <3>1. CASE dirs = <<>>
            BY <1>1, <1>4, <1>8, <2>1, <3>1 DEF Objects!Pop, Objects!Goto, Downloading
        <3>2. CASE dirs # <<>>
            BY <1>1, <1>4, <1>8, <3>2, PopInside, EmptySeq DEF Downloading, ListsInside
        <3> QED BY <3>1, <3>2
    <2> QED BY <1>1, <1>7, <2>2, <2>3
<1>9. CASE Objects!ListPage
    <2>1. /\ UNCHANGED <<dirs, dir, search>> /\ step = "list" /\ step' \in {"list", "act"}
          /\ reply' = "none"
          /\ \E q \in Objects!InOrder(Listing) : entries' = entries \o Objects!Page(q)
        BY <1>9 DEF Objects!ListPage, Objects!At, Objects!Goto, Objects!Stop, Listing
    <2>2. Listing \subseteq 1..2 * Len(Names)
        BY DEF Listing
    <2>3. ListsInside
        BY <2>1 DEF Downloading
    <2>4. \A k \in Listing : Objects!Entry(k) \in E
        BY <1>4, <2>3, EntryIsInsideToo
    <2>5. \A q \in Objects!InOrder(Listing) : Objects!Page(q) \in Seq(E)
        BY <1>4, <2>2, <2>4, PageIsOf
    <2>6. entries' \in Seq(E)
        BY <1>4, <2>1, <2>5, ConcatProperties
    <2>7. Downloading'
        BY <1>1, <1>4, <2>1, <2>3, <2>6 DEF Downloading, ListsInside
    <2>8. ASSUME NEW o \in start, Waits(o) PROVE Waits(o)'
        BY <1>4, <1>9, <2>1, <2>8, ListWaits
    <2> QED BY <1>1, <1>7, <2>1, <2>7, <2>8
<1>10. CASE Objects!EndOfPage
    <2>1. /\ UNCHANGED <<dirs, dir, search, entries>> /\ step = "act" /\ step' \in {"list", "pop"}
        BY <1>10 DEF Objects!EndOfPage, Objects!At, Objects!Goto, Objects!walk
    <2>2. Downloading'
        BY <1>1, <2>1 DEF Downloading, ListsInside
    <2>3. ASSUME NEW o \in start, Waits(o) PROVE Waits(o)'
        BY <1>10, <2>3, EndWaits
    <2> QED BY <1>1, <1>7, <2>1, <2>2, <2>3
<1>11. CASE Objects!PushDir
    <2>1. /\ dir' = dir /\ search' = search /\ step' = step /\ step = "act"
          /\ entries # <<>> /\ dirs' = Append(dirs, Head(entries).path) /\ entries' = Tail(entries)
        BY <1>11 DEF Objects!PushDir, Objects!At
    <2>2. Head(entries) \in E /\ Tail(entries) \in Seq(E)
        BY <1>4, <2>1, HeadTailProperties
    <2>3. Head(entries).path \in Insides
        BY <2>2
    <2>4. dirs' \in Seq(Insides)
        BY <1>4, <2>1, <2>3, AppendProperties
    <2>5. Downloading'
        BY <1>1, <2>1, <2>2, <2>4 DEF Downloading, ListsInside
    <2>6. ASSUME NEW o \in start, Waits(o) PROVE Waits(o)'
        BY <1>4, <1>11, <2>6, PushWaits
    <2> QED BY <1>1, <1>7, <2>1, <2>5, <2>6
<1> QED BY <1>8, <1>9, <1>10, <1>11

\* An entry that names an object becomes a job.
LEMMA PutCopies ==
    ASSUME BetweenOK, objects = [o \in start |-> o], Downloading, JobsFit, AllOnTheirWay,
           Objects!OneName, ~broken, args' = args, start' = start, Objects!PutDownload
    PROVE  Downloading' /\ JobsFit' /\ AllOnTheirWay' /\ step' # "begin"
<1> DEFINE E == [path : Insides, isDir : BOOLEAN]
<1>0. PICK s, j : s = Head(entries).path /\ j = [from |-> s, to |-> Objects!LocalPath(s)]
    OBVIOUS
<1>1. /\ args.kind = "get" /\ entries # <<>> /\ ~Head(entries).isDir /\ entries' = Tail(entries)
      /\ step = "act" /\ step' = "act" /\ UNCHANGED <<objects, dirs, dir, search, page, full, local>>
      /\ jobs' = jobs \union {j}
    BY <1>0 DEF Objects!PutDownload, Objects!At, Objects!Goto, Objects!world, Objects!service
<1>2. Insides' = Insides
    BY SameInside
<1>3. dirs \in Seq(Insides) /\ entries \in Seq(E)
    BY DEF Downloading
<1>4. Head(entries) \in E /\ Tail(entries) \in Seq(E)
    BY <1>1, <1>3, HeadTailProperties
<1>5. Downloading'
    BY <1>1, <1>2, <1>3, <1>4 DEF Downloading, ListsInside
<1>6. j.from = s /\ s \in Insides /\ j.to = Objects!Rest(args.from, s)
    <2>1. s \in Insides
        BY <1>0, <1>4
    <2>2. Objects!LocalPath(s) = Objects!Rest(args.from, s)
        BY <1>1, <2>1, LocalIsRest
    <2> QED BY <1>0, <2>1, <2>2
<1>7. JobsFit'
    BY <1>1, <1>2, <1>6 DEF JobsFit, Objects!Rest
<1>8. ASSUME NEW o \in start, OnItsWay(o) PROVE OnItsWay(o)'
    <2>1. Copied(o)' <=> Copied(o)
        BY <1>1, CopiesStay
    <2>2. ASSUME Waits(o) PROVE Waits(o)' \/ o = s
        <3>1. Unread(o)' <=> Unread(o)
            BY <1>1, SameUnread
        <3>2. Waits(o)' \/ Tells(Head(entries), o)
            BY <1>1, <1>3, <2>2, <3>1, TailWaits
        <3> QED BY <1>0, <1>1, <3>2 DEF Tells
    <2> QED BY <1>1, <1>6, <1>8, <2>1, <2>2 DEF OnItsWay
<1>9. AllOnTheirWay'
    BY <1>8 DEF AllOnTheirWay, Objects!Below
<1> QED BY <1>1, <1>5, <1>7, <1>9

\* A job copies its object, and destroys no copy of another.
LEMMA JobCopies ==
    ASSUME BetweenOK, args.kind = "get", objects = [o \in start |-> o], JobsFit, Objects!JobEnds,
           start \subseteq Seq(Objects!NameSet),
           ~broken', args' = args, start' = start, step # "begin" => Downloading /\ AllOnTheirWay
    PROVE  JobsFit' /\ objects' = objects /\ (step' # "begin" => Downloading' /\ AllOnTheirWay')
<1>1. PICK j \in jobs :
         /\ jobs' = jobs \ {j} /\ j.from \in DOMAIN objects
         /\ local' = Objects!With(local, j.to, objects[j.from])
    BY DEF Objects!JobEnds
<1>2. UNCHANGED <<objects, step, dirs, entries, dir, search, page, full>>
    BY DEF Objects!JobEnds, Objects!world, Objects!service, Objects!walk
<1>3. Insides' = Insides
    BY SameInside
<1>4. JobsFit'
    BY <1>1, <1>3 DEF JobsFit, Objects!Rest
<1>5. j.from \in Insides /\ j.to = Objects!Rest(args.from, j.from) /\ objects[j.from] = j.from
    BY <1>1 DEF JobsFit
<1>6. /\ j.to \in DOMAIN local' /\ local'[j.to] = j.from
      /\ \A t \in DOMAIN local : t # j.to => t \in DOMAIN local' /\ local'[t] = local[t]
    BY <1>1, <1>5 DEF Objects!With
<1>7. ASSUME NEW o \in start, Objects!Below(args.from, o), OnItsWay(o) PROVE OnItsWay(o)'
    <2>1. o \in Insides
        BY <1>7 DEF Insides, Inside
    <2>2. CASE Copied(o)
        <3>1. CASE Objects!Rest(args.from, o) = j.to
            <4>1. o = j.from
                BY <1>5, <2>1, <3>1, RestIsOne DEF BetweenOK
            <4> QED BY <1>6, <3>1, <4>1 DEF OnItsWay, Copied, Objects!Rest
        <3>2. CASE Objects!Rest(args.from, o) # j.to
            BY <1>6, <2>2, <3>2 DEF OnItsWay, Copied, Objects!Rest
        <3> QED BY <3>1, <3>2
    <2>3. CASE o = j.from
        BY <1>5, <1>6, <2>3 DEF OnItsWay, Copied, Objects!Rest
    <2>4. CASE \E x \in jobs : x.from = o /\ x # j
        BY <1>1, <2>4 DEF OnItsWay
    <2>5. CASE step \in {"pop", "list", "act"} /\ Waits(o)
        <3>1. Waits(o)'
            BY <1>2, <2>5, SameWaits
        <3> QED BY <1>2, <2>5, <3>1 DEF OnItsWay
    <2> QED BY <1>7, <2>2, <2>3, <2>4, <2>5 DEF OnItsWay
<1>8. AllOnTheirWay => AllOnTheirWay'
    BY <1>7 DEF AllOnTheirWay, Objects!Below
<1>9. Downloading => Downloading'
    BY <1>2, <1>3 DEF Downloading, ListsInside
<1> QED BY <1>2, <1>4, <1>8, <1>9

\* cp -r: no step forgets an object of the directory.
LEMMA CopyStep ==
    ASSUME Objects!Assumptions, BetweenOK, CopyAll, Objects!Next
    PROVE  CopyAll'
<1>0. SUFFICES ASSUME args'.kind = "get", args'.recursive, Objects!OneName', Alone', ~broken'
               PROVE  CopyAll'
    BY DEF CopyAll
<1>1. /\ args' = args /\ args.kind = "get" /\ args.recursive /\ start' = start
      /\ touched = {} /\ touched' = {} /\ reply' \in {"none", "ok"} /\ ~Objects!Other
      /\ Objects!JobEnds \/ reply = "none"
    BY <1>0, AloneBefore DEF Alone
<1>2. Objects!OneName
    BY <1>0, <1>1 DEF Objects!OneName, Objects!Last
<1>3. ~broken
    BY <1>0 DEF Objects!Next, Objects!BeginRemove, Objects!RemoveNamed, Objects!NextPrefix,
         Objects!MoveNamed, Objects!DownloadObject, Objects!BeginDownload, Objects!Pop,
         Objects!ListPage, Objects!RemoveFiles, Objects!DeleteBucket, Objects!EndOfPage,
         Objects!PushDir, Objects!MoveFile, Objects!PutDownload, Objects!JobEnds,
         Objects!Collect, Objects!Other, Objects!download
<1>4. /\ Alone
      /\ \/ Objects!BeginDownload
         \/ Objects!Pop \/ Objects!ListPage \/ Objects!EndOfPage \/ Objects!PushDir
         \/ Objects!PutDownload
         \/ Objects!JobEnds
         \/ Objects!Collect
    <2>1. Alone
        BY <1>1 DEF Alone, Objects!JobEnds
    <2> QED BY <1>1, <2>1 DEF Objects!Next, Objects!BeginRemove, Objects!RemoveNamed,
             Objects!NextPrefix, Objects!MoveNamed, Objects!DownloadObject,
             Objects!RemoveFiles, Objects!DeleteBucket, Objects!MoveFile, Objects!At
<1>5. /\ objects = [o \in start |-> o] /\ JobsFit
      /\ step # "begin" => Downloading /\ AllOnTheirWay
    BY <1>1, <1>2, <1>3, <1>4, CopiesOn
<1>6. SUFFICES /\ objects' = objects /\ JobsFit'
               /\ step' # "begin" => Downloading' /\ AllOnTheirWay'
    BY <1>0, <1>1, <1>5 DEF CopyAll, Downloading, JobsFit, AllOnTheirWay, OnItsWay
<1>7. CASE Objects!BeginDownload
    <2>1. Downloading' /\ AllOnTheirWay' /\ jobs' = {}
        BY <1>1, <1>5, <1>7, DownloadBegins
    <2>2. objects' = objects
        BY <1>7 DEF Objects!BeginDownload, Objects!world, Objects!service
    <2>3. JobsFit'
        BY <2>1 DEF JobsFit
    <2> QED BY <2>1, <2>2, <2>3
<1>8. CASE Objects!Pop \/ Objects!ListPage \/ Objects!EndOfPage \/ Objects!PushDir
    <2>1. step # "begin" /\ objects' = objects
        BY <1>8 DEF Objects!Pop, Objects!ListPage, Objects!EndOfPage, Objects!PushDir, Objects!At,
             Objects!world, Objects!service
    <2>2. Downloading' /\ AllOnTheirWay' /\ jobs' = jobs
        BY <1>0, <1>1, <1>2, <1>5, <1>8, <2>1, DownloadWalks
    <2>3. Insides' = Insides
        BY <1>1, SameInside
    <2>4. JobsFit'
        BY <1>1, <1>5, <2>2, <2>3 DEF JobsFit, Objects!Rest
    <2> QED BY <2>1, <2>2, <2>4
<1>9. CASE Objects!PutDownload
    <2>1. step # "begin" /\ objects' = objects
        BY <1>9 DEF Objects!PutDownload, Objects!At, Objects!world, Objects!service
    <2> QED BY <1>1, <1>2, <1>3, <1>5, <1>9, <2>1, PutCopies
<1>10. CASE Objects!JobEnds
    <2>1. start \subseteq Seq(Objects!NameSet)
        BY DEF BetweenOK, Objects!Assumptions
    <2> QED BY <1>0, <1>1, <1>5, <1>10, <2>1, JobCopies
<1>11. CASE Objects!Collect
    <2>1. /\ UNCHANGED <<objects, local, dirs, dir, search, entries, jobs, step, full, page>>
          /\ step = "collect" /\ jobs = {}
        BY <1>11 DEF Objects!Collect, Objects!At, Objects!Stop, Objects!world, Objects!service,
             Objects!walk, Objects!download
    <2>2. Insides' = Insides /\ \A o : Copied(o)' <=> Copied(o)
        BY <1>1, <2>1, SameInside, CopiesStay
    <2>3. Downloading'
        BY <1>5, <2>1, <2>2 DEF Downloading
    <2>4. AllOnTheirWay'
        BY <1>1, <1>5, <2>1, <2>2 DEF AllOnTheirWay, OnItsWay, Objects!Below
    <2>5. JobsFit'
        BY <2>1 DEF JobsFit
    <2> QED BY <2>1, <2>3, <2>4, <2>5
<1> QED BY <1>4, <1>7, <1>8, <1>9, <1>10, <1>11

\* A command begins with nothing done.
LEMMA AllDoneInit == ASSUME Objects!Assumptions, Objects!Init PROVE AllDone
<1>1. /\ start \subseteq Initial /\ objects = [o \in start |-> o] /\ step = "begin"
      /\ reply = "none" /\ page = 0 /\ jobs = {} /\ dirs = <<>> /\ search = None /\ entries = <<>>
      /\ args \in Objects!Commands
      /\ args.kind = "get" => (args.from = <<>> => args.slash)
    BY DEF Objects!Init
<1>2. Arguments \subseteq Seq(Objects!NameSet)
    BY DEF Objects!Assumptions
<1>3. args.kind = "mv" => args.to \in Seq(Objects!NameSet)
    BY <1>1, <1>2 DEF Objects!Commands
<1>4. args.kind = "get" => args.from \in Seq(Objects!NameSet)
    BY <1>1, <1>2 DEF Objects!Commands
<1>5. BetweenOK
    BY <1>1, <1>3, <1>4 DEF BetweenOK
<1>6. RemoveAsks /\ CopyEnds
    BY <1>1 DEF RemoveAsks, CopyEnds
<1>7. RemoveAll
    BY <1>1 DEF RemoveAll, Begun
<1>8. MoveAll
    BY <1>1 DEF MoveAll
<1>9. CopyAll
    BY <1>1 DEF CopyAll
<1> QED BY <1>5, <1>6, <1>7, <1>8, <1>9 DEF AllDone

\* What nothing changes.
LEMMA AllDoneStutters == ASSUME AllDone, UNCHANGED Objects!vars PROVE AllDone'
<1>1. /\ UNCHANGED <<objects, gone, start, touched, args, step, prefixes, prefix>>
      /\ UNCHANGED <<dirs, dir, search, page, entries, full, jobs, broken, local, reply>>
    BY DEF Objects!vars, Objects!world, Objects!service, Objects!fixed, Objects!walk,
         Objects!download
<1>2. \A o : Waits(o)' <=> Waits(o)
    BY <1>1, SameWaits
<1>3. Insides' = Insides /\ Belows' = Belows
    BY <1>1, SameInside
<1>4. Alone' = Alone /\ Begun' = Begun /\ Objects!Given' = Objects!Given
    BY <1>1 DEF Alone, Begun, Objects!Given
<1>5. BetweenOK'
    BY <1>1 DEF AllDone, BetweenOK
<1>6. RemoveAsks' /\ CopyEnds'
    BY <1>1, <1>4 DEF AllDone, RemoveAsks, CopyEnds
<1>7. RemoveAll'
    <2>1. \A p : (Cleared(p)' <=> Cleared(p)) /\ (InWork(p)' <=> InWork(p))
        BY <1>1, <1>2 DEF Cleared, InWork
    <2>2. RemoveAll
        BY DEF AllDone
    <2> QED BY <1>1, <1>4, <2>1, <2>2 DEF RemoveAll
<1>8. MoveAll'
    <2>1. \A o : (Arrived(o)' <=> Arrived(o)) /\ (Objects!InPlace(o)' <=> Objects!InPlace(o))
        BY <1>1 DEF Arrived, Objects!Target, Objects!Rest, Objects!InPlace
    <2>2. Objects!Apart' <=> Objects!Apart
        BY <1>1 DEF Objects!Apart, Objects!Below, Objects!Target, Objects!Rest
    <2>3. OnTheWay => OnTheWay'
        BY <1>1, <1>2, <2>1 DEF OnTheWay
    <2>4. Walking => Walking'
        BY <1>1, <1>3 DEF Walking
    <2>5. OnlyInPlace => OnlyInPlace'
        BY <1>1 DEF OnlyInPlace
    <2>6. SUFFICES ASSUME args.kind = "mv", Alone, Objects!Apart PROVE MoveAll'
        BY <1>1, <1>4, <2>2 DEF MoveAll
    <2>7. /\ step = "begin" /\ reply = "ok" => args.from \in start /\ Arrived(args.from)
          /\ step # "begin" => args.from \notin start /\ Walking /\ OnlyInPlace /\ OnTheWay
        BY <2>6, MovesOn DEF AllDone
    <2>8. PICK f : f = args.from
        OBVIOUS
    <2>9. (Arrived(f)' <=> Arrived(f)) /\ (args'.from = f)
        BY <1>1, <2>1, <2>8
    <2>10. SUFFICES /\ step' = "begin" /\ reply' = "ok" => f \in start /\ Arrived(f)'
                    /\ step' # "begin" =>
                          f \notin start /\ Walking' /\ OnlyInPlace' /\ OnTheWay'
        BY <1>1, <2>9 DEF MoveAll, Walking, OnlyInPlace, OnTheWay
    <2> QED BY <1>1, <2>3, <2>4, <2>5, <2>7, <2>8, <2>9
<1>9. CopyAll'
    <2>1. \A o : Copied(o)' <=> Copied(o)
        BY <1>1, CopiesStay
    <2>2. Objects!OneName' <=> Objects!OneName
        BY <1>1 DEF Objects!OneName, Objects!Last
    <2>3. AllOnTheirWay => AllOnTheirWay'
        BY <1>1, <1>2, <2>1 DEF AllOnTheirWay, OnItsWay
    <2>4. Downloading => Downloading'
        BY <1>1, <1>3 DEF Downloading, ListsInside
    <2>5. JobsFit => JobsFit'
        BY <1>1, <1>3 DEF JobsFit
    <2>6. SUFFICES ASSUME args.kind = "get", args.recursive, Objects!OneName, Alone, ~broken
                   PROVE  CopyAll'
        BY <1>1, <1>4, <2>2 DEF CopyAll
    <2>7. /\ objects = [o \in start |-> o] /\ JobsFit
          /\ step # "begin" => Downloading /\ AllOnTheirWay
        BY <2>6, CopiesOn DEF AllDone
    <2>8. /\ objects' = [o \in start' |-> o] /\ JobsFit'
          /\ step' # "begin" => Downloading' /\ AllOnTheirWay'
        BY <1>1, <2>3, <2>4, <2>5, <2>7
    <2> QED BY <2>8 DEF CopyAll, Downloading, JobsFit, AllOnTheirWay, OnItsWay
<1> QED BY <1>5, <1>6, <1>7, <1>8, <1>9 DEF AllDone

\* No step forgets what is to be done.
LEMMA AllDoneNext ==
    ASSUME Objects!Assumptions, ObjInv, AllDone, [Objects!Next]_(Objects!vars)
    PROVE  AllDone'
<1>1. CASE UNCHANGED Objects!vars
    BY <1>1, AllDoneStutters
<1>2. CASE Objects!Next
    <2>1. BetweenOK'
        BY <1>2, BetweenStep DEF AllDone
    <2>2. RemoveAsks' /\ CopyEnds'
        BY <1>2, AsksStep, EndsStep DEF AllDone
    <2>3. RemoveAll'
        BY <1>2, RemoveStep DEF AllDone, ObjInv
    <2>4. MoveAll'
        BY <1>2, MoveStep DEF AllDone, ObjInv
    <2>5. CopyAll'
        BY <1>2, CopyStep DEF AllDone
    <2> QED BY <2>1, <2>2, <2>3, <2>4, <2>5 DEF AllDone
<1> QED BY <1>1, <1>2

\* A success of rm, mv or cp -r has done the whole directory.
LEMMA AllDoneSays == ASSUME Objects!Assumptions, AllDone PROVE Objects!SuccessMeansAll
<1>0. SUFFICES ASSUME reply = "ok", touched = {}
               PROVE  /\ args.kind = "rm" => \A p \in Objects!Given :
                            /\ p \notin DOMAIN objects
                            /\ args.recursive /\ p \notin start =>
                                  \A o \in DOMAIN objects : ~Objects!Below(p, o)
                            /\ p = <<>> => gone
                      /\ args.kind = "mv" /\ Objects!Apart =>
                            \A o \in start :
                               o = args.from \/ (args.from \notin start /\ Objects!Below(args.from, o)) =>
                                  Objects!Target(o) \in DOMAIN objects /\ objects[Objects!Target(o)] = o
                      /\ args.kind = "get" /\ args.recursive /\ Objects!OneName =>
                            \A o \in start : Objects!Below(args.from, o) =>
                               /\ Objects!Rest(args.from, o) \in DOMAIN local
                               /\ local[Objects!Rest(args.from, o)] = o
    BY DEF Objects!SuccessMeansAll
<1>1. Alone /\ Begun
    BY <1>0 DEF Alone, Begun
<1>2. ASSUME args.kind = "rm", NEW p \in Objects!Given
      PROVE  /\ p \notin DOMAIN objects
             /\ args.recursive /\ p \notin start => \A o \in DOMAIN objects : ~Objects!Below(p, o)
             /\ p = <<>> => gone
    <2>1. /\ p \notin DOMAIN objects
          /\ args.recursive /\ p \notin start => Cleared(p)
        BY <1>0, <1>1, <1>2 DEF AllDone, RemoveAll
    <2>2. ASSUME p = <<>> PROVE args.recursive /\ p \notin start
        <3>1. step # "begin"
            BY <1>0, <1>2 DEF AllDone, RemoveAsks
        <3>2. <<>> \notin start
            BY DEF AllDone, BetweenOK, Objects!Assumptions
        <3> QED BY <1>2, <2>2, <3>1, <3>2 DEF AllDone, RemoveAsks
    <2> QED BY <2>1, <2>2 DEF Cleared
<1>3. ASSUME args.kind = "mv", Objects!Apart, NEW o \in start,
             o = args.from \/ (args.from \notin start /\ Objects!Below(args.from, o))
      PROVE  Arrived(o)
    <2>1. /\ step = "begin" /\ reply = "ok" => args.from \in start /\ Arrived(args.from)
          /\ step # "begin" => args.from \notin start /\ OnTheWay
        BY <1>1, <1>3, MovesOn DEF AllDone
    <2> QED BY <1>0, <1>3, <2>1 DEF OnTheWay
<1>4. ASSUME args.kind = "get", args.recursive, Objects!OneName, NEW o \in start,
             Objects!Below(args.from, o)
      PROVE  Copied(o)
    <2>1. step = "collect" /\ jobs = {} /\ ~broken
        BY <1>0, <1>4 DEF AllDone, CopyEnds
    <2>2. AllOnTheirWay
        BY <1>1, <1>4, <2>1, CopiesOn DEF AllDone
    <2> QED BY <1>4, <2>1, <2>2 DEF AllOnTheirWay, OnItsWay
<1> QED BY <1>2, <1>3, <1>4 DEF Arrived, Copied
=============================================================================
