------------------------------ MODULE SqlTokenizer ------------------------------
(***************************************************************************)
(* pkg/parser: how a migration file is split into the statements that are  *)
(* run one by one.  The tokenizer reads the script once, rune by rune, and *)
(* cuts it at a ";" that it does not believe to be in a comment, a quote, a*)
(* group in parentheses or the body of a function.                         *)
(*                                                                         *)
(* A symbol is a rune, or one of the words BEGIN, ATOMIC, END and CASE in  *)
(* any case, which the tokenizer sees at their last letter; "a" stands for *)
(* the letters, digits and "_" of one byte, "wide" for a letter of several *)
(* bytes, "space" for what is none of these.  The separator and the double *)
(* quote are spelled out: the provers cannot read them as strings.         *)
(***************************************************************************)
EXTENDS SequencesExt, Integers

CONSTANTS Alphabets,   \* the sets of symbols scripts are made of
          MaxLen       \* bounds the length of a script

Symbols == {"$", "'", "doublequote", "-", "/", "*", "\\", "semicolon", "(", ")", "\n", "space",
            "a", "wide", "BEGIN", "ATOMIC", "END", "CASE"}

Assumptions ==
    /\ MaxLen \in Nat
    /\ UNION Alphabets \subseteq Symbols

VARIABLES alphabet,   \* of this script
          text,       \* what was read
          start,      \* where the statement that is being read begins
          state,      \* the state of the tokenizer
          cuts        \* where statements were emitted

vars == <<alphabet, text, start, state, cuts>>

Quotes == {"'", "doublequote"}
Words == {"BEGIN", "ATOMIC", "END", "CASE"}
Identifier == {"a", "wide", "$"} \union Words
Invalid == "invalid rune"

-----------------------------------------------------------------------------
(* The states.  That of an AtomicState holds the one that goes on inside,  *)
(* so a state is a sequence: its groups from the outside in, and the       *)
(* innermost state, which is no group.  Emit is Go's nil.                  *)

Ready == <<[kind |-> "ready"]>>
Comment == <<[kind |-> "comment"]>>
Escape == <<[kind |-> "escape"]>>
Block(depth) == <<[kind |-> "block", depth |-> depth]>>
Quote(delimiter, escape) == <<[kind |-> "quote", delimiter |-> delimiter, escape |-> escape]>>
Dollar(delimiter) == <<[kind |-> "dollar", delimiter |-> delimiter]>>
Tag(offset) == <<[kind |-> "tag", offset |-> offset]>>
Atomic(delimiter) == <<[kind |-> "atomic", delimiter |-> delimiter]>>
Emit == <<>>

EndsWith(data, window) == IsSuffix(window, data)

\* The words BEGIN and ATOMIC, both whole, with white space between.
IsBeginAtomic(data) ==
    /\ EndsWith(data, <<"ATOMIC">>)
    /\ \E b \in 1..(Len(data) - 2) :
          /\ data[b] = "BEGIN" /\ (b > 1 => data[b - 1] \notin Identifier)
          /\ \A k \in (b + 1)..(Len(data) - 1) : data[k] \in {"space", "\n"}

FromReady(r, data) ==
    CASE r = "$"         -> Tag(Len(data))
      [] r \in Quotes    -> Quote(r, FALSE)
      [] r = "-"         -> Comment
      [] r = "/"         -> Block(0)
      [] r = "\\"        -> Escape
      [] r = "semicolon" -> Emit
      [] r = "("         -> Atomic(<<")">>) \o Ready
      [] r = "ATOMIC" /\ IsBeginAtomic(data) -> Atomic(<<"END">>) \o Ready
      [] OTHER           -> Ready

FromBlock(s, r, data) ==
    IF EndsWith(data, <<"/", "*">>) THEN Block(s.depth + 1)
    ELSE IF s.depth = 0 THEN FromReady(r, data)
    ELSE IF ~EndsWith(data, <<"*", "/">>) THEN <<s>>
    ELSE IF s.depth = 1 THEN Ready ELSE Block(s.depth - 1)

FromQuote(s, r, data) ==
    IF ~s.escape THEN Quote(s.delimiter, r = s.delimiter)
    ELSE IF r = s.delimiter THEN Quote(s.delimiter, FALSE) ELSE FromReady(r, data)

FromTag(s, r, data) ==
    CASE r = "$"                      -> Dollar(SubSeq(data, s.offset, Len(data)))
      [] r \in {"a", "wide"} \union Words -> <<s>>
      [] OTHER                        -> FromReady(r, data)

FromInnermost(s, r, data) ==
    CASE s.kind = "ready"   -> FromReady(r, data)
      [] s.kind = "comment" -> IF r = "-" THEN Dollar(<<"\n">>) ELSE FromReady(r, data)
      [] s.kind = "block"   -> FromBlock(s, r, data)
      [] s.kind = "quote"   -> FromQuote(s, r, data)
      [] s.kind = "dollar"  -> IF EndsWith(data, s.delimiter) THEN Ready ELSE <<s>>
      [] s.kind = "tag"     -> FromTag(s, r, data)
      [] s.kind = "escape"  -> Ready

\* Mutant: a delimiter in a quote or a comment closes the group, too.
NextStateAnywhere(s, r, data) ==
    LET from[k \in 1..Len(s)] ==
            IF k = Len(s) THEN FromInnermost(s[k], r, data)
            ELSE LET inner == from[k + 1]
                     prev == IF inner = Emit THEN SubSeq(s, k + 1, Len(s)) ELSE inner
                 IN  IF EndsWith(data, s[k].delimiter) THEN Ready
                     ELSE <<s[k]>> \o prev
    IN  from[1]

\* A group keeps its state when a statement ends in it, and is left when it is
\* ready and has read its delimiter: so are all the groups around it that have
\* the same one.
NextState(s, r, data) ==
    LET from[k \in 1..Len(s)] ==
            IF k = Len(s) THEN FromInnermost(s[k], r, data)
            ELSE LET inner == from[k + 1]
                     prev == IF inner = Emit THEN SubSeq(s, k + 1, Len(s)) ELSE inner
                 IN  IF prev = Ready /\ EndsWith(data, s[k].delimiter) THEN Ready
                     ELSE <<s[k]>> \o prev
    IN  from[1]

-----------------------------------------------------------------------------
(* The tokenizer *)

Init ==
    /\ alphabet \in Alphabets
    /\ text = <<>> /\ start = 0 /\ state = Ready /\ cuts = {}

\* ScanToken goes on by one byte, whatever the width of the rune it has read:
\* the rest of a long one is read as invalid.  The buffer may be refilled
\* between any two runes; state and position are kept.
Scan(r) ==
    LET data == SubSeq(text, start + 1, Len(text)) \o <<r>>
        read == NextState(state, r, data)
        next == IF r = "wide" THEN NextState(read, Invalid, data) ELSE read
    IN  /\ Len(text) < MaxLen
        /\ text' = Append(text, r)
        /\ IF next = Emit
           THEN /\ cuts' = cuts \union {Len(text')} /\ start' = Len(text') /\ state' = Ready
           ELSE state' = next /\ UNCHANGED <<start, cuts>>
        /\ UNCHANGED alphabet

Next == \E r \in alphabet : Scan(r)

Spec == Init /\ [][Next]_vars

-----------------------------------------------------------------------------
(* Where statements end, by the lexical rules of PostgreSQL *)

\* The first place of a set, or the end of the script.
First(t, places) == IF places = {} THEN Len(t) ELSE Min(places)

Has(t, i, s) == i + Len(s) - 1 <= Len(t) /\ SubSeq(t, i, i + Len(s) - 1) = s

\* The tag of the dollar quote that opens at a place, or none.
TagAt(t, i) ==
    LET ends == {j \in (i + 1)..Len(t) : t[j] = "$"}
        end == First(t, ends)
    IN  IF t[i] = "$" /\ ends # {} /\ \A k \in (i + 1)..(end - 1) : t[k] \in {"a"} \union Words
        THEN SubSeq(t, i, end) ELSE <<>>

\* Where the lexeme that begins at a place ends.
LexemeEnd(t, i) ==
    LET tag == TagAt(t, i)
        nested(j) == Cardinality({k \in i..(j - 1) : Has(t, k, <<"/", "*">>)})
                        - Cardinality({k \in i..(j - 1) : Has(t, k, <<"*", "/">>)})
    IN  CASE t[i] \in Quotes          -> First(t, {j \in (i + 1)..Len(t) : t[j] = t[i]})
          [] t[i] = "\\"             -> First(t, {i + 1} \cap 1..Len(t))
          [] Has(t, i, <<"-", "-">>) -> First(t, {j \in (i + 2)..Len(t) : t[j] = "\n"})
          [] Has(t, i, <<"/", "*">>) ->
                First(t, {j \in (i + 3)..Len(t) : Has(t, j - 1, <<"*", "/">>) /\ nested(j) = 0})
          [] tag # <<>> ->
                First(t, {j \in (i + 2 * Len(tag) - 1)..Len(t) : Has(t, j - Len(tag) + 1, tag)})
          [] OTHER -> i

\* The places at which a lexeme begins.
Lexemes(t) ==
    LET begins[j \in 1..Len(t)] ==
            j = 1 \/ \E i \in 1..(j - 1) : begins[i] /\ LexemeEnd(t, i) = j - 1
    IN  {j \in 1..Len(t) : begins[j]}

\* A word that stands alone.
Whole(t, i) ==
    /\ i > 1 => t[i - 1] \notin Identifier
    /\ i < Len(t) => t[i + 1] \notin Identifier

\* BEGIN ATOMIC, with white space between its words, opens the body of a function.
BeginsBody(t, i, lexemes) ==
    /\ t[i] = "ATOMIC" /\ Whole(t, i)
    /\ \E b \in lexemes : /\ b < i /\ t[b] = "BEGIN" /\ Whole(t, b)
                         /\ \A k \in (b + 1)..(i - 1) : t[k] \in {"space", "\n"}

\* The groups that are open after a lexeme of one symbol, from the inside out.
Grouped(t, i, lexemes, groups) ==
    CASE t[i] = "(" -> <<")">> \o groups
      [] BeginsBody(t, i, lexemes) -> <<"END">> \o groups
      [] t[i] = "CASE" /\ Whole(t, i) /\ Contains(groups, "END") -> <<"END">> \o groups
      [] groups # <<>> /\ t[i] = Head(groups) /\ (t[i] = "END" => Whole(t, i)) -> Tail(groups)
      [] OTHER -> groups

\* The groups that are open after so many symbols.
Groups(t, lexemes) ==
    LET groups[i \in 0..Len(t)] ==
            IF i = 0 THEN <<>>
            ELSE IF i \in lexemes THEN Grouped(t, i, lexemes, groups[i - 1]) ELSE groups[i - 1]
    IN  groups

\* The separators that are lexemes outside all groups.
StatementEnds(t) ==
    LET lexemes == Lexemes(t)
        groups == Groups(t, lexemes)
    IN  {i \in lexemes : t[i] = "semicolon" /\ groups[i - 1] = <<>>}

\* What the tokenizer does not read by these rules, beside nested groups, tags
\* with letters of several bytes, and quotes in which "\\" escapes: a delimiter
\* that shares symbols with the one before; a tag or a keyword that is part of a
\* name; the END of a CASE in the body of a function; a "-" or a tag that ends at
\* a ";" in a group, and is taken up again behind it; an escaped delimiter of the
\* group; ATOMIC where the BEGIN before it is in a comment, or escaped.
Misread(t) ==
    LET lexemes == Lexemes(t)
        groups == Groups(t, lexemes)
        between(i, j, symbols) == \A k \in (i + 1)..(j - 1) : t[k] \in symbols
        tag(i) == TagAt(t, i)
    IN  \E i \in lexemes :
           \/ Has(t, i, <<"/", "*", "/">>)
           \/ \E j \in (i + 1)..(LexemeEnd(t, i) - 2) :
                 /\ Has(t, i, <<"/", "*">>)
                 /\ Has(t, j, <<"/", "*", "/">>) \/ Has(t, j, <<"*", "/", "*">>)
           \/ tag(i) # <<>> /\ Has(t, i + Len(tag(i)), Tail(tag(i)))
           \/ tag(i) # <<>> /\ i - 1 \in lexemes /\ t[i - 1] \in Identifier
           \/ t[i] \in {"ATOMIC", "END"} /\ ~Whole(t, i)
           \/ t[i] = "CASE" /\ Whole(t, i) /\ Contains(groups[i - 1], "END")
           \/ \E j \in (i + 2)..Len(t) :
                 groups[i] # <<>> /\ t[i] = "-" /\ t[j] = "-" /\ between(i, j, {"semicolon"})
           \/ \E j \in (i + 1)..(Len(t) - 1) :
                 /\ groups[i] # <<>> /\ t[i] = "$" /\ t[j] = "semicolon" /\ t[j + 1] \in Identifier
                 /\ between(i, j, Identifier \union {"semicolon"})
           \/ groups[i] # <<>> /\ t[i] = "\\" /\ i < Len(t) /\ t[i + 1] = Head(groups[i])
           \/ \E b \in 1..(i - 1) :
                 /\ t[i] = "ATOMIC" /\ b \notin lexemes /\ t[b] = "BEGIN"
                 /\ between(b, i, {"space", "\n"})

\* A group stands in another of its kind.
Nested(t) == \E i \in 1..Len(t), delimiter \in {")", "END"} :
                Has(Groups(t, Lexemes(t))[i], 1, <<delimiter, delimiter>>)

-----------------------------------------------------------------------------
(* Properties *)

TypeOK ==
    /\ alphabet \in Alphabets /\ text \in Seq(alphabet) /\ start \in 0..Len(text)
    /\ cuts \subseteq 1..Len(text)

\* A migration is cut exactly where its statements end, however comments,
\* quotes, dollar quotes, groups and function bodies stand in each other,
\* apart from what Misread and Nested name.
CutsAtEnds ==
    text # <<>> /\ Last(text) = "semicolon"   \* nothing is decided in between
        => Misread(text) \/ Nested(text) \/ cuts = StatementEnds(text)

\* "preserves parentheses" (state_test.go:127).  Not so when they are nested:
\* the first that is closed closes all.
PreservesParentheses == \A i \in cuts : Groups(text, Lexemes(text))[i] = <<>>
=============================================================================
