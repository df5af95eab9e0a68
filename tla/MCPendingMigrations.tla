-------------------------- MODULE MCPendingMigrations --------------------------
\* PendingMigrations on every pair of a set of local files and a set of rows.
EXTENDS PendingMigrations, SequencesExt

CONSTANTS VersionTexts   \* version texts, as sequences of digits

\* String order: a proper prefix comes first.
TextBefore(a, b) ==
    \/ IsStrictPrefix(a, b)
    \/ \E n \in 1..Len(a) : /\ n <= Len(b)
                            /\ SubSeq(a, 1, n - 1) = SubSeq(b, 1, n - 1)
                            /\ a[n] < b[n]

\* In a file name the digits are followed by "_", which sorts after them.
FileBefore(a, b) == TextBefore(Append(a, 10), Append(b, 10))

TextOrder == {x \in VersionTexts \X VersionTexts : TextBefore(x[1], x[2])}
FileOrder == {x \in VersionTexts \X VersionTexts : FileBefore(x[1], x[2])}

VARIABLES files,  \* the versions of the local files
          rows    \* the versions in the history table

Init == files \in SUBSET VersionTexts /\ rows \in SUBSET VersionTexts

Local == Sorted(files, FileOrder)
Remote == Sorted(rows, TextOrder)
Found == FindPendingMigrations(Local, Remote, TextOrder)
FoundAll == GetPendingMigrations(Local, Remote, TRUE, TextOrder)

OutOfOrder == {v \in files \ rows : rows # {} /\ TextBefore(v, Last(Remote))}

\* "Find unapplied local migrations older than the latest migration on remote,
\* and remote migrations that are missing from local" (apply.go:19-20): rows
\* without a file are reported first, then files older than the last row;
\* otherwise exactly the files without a row are pending, in file order.
FindsPending ==
    Found =
       IF rows \ files # {} THEN Outcome("missing local", Sorted(rows \ files, TextOrder))
       ELSE IF OutOfOrder # {} THEN Outcome("missing remote", Sorted(OutOfOrder, FileOrder))
       ELSE Outcome("none", Sorted(files \ rows, FileOrder))

\* With --include-all, every file without a row is applied, once, in file
\* order, unless a row has no file.
IncludesAll ==
    rows \subseteq files => FoundAll = Outcome("none", Sorted(files \ rows, FileOrder))
=============================================================================
