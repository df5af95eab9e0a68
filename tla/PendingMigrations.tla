-------------------------- MODULE PendingMigrations --------------------------
(***************************************************************************)
(* pkg/migration/apply.go and internal/migration/up: which local migration *)
(* files still have to be applied, given the versions in the history table *)
(* of a database.                                                          *)
(*                                                                         *)
(* The code merges two lists that it takes to be sorted in the same order: *)
(* the rows, which Postgres sorts by the version text, and the files, which*)
(* the directory listing sorts by file name.  "before" is an order of      *)
(* version texts, as a set of pairs.                                       *)
(***************************************************************************)
EXTENDS Integers, Sequences, FiniteSets

\* The versions of a directory listing, or of the query ORDER BY version.
Sorted(set, before) ==
    [n \in 1..Cardinality(set) |->
        CHOOSE v \in set : Cardinality({u \in set : <<u, v>> \in before}) = n - 1]

Outcome(error, list) == [error |-> error, list |-> list]

\* Where the loop stands in the two lists, and what it adds to the rest.
Places(local, remote) == (1..Len(remote) + 1) \X (1..Len(local) + 1)
Missing(version, rest) == [rest EXCEPT !.missing = <<version>> \o @]
Unapplied(version, rest) == [rest EXCEPT !.unapplied = <<version>> \o @]

\* Mutant of Merge: rows left over at the end are not reported.
MergeNoRest(local, remote, before) ==
    LET step[at \in Places(local, remote)] ==
        LET i == at[1]
            j == at[2]
        IN  IF i > Len(remote) \/ j > Len(local)
            THEN [missing |-> <<>>, unapplied |-> <<>>]
            ELSE IF remote[i] = local[j] THEN step[<<i + 1, j + 1>>]
            ELSE IF <<remote[i], local[j]>> \in before
                 THEN Missing(remote[i], step[<<i + 1, j>>])
                 ELSE Unapplied(local[j], step[<<i, j + 1>>])
    IN  step[<<1, 1>>]

\* The loop over both lists, and the rows left over when the files run out.
Merge(local, remote, before) ==
    LET step[at \in Places(local, remote)] ==
        LET i == at[1]
            j == at[2]
        IN  IF j > Len(local)
            THEN [missing |-> SubSeq(remote, i, Len(remote)), unapplied |-> <<>>]
            ELSE IF i > Len(remote) THEN [missing |-> <<>>, unapplied |-> <<>>]
            ELSE IF remote[i] = local[j] THEN step[<<i + 1, j + 1>>]
            ELSE IF <<remote[i], local[j]>> \in before
                 THEN Missing(remote[i], step[<<i + 1, j>>])
                 ELSE Unapplied(local[j], step[<<i, j + 1>>])
    IN  step[<<1, 1>>]

Drop(s, n) == SubSeq(s, n + 1, Len(s))

\* Mutant of FindPendingMigrations: out-of-order files are not refused.
FindPendingAnyOrder(local, remote, before) ==
    LET merged == Merge(local, remote, before)
    IN  IF merged.missing # <<>> THEN Outcome("missing local", merged.missing)
        ELSE Outcome("none", merged.unapplied \o Drop(local, Len(remote) + Len(merged.unapplied)))

FindPendingMigrations(local, remote, before) ==
    LET merged == Merge(local, remote, before)
    IN  IF merged.missing # <<>> THEN Outcome("missing local", merged.missing)
        ELSE IF merged.unapplied # <<>> THEN Outcome("missing remote", merged.unapplied)
        ELSE Outcome("none", Drop(local, Len(remote)))

\* With --include-all the out-of-order files come first.
GetPendingMigrations(local, remote, includeAll, before) ==
    LET found == FindPendingMigrations(local, remote, before)
    IN  IF found.error = "missing remote" /\ includeAll
        THEN Outcome("none", found.list \o Drop(local, Len(remote) + Len(found.list)))
        ELSE found
=============================================================================
