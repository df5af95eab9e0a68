--------------------------- MODULE MigrationHistory ---------------------------
(***************************************************************************)
(* The migration history of one database, under the commands of            *)
(* internal/migration (new, up, down, repair, squash, fetch) and           *)
(* internal/db/push, run by several developers on their own checkouts.     *)
(*                                                                         *)
(* A migration is known by its version.  The body of a file, or of a row,  *)
(* is the sequence of the original migrations whose statements it holds:   *)
(* one until files are squashed.  A command lists files and rows first,    *)
(* may wait for the user to confirm, and then applies one file at a time,  *)
(* each in a transaction with its row; it may be cut short between any two *)
(* of these steps.                                                         *)
(***************************************************************************)
EXTENDS PendingMigrations, SequencesExt

CONSTANTS
    Devs,        \* checkouts
    Teams,       \* who works on the database and how: see Team
    MaxVersion   \* bound on the number of migrations written

\* Who writes migrations and how many, whose commands reach the database, and
\* which commands these are; "runs" bounds the migrations run since the
\* database was empty.
Team == [members : SUBSET Devs, writes : 0..MaxVersion, runs : Nat, pushers : SUBSET Devs,
         commands : SUBSET {"push", "include-all", "down", "repair", "squash", "fetch"}]

Assumptions == IsFiniteSet(Devs) /\ Teams \subseteq Team /\ MaxVersion \in Nat

VARIABLES
    files,   \* files[d]: the migration files of d, version -> body
    clock,   \* the timestamp of the newest migration
    rows,    \* the history table, version -> body
    ran,     \* what the database was brought to by: bodies run since it was empty
    cmd,     \* cmd[d]: the command d is running
    team,    \* the team of this behaviour; it never changes
    torn     \* what squashes have cut from a file and not dumped into it again

vars == <<files, clock, rows, ran, cmd, team, torn>>

Versions == 1..MaxVersion
Older == {x \in Versions \X Versions : x[1] < x[2]}
InOrder(set) == Sorted(set, Older)
Table(f, set) == [v \in set |-> f[v]]
\* Both tables; where both have a version, the first.
Over(f, g) == [v \in DOMAIN f \union DOMAIN g |-> IF v \in DOMAIN f THEN f[v] ELSE g[v]]
Entry(version, body) == [v \in {version} |-> body]
Applied == UNION {ToSet(rows[v]) : v \in DOMAIN rows}

NoCommand == [at |-> "none", queue |-> <<>>, keep |-> {}]
\* queue: versions; for squash the one it was given, if any.
\* keep: for down, the rows it promised to keep; for squash, the files to remove.
Running(at, queue, keep) == [at |-> at, queue |-> queue, keep |-> keep]

TypeOK ==
    /\ \A d \in Devs : DOMAIN files[d] \subseteq Versions /\ \A v \in DOMAIN files[d] : files[d][v] \in Seq(Versions)
    /\ clock \in 0..MaxVersion
    /\ DOMAIN rows \subseteq Versions /\ \A v \in DOMAIN rows : rows[v] \in Seq(Versions)
    /\ ran \in Seq(Versions)
    /\ cmd \in [Devs -> [at : {"none", "apply", "reset", "rebuild", "remove", "baseline"},
                         queue : Seq(Versions), keep : SUBSET Versions]]
    /\ torn \subseteq Versions

Init ==
    /\ files = [d \in Devs |-> <<>>]
    /\ clock = 0
    /\ rows = <<>>
    /\ ran = <<>>
    /\ cmd = [d \in Devs |-> NoCommand]
    /\ team \in Teams
    /\ torn = {}

Idle(d) == cmd[d].at = "none"
Free(d, command) == d \in team.pushers /\ command \in team.commands /\ Idle(d)
Goto(d, c) == cmd' = [cmd EXCEPT ![d] = c]
EndCommand(d) == Goto(d, NoCommand)
-----------------------------------------------------------------------------
\* The checkouts.

\* migration new: the file is named after the time.
NewMigration(d) ==
    /\ Idle(d) /\ clock < team.writes
    /\ clock' = clock + 1
    /\ files' = [files EXCEPT ![d] = Over(@, Entry(clock', <<clock'>>))]
    /\ UNCHANGED <<rows, ran, cmd, team, torn>>

\* git merges the checkouts of d and e: a squashed file replaces the files it
\* holds, and a whole file what is left of it after a dump that failed.  Two
\* texts of a file, or two files that share a migration, are a conflict, which
\* is not resolved.
GitPull(d, e) ==
    LET both == UNION {{[version |-> v, body |-> files[x][v]] : v \in DOMAIN files[x]} : x \in {d, e}}
        merged == {f \in both : \A g \in both :
                      ToSet(f.body) \subseteq ToSet(g.body) /\ ToSet(f.body) # ToSet(g.body)
                         => f.body = <<>> /\ f.version # g.version}
    IN  /\ d # e /\ Idle(d)
        /\ \A f, g \in merged :
              f # g => f.version # g.version /\ ToSet(f.body) \cap ToSet(g.body) = {}
        /\ files' = [files EXCEPT ![d] =
                       [v \in {f.version : f \in merged} |-> (CHOOSE f \in merged : f.version = v).body]]
        /\ files' # files
        /\ UNCHANGED <<clock, rows, ran, cmd, team, torn>>

\* migration fetch: every row is written over the file of its version.
Fetch(d) ==
    /\ Free(d, "fetch")
    /\ files' = [files EXCEPT ![d] = Over(rows, @)]
    /\ UNCHANGED <<clock, rows, ran, cmd, team, torn>>
-----------------------------------------------------------------------------
\* db push and migration up.

Pending(d, includeAll) ==
    GetPendingMigrations(InOrder(DOMAIN files[d]), InOrder(DOMAIN rows), includeAll, Older)

\* The list of pending files is made; nothing is done when it is refused or
\* empty.
Push(d, includeAll) ==
    /\ Free(d, IF includeAll THEN "include-all" ELSE "push")
    /\ Pending(d, includeAll).error = "none"
    /\ Pending(d, includeAll).list # <<>>
    /\ Goto(d, Running("apply", Pending(d, includeAll).list, {}))
    /\ UNCHANGED <<files, clock, rows, ran, team, torn>>

\* Mutant of Commit: a row that is there is overwritten.
CommitUpsert(v, body) ==
    /\ rows' = Over(Entry(v, body), rows)
    /\ ran' = ran \o body

\* The transaction of ExecBatch: the statements of the file and its row, or
\* nothing when the row is there already.
Commit(v, body) ==
    /\ v \notin DOMAIN rows
    /\ rows' = Over(rows, Entry(v, body))
    /\ ran' = ran \o body

\* The next file is read, which has to be there still, and applied; the reply
\* may be lost, which ends the command.
ApplyNext(d) ==
    LET c == cmd[d]
        v == Head(c.queue)
    IN  /\ c.at \in {"apply", "rebuild"} /\ c.queue # <<>>
        /\ v \in DOMAIN files[d]
        /\ Len(ran) + Len(files[d][v]) <= team.runs
        /\ Commit(v, files[d][v])
        /\ \/ Goto(d, Running(c.at, Tail(c.queue), c.keep))
           \/ EndCommand(d)
        /\ UNCHANGED <<files, clock, team, torn>>

Finish(d) ==
    /\ cmd[d].at \in {"apply", "rebuild"} /\ cmd[d].queue = <<>>
    /\ EndCommand(d)
    /\ UNCHANGED <<files, clock, rows, ran, team, torn>>

\* The user declines, a statement fails, the row is there already, the
\* connection is lost or the process is killed.
Stop(d) ==
    /\ ~Idle(d)
    /\ EndCommand(d)
    /\ UNCHANGED <<files, clock, rows, ran, team, torn>>
-----------------------------------------------------------------------------
\* migration down: drop everything, and apply the files up to a version again.

Down(d, last) ==
    LET remote == InOrder(DOMAIN rows)
        total == Len(remote)
    IN  /\ Free(d, "down")
        /\ last > 0 /\ last < total
        /\ Goto(d, Running("reset", <<remote[total - last]>>, ToSet(SubSeq(remote, 1, total - last))))
        /\ UNCHANGED <<files, clock, rows, ran, team, torn>>

\* Mutant of Reset: the version itself is left out of the rebuild.
ResetBelow(d) ==
    LET version == cmd[d].queue[1]
    IN  /\ cmd[d].at = "reset"
        /\ ran' = <<>>
        /\ rows' = <<>>
        /\ Goto(d, Running("rebuild", InOrder({v \in DOMAIN files[d] : v < version}), cmd[d].keep))
        /\ UNCHANGED <<files, clock, team, torn>>

\* drop.sql is one statement; it truncates supabase_migrations too.
Reset(d) ==
    LET version == cmd[d].queue[1]
    IN  /\ cmd[d].at = "reset"
        /\ ran' = <<>>
        /\ rows' = <<>>
        /\ Goto(d, Running("rebuild", InOrder({v \in DOMAIN files[d] : v <= version}), cmd[d].keep))
        /\ UNCHANGED <<files, clock, team, torn>>
-----------------------------------------------------------------------------
\* migration repair: rows are changed and nothing is run.

\* Mutant of RepairApplied: the repair of the whole table does not empty it.
RepairAppliedKeeps(d, versions, all) ==
    /\ Free(d, "repair")
    /\ versions \subseteq DOMAIN files[d]
    /\ all => versions = DOMAIN files[d]
    /\ rows' = Over(Table(files[d], versions), rows)
    /\ UNCHANGED <<files, clock, ran, cmd, team, torn>>

RepairApplied(d, versions, all) ==
    /\ Free(d, "repair")
    /\ versions \subseteq DOMAIN files[d]
    /\ all => versions = DOMAIN files[d]
    /\ rows' = Over(Table(files[d], versions), IF all THEN <<>> ELSE rows)
    /\ UNCHANGED <<files, clock, ran, cmd, team, torn>>

RepairReverted(d, versions, all) ==
    /\ Free(d, "repair")
    /\ rows' = IF all THEN <<>> ELSE Table(rows, DOMAIN rows \ versions)
    /\ UNCHANGED <<files, clock, ran, cmd, team, torn>>
-----------------------------------------------------------------------------
\* migration squash.

\* The files up to version; without a version given, all.
Merged(d, version) == {v \in DOMAIN files[d] : v <= version}
Chosen(d, version, given) ==
    /\ Free(d, "squash")
    /\ version \in DOMAIN files[d] /\ (given \/ Merged(d, version) = DOMAIN files[d])
Given(version, given) == IF given THEN <<version>> ELSE <<>>

\* What a shadow database holds after they ran.
Dumped(d, version) ==
    FlattenSeq([n \in 1..Cardinality(Merged(d, version)) |-> files[d][InOrder(Merged(d, version))[n]]])

\* "is already the earliest migration."
SquashNothing(d, version, given) ==
    /\ Chosen(d, version, given)
    /\ Cardinality(Merged(d, version)) = 1
    /\ Goto(d, Running("baseline", Given(version, given), {}))
    /\ UNCHANGED <<files, clock, rows, ran, team, torn>>

\* Mutant of Squash: the merged files are removed before the dump.
SquashRemovesFirst(d, version, given) ==
    LET body == Dumped(d, version)
    IN  /\ Chosen(d, version, given)
        /\ Cardinality(Merged(d, version)) > 1 /\ IsInjective(body)
        /\ \E n \in 0..Len(body) :
              /\ files' = [files EXCEPT ![d] = Over(Entry(version, SubSeq(body, 1, n)),
                                                    Table(@, DOMAIN @ \ Merged(d, version)))]
              /\ torn' = torn \union (ToSet(files[d][version]) \ ToSet(SubSeq(body, 1, n)))
              /\ Goto(d, IF n = Len(body) THEN Running("baseline", Given(version, given), {})
                         ELSE NoCommand)
        /\ UNCHANGED <<clock, rows, ran, team>>

\* The last file is cut before the dump is written to it, which may fail, or be
\* killed, at any point.  The shadow database refuses a migration that runs twice.
Squash(d, version, given) ==
    LET body == Dumped(d, version)
    IN  /\ Chosen(d, version, given)
        /\ Cardinality(Merged(d, version)) > 1 /\ IsInjective(body)
        /\ \E n \in 0..Len(body) :
              /\ files' = [files EXCEPT ![d][version] = SubSeq(body, 1, n)]
              /\ torn' = torn \union (ToSet(files[d][version]) \ ToSet(SubSeq(body, 1, n)))
              /\ Goto(d, IF n = Len(body)
                         THEN Running("remove", Given(version, given), Merged(d, version) \ {version})
                         ELSE NoCommand)
        /\ UNCHANGED <<clock, rows, ran, team>>

\* The merged files are removed, but for those of which an error is printed.
RemoveMerged(d) ==
    /\ cmd[d].at = "remove"
    /\ \E gone \in SUBSET cmd[d].keep :
          files' = [files EXCEPT ![d] = Table(@, DOMAIN @ \ gone)]
    /\ Goto(d, Running("baseline", cmd[d].queue, {}))
    /\ UNCHANGED <<clock, rows, ran, team, torn>>

\* "Update remote migration history table?"  Without a version, to that of the
\* first file there is.
Baseline(d) ==
    LET version == IF cmd[d].queue = <<>> THEN InOrder(DOMAIN files[d])[1] ELSE cmd[d].queue[1]
    IN  /\ cmd[d].at = "baseline"
        /\ rows' = Over(Entry(version, files[d][version]), Table(rows, {v \in DOMAIN rows : v > version}))
        /\ EndCommand(d)
        /\ UNCHANGED <<files, clock, ran, team, torn>>
-----------------------------------------------------------------------------
Next ==
    \E d \in team.members :
        \/ NewMigration(d)
        \/ \E e \in team.members : GitPull(d, e)
        \/ Fetch(d)
        \/ \E includeAll \in BOOLEAN : Push(d, includeAll)
        \/ ApplyNext(d)
        \/ Finish(d)
        \/ Stop(d)
        \/ \E last \in 1..Cardinality(DOMAIN rows) : Down(d, last)
        \/ Reset(d)
        \/ \E versions \in SUBSET DOMAIN files[d], all \in BOOLEAN : RepairApplied(d, versions, all)
        \/ \E versions \in SUBSET DOMAIN rows, all \in BOOLEAN : RepairReverted(d, versions, all)
        \/ \E version \in DOMAIN files[d], given \in BOOLEAN :
              SquashNothing(d, version, given) \/ Squash(d, version, given)
        \/ RemoveMerged(d)
        \/ Baseline(d)

Spec == Init /\ [][Next]_vars
-----------------------------------------------------------------------------
\* The table tells what was run, and nothing was run twice, whatever commands
\* are cut short, and however the pushes of two developers interleave: a file
\* and its row are one transaction, and the row is unique.  repair and squash
\* are there to write what did not run.
HistoryTellsWhatRan ==
    team.commands \cap {"repair", "squash"} = {} => ToSet(ran) = Applied /\ IsInjective(ran)

\* Without --include-all, "Enforce migrations are applied in chronological
\* order by default" (apply.go:48): no migration is run after a newer one.
\* This needs that pushes do not overlap: nothing is locked while the user
\* confirms a list.
RunsInOrder ==
    Cardinality(team.pushers) = 1 /\ team.commands \subseteq {"push", "down"} =>
       \A i, j \in DOMAIN ran : i < j => ran[i] < ran[j]

\* When a push finds nothing to do, everything in the checkout has been run:
\* "Pushes all local migrations to a remote database" (docs/supabase/db/push.md:3).
\* A squash or a repair may write the row of a file that did not run.
UpToDateMeansRun ==
    team.commands \cap {"repair", "squash"} = {} =>
       \A d \in Devs : Pending(d, FALSE) = Outcome("none", <<>>) =>
          \A v \in DOMAIN files[d] : ToSet(files[d][v]) \subseteq ToSet(ran)

\* A down that ends well has reverted the migrations it named to the user and
\* no others (down.go:65).
DownRevertsWhatItNamed ==
    [][\A d \in Devs : cmd[d].at = "rebuild" /\ Finish(d) => DOMAIN rows = cmd[d].keep]_vars

\* The same for a developer on his own, whose checkout holds every migration,
\* and who writes no rows by hand.
DownKeepsTheRestStep ==
    Cardinality(team.members) = 1 /\ team.commands \cap {"repair", "squash"} = {} =>
       \A d \in Devs : cmd[d].at = "rebuild" /\ Finish(d) => DOMAIN rows = cmd[d].keep

\* A migration that is part of the database is still written down in a file of
\* somebody, on its own or inside a squashed one, unless somebody fetches old
\* rows over his files, or a squash fails after it has cut the file of the
\* migration: then this file, and no other, is what it takes, whenever it fails
\* and whatever squashes, pulls and downs follow.
RanIsWritten ==
    "fetch" \notin team.commands =>
       \A m \in ToSet(ran) \ torn :
          \E d \in Devs : \E v \in DOMAIN files[d] : m \in ToSet(files[d][v])

\* The two ways to bring checkout and table together, a repair of the whole
\* table and a fetch, leave no row without a file
\* (docs/supabase/migration/repair.md:7).
RepairsAgreeStep ==
    team.commands \cap {"fetch", "repair"} # {} => \A d \in Devs :
       Fetch(d) \/ RepairApplied(d, DOMAIN files[d], TRUE)
       => Pending(d, FALSE)'.error # "missing local"
=============================================================================
