-------------------------- MODULE MCMigrationHistory --------------------------
(***************************************************************************)
(* Teams of one and two developers; and every pair of a set of files and a *)
(* set of rows, for the merge of the two lists (MCPendingMigrations).  The *)
(* first state chooses one of the two (which); the other one rests.        *)
(***************************************************************************)
EXTENDS MigrationHistory, TLC

CONSTANTS Ann, Bob

VARIABLES which, textFiles, textRows

\* Version texts, as sequences of digits: all of one length.
VersionTexts == ({0, 2} \X {0, 3}) \union {<<1, 9>>, <<2, 1>>}

Texts == INSTANCE MCPendingMigrations
            WITH VersionTexts <- VersionTexts, files <- textFiles, rows <- textRows

\* Both push, also out of order, and go back.
Pair == [members |-> {Ann, Bob}, writes |-> 3, runs |-> 6, pushers |-> {Ann, Bob},
          commands |-> {"push", "include-all", "down"}]

\* One of them pushes what both have written.
OnePusher == [members |-> {Ann, Bob}, writes |-> 4, runs |-> 6, pushers |-> {Ann},
          commands |-> {"push", "down"}]

Alone == [members |-> {Ann}, writes |-> 6, runs |-> 6, pushers |-> {Ann},
          commands |-> {"push", "down"}]

Squashers == [members |-> {Ann, Bob}, writes |-> 2, runs |-> 3, pushers |-> {Ann, Bob},
          commands |-> {"push", "down", "squash"}]

\* With files pending beside those that are squashed.
SquasherAlone == [members |-> {Ann}, writes |-> 3, runs |-> 4, pushers |-> {Ann},
          commands |-> {"push", "down", "squash"}]

\* Files and rows are brought together by hand.
Repairers == [members |-> {Ann, Bob}, writes |-> 3, runs |-> 3, pushers |-> {Ann},
          commands |-> {"push", "repair", "fetch"}]

\* And squashed as well.
Tidiers == [Repairers EXCEPT !.writes = 2, !.commands = @ \union {"squash"}]

EveryTeam == {Pair, OnePusher, Alone, Squashers, SquasherAlone, Repairers, Tidiers}
PusherAndWriter == {OnePusher}

BothInit ==
    /\ which \in {"history", "texts"}
    /\ Init /\ (which = "texts" => team = Alone)
    /\ IF which = "texts" THEN Texts!Init ELSE textFiles = {} /\ textRows = {}

BothNext == which = "history" /\ Next /\ UNCHANGED <<which, textFiles, textRows>>

BothSpec == BothInit /\ [][BothNext]_<<which, vars, textFiles, textRows>>

-----------------------------------------------------------------------------

\* Exactly the files without a row are found pending, in file order, with and
\* without --include-all, and else what is missing is reported.
FindsPending == Texts!FindsPending /\ Texts!IncludesAll

\* What was run is in the files: an up-to-date checkout has been run, and what
\* was run is still written down somewhere, but in the file that a squash cut.
FilesAreRun == UpToDateMeansRun /\ RanIsWritten
=============================================================================
