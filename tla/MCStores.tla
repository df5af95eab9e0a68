------------------------------- MODULE MCStores -------------------------------
(***************************************************************************)
(* One model for what commands keep in files and tables: the credential    *)
(* files and the token of a session (MCCredentialStore), the migrations of *)
(* a team and the merge of files and rows (MCMigrationHistory), and the    *)
(* statements a migration is split into (SqlTokenizer).  They share no     *)
(* state here: the first state chooses one of them (which), and the others *)
(* rest.                                                                   *)
(***************************************************************************)
EXTENDS MCCredentialStore

CONSTANTS Devs, Teams, MaxVersion, Ann, Bob,   \* of MigrationHistory
          Alphabets, MaxLen                    \* of SqlTokenizer

VARIABLES files, clock, rows, ran, cmd, team, torn, textFiles, textRows,
          alphabet, text, start, state, cuts

History == INSTANCE MCMigrationHistory

\* Every two of the ways to open and close something that hides a separator.
ScriptAlphabets ==
    {{"semicolon"} \union hiding : hiding \in
        {{"'", "(", ")"}, {"doublequote", "'", "a"}, {"$", "(", ")"}, {"$", "a", "'"}, {"$", "wide", "("},
         {"/", "*", "'"}, {"/", "*", "("}, {"-", "\n", "("}, {"-", "'", "("}, {"-", "/", "*"},
         {"\\", "(", ")"}, {"BEGIN", "ATOMIC", "END", "space"}}}

Sql == INSTANCE SqlTokenizer

ASSUME AllAssumptions == BothAssumptions /\ History!Assumptions /\ Sql!Assumptions

\* The teams, which do not depend on the constant they are the value of.
Values == INSTANCE MCMigrationHistory WITH Teams <- {}
EveryTeam == Values!EveryTeam

historyVars == <<files, clock, rows, ran, cmd, team, torn, textFiles, textRows>>
storeVars == <<vars, tokenVars>>
sqlVars == <<alphabet, text, start, state, cuts>>
allVars == <<which, historyVars, storeVars, sqlVars>>

HistoryRests ==
    /\ files = 0 /\ clock = 0 /\ rows = 0 /\ ran = 0 /\ cmd = 0 /\ team = 0
    /\ torn = 0 /\ textFiles = 0 /\ textRows = 0

\* One of their initial states.
StoreRests ==
    /\ Init /\ scene = Orderly
    /\ Token!Init /\ world.losses

SqlRests == alphabet = 0 /\ text = 0 /\ start = 0 /\ state = 0 /\ cuts = 0

AllInit ==
    \/ History!BothInit /\ StoreRests /\ SqlRests
    \/ BothInit /\ HistoryRests /\ SqlRests
    \/ which = "sql" /\ Sql!Init /\ HistoryRests /\ StoreRests

AllNext ==
    \/ History!BothNext /\ UNCHANGED <<storeVars, sqlVars>>
    \/ BothNext /\ UNCHANGED <<historyVars, sqlVars>>
    \/ which = "sql" /\ Sql!Next /\ UNCHANGED <<which, historyVars, storeVars>>

AllSpec == AllInit /\ [][AllNext]_allVars

-----------------------------------------------------------------------------
(* The properties, which their modules explain *)

InStore == which \in {"store", "token"}
InHistory == which \in {"history", "texts"}

AllTypeOK ==
    /\ InStore => BothTypeOK
    /\ InHistory => History!TypeOK
    /\ which = "sql" => Sql!TypeOK

\* Exactly the files without a row are found pending, in file order.
FindsPending == which = "texts" => History!FindsPending

\* The history table tells what was run, and nothing was run twice.
HistoryTellsWhatRan == which = "history" => History!HistoryTellsWhatRan

\* No migration is run after a newer one, where one developer pushes.
RunsInOrder == which = "history" => History!RunsInOrder

\* When a push finds nothing to do, everything in the checkout has been run,
\* and what was run is still written down in a file, but for what a squash cuts
\* from its file and cannot dump into it again.
FilesAreRun == which = "history" => History!FilesAreRun

\* A down reverts the migrations it named, of a developer on his own.
DownKeepsTheRest == [][which = "history" => History!DownKeepsTheRestStep]_allVars

\* A repair of the whole table, and a fetch, leave no row without a file.
RepairsAgree == [][which = "history" => History!RepairsAgreeStep]_allVars

\* A migration is cut exactly where its statements end.
CutsAtEnds == which = "sql" => Sql!CutsAtEnds
=============================================================================
