---------------------------- MODULE MCDeployments ----------------------------
(***************************************************************************)
(* One model for the commands that do many things on a service: the        *)
(* deployment of bundled functions in bulk and one by one, the uploads of  *)
(* storage cp, storage rm, mv and the downloads of cp, seed buckets, fast  *)
(* create, the logins of the MCP server, functions serve and the branches  *)
(* of a local database.  They share no state: the first state chooses one  *)
(* of them (which), and the variables of the others rest.                  *)
(***************************************************************************)
EXTENDS McpLogin, Sequences, TLC

CONSTANTS
    Functions, MaxJobs, Nil,                     \* bulk and storage
    Files, Outages,                              \* storage
    Slugs, MaxRetries, Disabled, Undeployable,   \* upsert
    Branches, Window, Ticks, Migrations, Plugins,   \* create
    Names, Suffix, Initial, Arguments, PageLimit, Others,   \* objects and seed
    Buckets, HomeOf,                             \* seed
    Dirs, Root, Edits, Crashes,                  \* serve
    BranchNames, Turns                             \* branches

VARIABLES
    which,
    errCh, wg, worker, failed, pc, cur, i, collected, delivered,
    toUpdate, bundled, live, stage,
    attempt, bucket, stored, walkErr, result,
    server, listed, slugToIndex, left, slug, tries, outages, confirm, at,
    roles, running, default, ready, own, newer, todo, branch, tick, log, outcome,
    objects, gone, start, mine, touched, others, args, step, prefixes, prefix, dirs, dir, search,
    page, entries, full, count, jobs, broken, local, reply,
    mode, declared, buckets, seeded, strangers, removed, exists, unvisited, seeding,
    uses, version, edits, watched, noticed, events, overflown, watcher, timer, loop, bound, seen,
    container, served, crashes, crashed, streamer, followed, failure, ending,
    dbs, closed, folders, current, cmd, turns, born, cut

Bulk == INSTANCE BulkDeploy
Storage == INSTANCE StorageUpload
Upsert == INSTANCE UpsertFunctions
            WITH todo <- left, attempt <- tries, toUpdate <- confirm, pc <- at
Create == INSTANCE FastCreate WITH Functions <- Plugins
Objects == INSTANCE StorageObjects WITH listed <- entries, answer <- reply

Serving == INSTANCE MCServing

ASSUME AllAssumptions ==
    /\ Bulk!Assumptions /\ Storage!Assumptions /\ Upsert!Assumptions /\ Create!Assumptions
    /\ Objects!Assumptions /\ Assumptions /\ Serving!Assumptions

queueVars == <<errCh, wg, worker, failed, pc, cur, i, collected, delivered>>
bulkVars == <<toUpdate, bundled, live, stage>>
storageVars == <<attempt, bucket, stored, walkErr, result>>
upsertVars == <<server, listed, slugToIndex, left, slug, tries, outages, confirm, at>>
createVars == <<roles, running, default, ready, own, newer, todo, branch, tick, log, outcome>>
objectVars ==
    <<objects, gone, start, mine, touched, others, args, step, prefixes, prefix, dirs, dir, search,
      page, entries, full, count, jobs, broken, local, reply>>
seedVars == <<mode, declared, buckets, seeded, strangers, removed, exists, unvisited, seeding>>
serveVars ==
    <<uses, version, edits, watched, noticed, events, overflown, watcher, timer, loop, bound, seen,
      container, served, crashes, crashed, streamer, followed, failure, ending>>
branchVars == <<dbs, closed, folders, current, cmd, turns, born, cut>>
servingVars == <<seedVars, serveVars, branchVars>>
allVars ==
    <<which, queueVars, bulkVars, storageVars, upsertVars, createVars, objectVars, vars,
      servingVars>>

QueueRests ==
    /\ errCh = 0 /\ wg = 0 /\ worker = 0 /\ failed = 0 /\ pc = 0 /\ cur = 0 /\ i = 0
    /\ collected = 0 /\ delivered = 0
BulkRests == toUpdate = 0 /\ bundled = 0 /\ live = 0 /\ stage = 0
StorageRests == attempt = 0 /\ bucket = 0 /\ stored = 0 /\ walkErr = 0 /\ result = 0
UpsertRests ==
    /\ server = 0 /\ listed = 0 /\ slugToIndex = 0 /\ left = 0 /\ slug = 0 /\ tries = 0
    /\ outages = 0 /\ confirm = 0 /\ at = 0
CreateRests ==
    /\ roles = 0 /\ running = 0 /\ default = 0 /\ ready = 0 /\ own = 0 /\ newer = 0
    /\ todo = 0 /\ branch = 0 /\ tick = 0 /\ log = 0 /\ outcome = 0

ObjectsRest ==
    /\ objects = 0 /\ gone = 0 /\ start = 0 /\ mine = 0 /\ touched = 0 /\ others = 0 /\ args = 0
    /\ step = 0 /\ prefixes = 0 /\ prefix = 0 /\ dirs = 0 /\ dir = 0 /\ search = 0 /\ page = 0
    /\ entries = 0 /\ full = 0 /\ count = 0 /\ jobs = 0 /\ broken = 0 /\ local = 0 /\ reply = 0

LoginRests == profile = "none" /\ Init

AllInit ==
    \/ /\ which = "bulk" /\ Bulk!Init
       /\ StorageRests /\ UpsertRests /\ CreateRests /\ ObjectsRest /\ LoginRests /\ Serving!Rests
    \/ /\ which = "storage" /\ Storage!Init
       /\ BulkRests /\ UpsertRests /\ CreateRests /\ ObjectsRest /\ LoginRests /\ Serving!Rests
    \/ /\ QueueRests /\ BulkRests /\ StorageRests
       /\ \/ /\ which = "upsert" /\ Upsert!Init
             /\ CreateRests /\ ObjectsRest /\ LoginRests /\ Serving!Rests
          \/ /\ which = "create" /\ Create!Init
             /\ UpsertRests /\ ObjectsRest /\ LoginRests /\ Serving!Rests
          \/ /\ which = "objects" /\ Objects!Init
             /\ UpsertRests /\ CreateRests /\ LoginRests /\ Serving!Rests
          \/ /\ which = "login" /\ Init
             /\ UpsertRests /\ CreateRests /\ ObjectsRest /\ Serving!Rests
          \/ /\ Serving!ServeInit \/ Serving!LocalInit
             /\ UpsertRests /\ CreateRests /\ ObjectsRest /\ LoginRests
    \/ /\ Serving!SeedInit
       /\ BulkRests /\ StorageRests /\ UpsertRests /\ CreateRests /\ ObjectsRest /\ LoginRests

\* What the queue and the commands that use it leave alone, and the others.
Single == <<upsertVars, createVars, objectVars, vars>>
Queued == <<queueVars, bulkVars, storageVars>>

OthersOfBulk == UNCHANGED <<which, storageVars, Single, servingVars>>
OthersOfSeed == UNCHANGED <<bulkVars, storageVars, Single>>
OthersOfCreate == UNCHANGED <<which, Queued, upsertVars, objectVars, vars, servingVars>>
OthersOfLogin == UNCHANGED <<which, Queued, upsertVars, createVars, objectVars, servingVars>>

AllNext ==
    \/ which = "bulk" /\ Bulk!Next /\ OthersOfBulk
    \/ which = "storage" /\ Storage!Next /\ UNCHANGED <<which, bulkVars, Single, servingVars>>
    \/ /\ which = "upsert" /\ Upsert!Next
       /\ UNCHANGED <<which, Queued, createVars, objectVars, vars, servingVars>>
    \/ which = "create" /\ Create!Next /\ OthersOfCreate
    \/ /\ which = "objects" /\ Objects!Next
       /\ UNCHANGED <<which, Queued, upsertVars, createVars, vars, servingVars>>
    \/ which = "login" /\ Next /\ OthersOfLogin
    \/ Serving!SeedNext /\ OthersOfSeed
    \/ Serving!OtherNext /\ UNCHANGED <<Queued, Single>>

\* An action of FunctionServe.
Served(A) ==
    /\ which = "serve" /\ Serving!Serve!Going(A)
    /\ UNCHANGED <<which, seedVars, branchVars, Queued, Single>>

\* The fairness of BulkDeploy, of FastCreate, of FunctionServe and of McpLogin.
\* The command of a behaviour never changes, so that one condition on what any
\* of them does next says of each what its module says.
AllFairness ==
    /\ WF_allVars(\/ which = "bulk" /\ Bulk!Caller /\ OthersOfBulk
                  \/ which = "create" /\ Create!Run /\ OthersOfCreate
                  \/ Served(Serving!Serve!Run))
    /\ \A f \in Files :
          WF_allVars(which = "bulk" /\ Bulk!Goroutine(f) /\ OthersOfBulk)
    /\ WF_allVars(Served(Serving!Serve!Receive)) /\ WF_allVars(Served(Serving!Serve!Debounce))
    /\ WF_allVars(Served(Serving!Serve!Fire))
    /\ \A c \in Calls : SF_allVars(which = "login" /\ Handler(c) /\ OthersOfLogin)
    /\ \A l \in Logins :
          /\ SF_allVars(which = "login" /\ Waiter(l) /\ OthersOfLogin)
          /\ WF_allVars(/\ which = "login" /\ OthersOfLogin
                        /\ LoginFails(l) \/ CompleteLogin(l))

AllSpec == AllInit /\ [][AllNext]_allVars /\ AllFairness

-----------------------------------------------------------------------------
(* Constants of the run: two files of each kind for fast create, objects of   *)
(* three names of which one begins another, and all files but one in the      *)
(* first bucket.                                                              *)

MCMigrations == <<"m1", "m2">>
MCPlugins == <<"f1", "f2">>
MCNames == <<"a", "ab", "b">>
MCSuffix == <<"a", "ab">> :> "b"
MCInitial == {<<"a">>, <<"a", "ab">>, <<"a", "b", "a">>, <<"ab">>}
MCArguments == {<<>>, <<"a">>, <<"b">>}
LastFile == CHOOSE f \in Files : TRUE
MCHomeOf == [f \in Files |-> IF f = LastFile THEN "texts" ELSE "images"]

-----------------------------------------------------------------------------
(* The properties, which the modules explain *)

AllTypeOK ==
    /\ which = "bulk" => Bulk!TypeOK
    /\ which = "storage" => Storage!TypeOK
    /\ which = "upsert" => Upsert!TypeOK
    /\ which = "create" => Create!TypeOK
    /\ which = "objects" => Objects!TypeOK
    /\ which = "login" => TypeOK
    /\ Serving!AnyTypeOK

\* The bulk update is sent when no goroutine can still write to the slice, and
\* goes live as a whole or, when an upload fails, not at all.
BulkIsAtomic == which = "bulk" => Bulk!BulkIsAtomic

\* storage rm, mv and cp lose no object and no local file that was not named,
\* and branch switch and delete no database.
ObjectsAreKept ==
    /\ which = "objects" => Objects!ObjectsAreKept
    /\ which = "branches" => Serving!Local!BranchesAreKept

\* When the copy returns, no job is still uploading.
NothingAfterReturn == [][which = "storage" => Storage!NothingAfterReturnStep]_allVars

\* An upsert gives up only after MaxRetries failures of the server or the network,
\* and functions serve when the runtime has failed by itself.
GivesUpOnlyOnOutages ==
    /\ which = "upsert" => Upsert!GivesUpOnlyOnOutages
    /\ which = "serve" => Serving!Serve!RestartIsNoFailure

\* Fast create works on one branch that was Ready, and does nothing twice.
OneBranchOnce == which = "create" => Create!OneBranchOnce

\* What reports success has done it all: every file is stored, every enabled
\* function has the new bundle and its JWT setting, every step of fast create
\* was carried out and its own deployment is live; storage rm, mv and cp -r have
\* done the whole directory, seed buckets all buckets and their files, and branch
\* switch has switched what the next one starts from.
SuccessMeansDone ==
    /\ which = "storage" => Storage!SuccessMeansStored
    /\ which = "upsert" => Upsert!SuccessMeansDeployed
    /\ which = "create" => Create!SuccessMeansLive
    /\ which = "objects" => Objects!SuccessMeansAll
    /\ which = "seed" => Serving!Seed!SuccessMeansSeeded
    /\ which = "branches" => Serving!Local!CurrentIsUsed

\* A deployment in bulk and a fast create return, also after errors, every tool
\* call is answered, and changes of functions come to be served.
Returns ==
    <>(\/ which \in {"storage", "upsert", "objects", "branches", "seed"}
       \/ which = "bulk" /\ stage \in {"ok", "error"}
       \/ which = "create" /\ outcome # "none"
       \/ which = "login" /\ \A c \in Calls : call[c] = "returned"
       \/ [](which = "serve" /\ (Serving!Serve!UpToDate \/ loop = "returned" \/ overflown)))
=============================================================================
