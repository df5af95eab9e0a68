------------------------------ MODULE MCServing ------------------------------
(***************************************************************************)
(* seed buckets, functions serve, and the branches of a local database.    *)
(* The first state chooses one of them (which), and the others rest.       *)
(***************************************************************************)
EXTENDS Integers, Sequences, FiniteSets, TLC

CONSTANTS
    Files, MaxJobs, Nil, Buckets, HomeOf, Others,   \* seed
    Dirs, Root, Edits, Crashes,                     \* serve
    BranchNames, Turns                                \* branches

VARIABLES
    which,
    errCh, wg, worker, failed, pc, cur, i, collected, delivered,
    mode, declared, buckets, seeded, strangers, removed, exists, unvisited, seeding,
    uses, version, edits, watched, noticed, events, overflown, watcher, timer, loop, bound, seen,
    container, served, crashes, crashed, streamer, followed, failure, ending,
    dbs, closed, folders, current, cmd, turns, born, cut

queueVars == <<errCh, wg, worker, failed, pc, cur, i, collected, delivered>>
seedVars == <<mode, declared, buckets, seeded, strangers, removed, exists, unvisited, seeding>>
serveVars ==
    <<uses, version, edits, watched, noticed, events, overflown, watcher, timer, loop, bound, seen,
      container, served, crashes, crashed, streamer, followed, failure, ending>>
branchVars == <<dbs, closed, folders, current, cmd, turns, born, cut>>

Seed ==
    INSTANCE SeedBuckets
        WITH objects <- seeded, others <- strangers, left <- unvisited, stage <- seeding
Serve == INSTANCE FunctionServe WITH pc <- loop, errCh <- failure, answer <- ending
Local == INSTANCE LocalBranches WITH Names <- BranchNames, dirs <- folders

Assumptions == Seed!Assumptions /\ Serve!Assumptions /\ Local!Assumptions

SeedRests ==
    /\ mode = 0 /\ declared = 0 /\ buckets = 0 /\ seeded = 0 /\ strangers = 0 /\ removed = 0
    /\ exists = 0 /\ unvisited = 0 /\ seeding = 0

ServeRests ==
    /\ uses = 0 /\ version = 0 /\ edits = 0 /\ watched = 0 /\ noticed = 0 /\ events = 0
    /\ overflown = 0 /\ watcher = 0 /\ timer = 0 /\ loop = 0 /\ bound = 0 /\ seen = 0
    /\ container = 0 /\ served = 0 /\ crashes = 0 /\ crashed = 0 /\ streamer = 0 /\ followed = 0
    /\ failure = 0 /\ ending = 0

BranchesRest ==
    /\ dbs = 0 /\ closed = 0 /\ folders = 0 /\ current = 0 /\ cmd = 0 /\ turns = 0 /\ born = 0
    /\ cut = 0

Rests == SeedRests /\ ServeRests /\ BranchesRest

SeedInit == which = "seed" /\ Seed!Init /\ ServeRests /\ BranchesRest
ServeInit == which = "serve" /\ Serve!Init /\ SeedRests /\ BranchesRest
LocalInit == which = "branches" /\ Local!Init /\ SeedRests /\ ServeRests

SeedNext == which = "seed" /\ Seed!Next /\ UNCHANGED <<which, serveVars, branchVars>>
OtherNext ==
    \/ which = "serve" /\ Serve!Next /\ UNCHANGED <<which, seedVars, branchVars>>
    \/ which = "branches" /\ Local!Next /\ UNCHANGED <<which, seedVars, serveVars>>

-----------------------------------------------------------------------------

AnyTypeOK ==
    /\ which = "seed" => Seed!TypeOK
    /\ which = "serve" => Serve!TypeOK
    /\ which = "branches" => Local!TypeOK
=============================================================================
