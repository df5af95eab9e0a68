----------------------------- MODULE MCCommands -----------------------------
(***************************************************************************)
(* One model for what a user or an agent runs: one management handler of   *)
(* every kind, the commands on function sources, "sandbox kill", the       *)
(* commands of directories that are linked to branches, the launchers that *)
(* fetch the program, and the releases of it.  They share no state: the    *)
(* first state chooses one of them (which), and the others rest in a state *)
(* of theirs.  The model values of the workspaces are the directories and  *)
(* the hosts too, and those of the branches the URLs and the commits.      *)
(***************************************************************************)
EXTENDS LinkState, TLC

CONSTANTS w1, w2, b1, b2, Handlers, Workspaces, Branches, Regions, Retries, Others

VARIABLES
    which,
    home, default, linked, others, policy, plan, args, todo, regions, lastErr, region,
    ws, branch, confirmed, tries, log, kept, outcome,
    disk, config, main, server, calls, edits, op, asked, access, configured, maps,
    left, slug, runtime, queue, seen, sent, missing, deployed, result,
    alive, all, step, sandboxIDs, requested, killed, failed, before, changes, end,
    cache, lock, starts, launchers, mirrored, aged,
    registry, runs, host

Handling == INSTANCE MCManagement

Tools == INSTANCE McpTools

\* The values of the .cfg, as in MCManagement.
MCHandlers == Tools!CliHandlers \union Tools!allSpecs
MCRegions == <<"beijing", "shanghai">>
MCWorkspaces == {w1, w2}
MCBranches == {b1, b2}
Symmetric == Permutations(MCWorkspaces) \union Permutations(MCBranches)

Sources ==
    INSTANCE FunctionSources
        WITH Slugs <- {"a", "b"}, Branches <- {"main", "dev"}, Calls <- 2, Edits <- 1,
             Initial <- {<<"a", "index.ts">>, <<"a", "helper.ts">>, <<"a", "deno.json">>,
                         <<"_shared", "util.ts">>},
             default <- main, todo <- left, outcome <- result
Kill ==
    INSTANCE Sandboxes
        WITH Ids <- {"s1", "s2", "s3"}, Matching <- {"s1", "s2"}, Limit <- 2, Changes <- 1,
             outcome <- end

Launch == INSTANCE Launcher WITH Procs <- 1..3, Starts <- 3, proc <- launchers

Releasing ==
    INSTANCE Release WITH Hosts <- MCWorkspaces, Commits <- MCBranches, Last <- 3, Runs <- 3

ASSUME AllAssumptions ==
    /\ Handling!Assumptions /\ Sources!Assumptions /\ Kill!Assumptions /\ Assumptions
    /\ Launch!Assumptions /\ Releasing!Assumptions

sourcesVars == <<disk, config, main, server, calls, edits, op, asked, access, configured, maps,
                 left, slug, runtime, queue, seen, sent, missing, deployed, result>>
killVars == <<alive, all, step, sandboxIDs, requested, killed, failed, before, changes, end>>
handlerVars ==
    <<home, default, linked, others, policy, plan, args, todo, regions, lastErr, region,
      ws, branch, confirmed, tries, log, kept, outcome>>
launchVars == <<cache, lock, starts, launchers, mirrored, aged>>
releaseVars == <<registry, runs, host>>
allVars == <<which, handlerVars, sourcesVars, killVars, vars, launchVars, releaseVars>>

HandlerRests ==
    /\ home = 0 /\ default = 0 /\ linked = 0 /\ others = 0 /\ policy = 0 /\ plan = 0 /\ args = 0
    /\ todo = 0 /\ regions = 0 /\ lastErr = 0 /\ region = 0 /\ ws = 0 /\ branch = 0
    /\ confirmed = 0 /\ tries = 0 /\ log = 0 /\ kept = 0 /\ outcome = 0

SourcesRest ==
    /\ disk = 0 /\ config = 0 /\ main = 0 /\ server = 0 /\ calls = 0 /\ edits = 0 /\ op = 0
    /\ asked = 0 /\ access = 0 /\ configured = 0 /\ maps = 0 /\ left = 0 /\ slug = 0
    /\ runtime = 0 /\ queue = 0 /\ seen = 0 /\ sent = 0 /\ missing = 0 /\ deployed = 0
    /\ result = 0

KillRests ==
    /\ alive = 0 /\ all = 0 /\ step = 0 /\ sandboxIDs = 0 /\ requested = 0 /\ killed = 0
    /\ failed = 0 /\ before = 0 /\ changes = 0 /\ end = 0

LinkRests == link = [d \in Dirs |-> None] /\ ref = {} /\ profiles = {} /\ Init

LaunchRests ==
    /\ cache = 0 /\ lock = 0 /\ starts = 0 /\ launchers = 0 /\ mirrored = 0 /\ aged = 0

ReleaseRests == registry = 0 /\ runs = 0 /\ host = 0

AllInit ==
    \/ /\ which = "handler" /\ Handling!Init
       /\ SourcesRest /\ KillRests /\ LinkRests /\ LaunchRests /\ ReleaseRests
    \/ /\ which = "sources" /\ Sources!Init
       /\ HandlerRests /\ KillRests /\ LinkRests /\ LaunchRests /\ ReleaseRests
    \/ /\ which = "kill" /\ Kill!Init
       /\ HandlerRests /\ SourcesRest /\ LinkRests /\ LaunchRests /\ ReleaseRests
    \/ /\ which = "link" /\ Init
       /\ HandlerRests /\ SourcesRest /\ KillRests /\ LaunchRests /\ ReleaseRests
    \/ /\ which = "launcher" /\ Launch!Init
       /\ HandlerRests /\ SourcesRest /\ KillRests /\ LinkRests /\ ReleaseRests
    \/ /\ which = "release" /\ Releasing!Init
       /\ HandlerRests /\ SourcesRest /\ KillRests /\ LinkRests /\ LaunchRests

AllNext ==
    \/ /\ which = "handler" /\ Handling!Next
       /\ UNCHANGED <<which, sourcesVars, killVars, vars, launchVars, releaseVars>>
    \/ /\ which = "sources" /\ Sources!Next
       /\ UNCHANGED <<which, handlerVars, killVars, vars, launchVars, releaseVars>>
    \/ /\ which = "kill" /\ Kill!Next
       /\ UNCHANGED <<which, handlerVars, sourcesVars, vars, launchVars, releaseVars>>
    \/ /\ which = "link" /\ Next
       /\ UNCHANGED <<which, handlerVars, sourcesVars, killVars, launchVars, releaseVars>>
    \/ /\ which = "launcher" /\ Launch!Next
       /\ UNCHANGED <<which, handlerVars, sourcesVars, killVars, vars, releaseVars>>
    \/ /\ which = "release" /\ Releasing!Next
       /\ UNCHANGED <<which, handlerVars, sourcesVars, killVars, vars, launchVars>>

AllSpec == AllInit /\ [][AllNext]_allVars

-----------------------------------------------------------------------------
(* The properties of the six, which their modules explain *)

AllTypeOK ==
    /\ which = "handler" => Handling!TypeOK
    /\ which = "sources" => Sources!TypeOK
    /\ which = "kill" => Kill!TypeOK
    /\ which = "link" => TypeOK
    /\ which = "launcher" => Launch!TypeOK
    /\ which = "release" => Releasing!TypeOK

\* What was asked and confirmed is what is written, of workspaces and of linked branches.
AskedAndConfirmed ==
    /\ which = "handler" => Handling!ConfirmedOnly
    /\ which = "link" => AskedFirst

\* A request is carried out once, and the program is downloaded by one launcher.
DoneOnce ==
    /\ which = "handler" => Handling!AtMostOnce
    /\ which = "launcher" => Launch!OneDownload

\* What a management command, "sandbox kill" or a release reports has happened.
ReportsAreTrue ==
    /\ which = "handler" => Handling!OutcomeIsTrue
    /\ which = "kill" => Kill!SummaryIsTrue
    /\ which = "release" => Releasing!PublishedIsOwn

\* The policy of the MCP server, also in a call of a tool it does not offer.
PolicyHolds == which = "handler" => Handling!PolicyHolds

\* What a function is served with goes together, though files are edited meanwhile.
SentIsClosed == which = "sources" => Sources!SentIsClosed

\* A deploy that comes to its end has put what it was asked for on one branch.
DeployedAsAsked == which = "sources" => Sources!DeployedAsAsked

\* "functions new" changes no file that exists.
NewKeepsFiles == [][which = "sources" => Sources!NewKeepsFilesStep]_allVars

\* A launcher runs a whole binary, and one that it has installed.
RunsInstalled == which = "launcher" => Launch!RunsInstalled

\* A version that can be installed has every platform, from one commit.
MainIsComplete == which = "release" => Releasing!MainIsComplete
=============================================================================
