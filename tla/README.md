# Verification of the Supabase CLI of Volcengine

TLA+ models of the parts of this repository that keep state and share it:
between goroutines, between processes, between a client and a server, and
between one run of a command and the next.  TLC checks the models on small
instances; TLAPS proves the most important properties for every value of the
constants.

All paths below are relative to the repository.  `PROJECT.json` lists the runs,
the mutants (for every property a change of the model, of the kind a bug would
be, that the property catches), the source lines of each definition, the
hazards and the theorems.

    tlc -config Deployments.cfg MCDeployments   # a run
    tlapm JobQueueProofs.tla                    # the proofs of a module


## 1. The system

The repository is a command line program in Go, with a launcher in JavaScript
and a release script beside it.  Most commands read flags and files, send
requests, and end.  The parts with state of their own:

| Part | State | Operations | Interacts with |
|---|---|---|---|
| Job queue, `pkg/queue` | channel of errors used as a semaphore, wait group | `NewJobQueue`, `Put`, `Collect`, goroutines | bulk deploy, storage cp, seed buckets |
| Credential store, `internal/volcengine` | `~/.volcengine/config.json`, login cache files, `supabase_config.json` | login, login from a credential file, logout (`--all`), configure set / profile / region / agent-plan / delete | every command and the MCP server read it; no lock |
| Login token, `EnsureValidLoginToken` | the cache file, the grants of the OAuth service | read, refresh with retries, write | credential store; the service |
| MCP login manager, `internal/mcp/policy.go` | one pending login behind a mutex, its goroutines | `config`, `requireLogin`, `wait` | credential store, browser |
| Management commands and MCP tools | workspaces, branches, computes, endpoints, restrictions on the service | resolve, prompt, write | link of the directory, default branch, other users |
| Function deploy, `pkg/function`, `internal/functions` | the functions on the server, sources on disk | bulk upload, upsert with retries; new, deploy, download with a walk of imports | job queue, Functions API, editor |
| Function serve, `internal/functions/serve` | file watcher with a timer, container, log streamer | watch, debounce, restart, follow | Docker, editor |
| Storage, `internal/storage`, `pkg/storage` | objects and buckets on the server | cp in both directions, mv, rm, ls; seed buckets | job queue, Storage API |
| Pages fast create | project, workspace, branch, deployment | create in steps, wait | management API |
| Sandbox | sandboxes on the server | kill one or all | management API |
| Migrations, `pkg/migration`, `internal/migration` | files of a checkout, the history table, the schema | new, push, up, down, repair, squash, fetch | git, other developers, the database |
| SQL splitter, `pkg/parser` | a tokenizer over runes | split | migrations |
| Link and solo mode, `internal/link`, `internal/solo`, `cmd/solo` | `link.json`, `project-ref`, profiles of branches | link, unlink, every command of a linked branch | other directories and processes |
| Local branches, `legacy/branch` | databases renamed to one another, directories, a file | create, switch, delete | Postgres, Docker |
| Launcher, `bin/cli.js` | a cache directory and a lock directory | resolve, mirror, download | npm, other launchers |
| Release, `scripts/release.mjs` | the packages in the registry | rails, publish | npm, git, a second host |

What is hard to get right in them:

* *Concurrency.*  Goroutines of the queue against its caller; tool calls of the
  MCP server against each other and the goroutines of a login; two processes
  that load, change and replace the same file without a lock; two developers
  who push to one database; files edited while they are collected, or watched
  while the runtime restarts; launchers that share a cache; two hosts that
  release one version.
* *Failure.*  A process killed between two files that belong together; an
  answer lost after the server acted; one job of several failing; a token that
  is used and cannot be written; a release that dies between two packages.
* *Ordering.*  Results that arrive after they were given up; a list made before
  a prompt and used after it; listings by offset that shift while entries are
  deleted; a timer that is set off again while it fires.
* *Timeouts and retries.*  Creates that are retried and refused as duplicates;
  refresh tokens that may be spent by the first attempt; locks taken for stale;
  logins that expire while they are completed.

What makes each part correct is what the properties of section 3 say; each
stands in its module behind a comment that says what it is about.


## 2. The modules

    WorkPool                 what the queue promises
      ^ implemented by
    JobQueue                 channel, wait group, goroutines, caller
      ^ INSTANCE
    BulkDeploy   StorageUpload   SeedBuckets

    UpsertFunctions  StorageObjects  FastCreate  FunctionServe
    McpLogin         LocalBranches

      all of these  <- MCServing, MCDeployments        run deployments

    CredentialStore, LoginToken  <- MCCredentialStore
    PendingMigrations            <- MCPendingMigrations
      ^ EXTENDS
    MigrationHistory             <- MCMigrationHistory
    SqlTokenizer                                       these: MCStores, run stores

    Commands                 handlers of the commands, as sequences of steps
      ^ EXTENDS
    McpTools                 handlers of the tools
      ^ EXTENDS
    Management               runs one handler          <- MCManagement
    SoloCommands             commands of a linked branch
      ^ EXTENDS
    LinkState                links, profiles, processes
    FunctionSources  Sandboxes  Launcher  Release      these: MCCommands, run commands

    JobQueueProofs, StorageObjectsProofs       <- DeploymentsProofs
    MigrationHistoryProofs, SqlTokenizerProofs <- StoresProofs
    SourcesAndProgramProofs                    <- CommandsProofs

An `MC` module gives modules the values TLC needs.  `MCDeployments`, `MCStores`
and `MCCommands` each check several modules in one run: the variable `which`
chooses one of them in the first state and never changes, and the variables of
the others rest.  So a behaviour is one of one module.  The MC module extends one
of its modules, whose properties the run checks as they stand (`MCDeployments`
extends `McpLogin`, `MCStores` `CredentialStore`, `MCCommands` `LinkState`), and
has the others as instances, with properties like `which = "bulk" => ...`.
A module states what it assumes of its constants in an operator `Assumptions`;
the proofs assume it, and an `ASSUME` of the MC module has TLC evaluate it on
the values of the run.  Definitions named as mutants are used by no
specification; each stands before the definition it alters.

### JobQueue, WorkPool

`errCh` is the channel, a sequence in which an error is named by its job; `wg`
the wait group; `worker[j]` is where the goroutine of job `j` is: in its job,
before the send, between the send and `wg.Done`, ended.  `pc`, `cur`, `i` and
`collected` are the calling goroutine's place and locals.  `Put` is receive,
`wg.Add` and `go`: nothing can be observed between them, since only the
goroutine it starts and the caller itself look at the group.  `Collect` is split
at every channel operation.  The caller is any program that calls `Put` and
`Collect` in any order and may stop at any time (`Leave`).

`WorkPool` has neither channel nor group: jobs start when fewer than `Workers`
are live, each error is reported once, `Collected` happens only when nothing is
live.  The refinement mapping reads `live` off the goroutines and `reported` off
what the caller was given.

### BulkDeploy, StorageUpload, SeedBuckets

All three instantiate `JobQueue` on their own variables, so that every step of a
queue is also a step of the command that uses it.  `BulkDeploy` adds the slice
`toUpdate`, what the server stores (`bundled`) and serves (`live`), and the
place of `bulkUpload`, which returns from the middle of its loop with the first
error while goroutines still run.  `StorageUpload` adds the three requests of a
job (upload, create bucket, upload again), the bucket and the files on the
server, the error the walk ended with, and the result.  `SeedBuckets` has the
loop over the declared buckets, then one queue for the files of all of them,
with a walk that leaves by the first error any `Put` hands it; others create
and remove buckets meanwhile, and a removal takes the objects with it.

### UpsertFunctions, FunctionSources

`UpsertFunctions`: the loop over the functions in the order of a Go map, the
list read at the start, `slugToIndex` with its `-1` for a refused create, the
shared backoff policy, the bulk update at the end, and a server that loses
requests and answers and on which another client creates functions.

`FunctionSources`: `functions new`, `deploy` and `download` on files that the
user edits at any time.  A file has the content "plain" or "imports"; the walk
follows relative imports file by file and reads each file when it comes to it.

### FunctionServe

The goroutine of the watcher with its two `Reset` calls, the timer (of Go 1.23
or later: a `Reset` takes back a tick nobody has received), the `select` of
`Run`, `restartEdgeRuntime` split at each thing another actor can see (container
killed, removed, sources read, directories added to and removed from the
watcher, container started), and the log streamer, which goes by the name of the
container and has to tell a restart from a failure.  Edits, ignored edits, an
overflow of the kernel's queue and the end of the runtime are external.

### StorageObjects

`storage rm`, `mv` and the downloads of `cp` in one bucket.  The service knows
objects; directories are what a listing says, page by page and by offset, while
others add and delete.  Paths are sequences of names, and `Suffix` says which
name begins which, because the code cuts prefixes off strings.  The jobs of the
download are those `WorkPool` allows.

### FastCreate

The steps of `RunFastCreate` in their order, with the two waits, the branch it
resolves once, and a service on which the workspace comes up or not, the default
branch is changed, and other deployments push this one off the list.

### LocalBranches

`create`, `switch` and `delete`, each at its steps in Postgres, in the
directories and in the file `_current_branch`.  `Stop` ends a command between
any two, by an error or by a kill; `cut` remembers that this happened between
the renames and the file.  `dbs[n]` says whose data the database `n` holds.

### CredentialStore, LoginToken

`config`, `caches` and `plans` are the three stores.  A running command is a
record with the file steps it has still to do (`todo`) and the copy of
`config.json` it loaded (`edit`); each step is one file read or one atomic
replacement (`SaveFileConfig`, `writeLoginCache` and `SaveSupabaseFileConfig`
write a temporary file and rename it).  `LoginSteps`, `ImportSteps`,
`LogoutSteps`, ... give the order of the steps in the source, which differs
between a browser login and an import.  `Fail` is a step that returns an error,
`Crash` a process that is killed.  Keys, endpoints and the region of a profile
are left out, so that `configure region` is a command that saves what it loaded.
What may happen depends on the `scene`, a record chosen at the start and never
changed: which commands run, which identities the profiles use, whether
commands overlap, and whether they fail and are killed.  Some properties hold in
some scenes only; each says in which, and why not in the others.

`LoginToken` is `EnsureValidLoginToken` by its steps: read the cache, exchange
the refresh token when the credentials are near their expiration, with retries,
write the cache.  The service is external; `world` says whether it replaces
refresh tokens and whether answers get lost, writes fail and processes die.

### McpLogin

Each tool call by its places in `policy.config` and `requireLogin`; each login
with its two goroutines, the one of `StartPendingConsoleLogin` and
`manager.wait`; the mutex `mu`; the profile on disk, which other commands change
without the mutex; deadlines that pass at any time.

### PendingMigrations, MigrationHistory, SqlTokenizer

`FindPendingMigrations` and `GetPendingMigrations` are operators, the merge loop
a recursive function over the two indices, with the comparison as a parameter.

`MigrationHistory` has the files of each developer (version to body, a body
being the migrations it holds: one, until a squash), the history table `rows`,
what the database was brought to (`ran`), and the command each developer is in
the middle of.  A command lists first and applies later, one transaction per
file: `ExecBatch` runs a file and inserts its row in one transaction, and fails
on a row that is there.  `Stop` ends a command between any two steps (the user
declines, a statement fails, the process dies), and `ApplyNext` may lose the
reply of a commit.  The `team` is chosen at the start like a scene: who writes,
whose commands reach the database, which commands.  A squash goes by its steps:
the last file is cut (`O_TRUNC`) and the dump written into it, which may fail at
any point; the merged files are removed, or an error is printed of some; then
the history table is brought to the version given, or to that of the first file
there is.  A squash of a single file has only the last step.  `torn` is what was
cut from a file by a dump that failed.  A part of a dump is a part of the
statements, so that a body stands for what its file does to the schema.  git is
external: a merge in which a squashed file replaces the files it holds, and a
whole file what a failed dump left of it; all else that overlaps is a conflict,
which nobody resolves.

`SqlTokenizer` reads a script symbol by symbol through the states of
`pkg/parser/state.go`; a state is a sequence, because an `AtomicState` holds
another one.  The reference definition of where statements end
(`StatementEnds`) is written from what PostgreSQL says of comments, quotes,
dollar quotes, parentheses and function bodies: it divides the text into lexemes
(`Lexemes`) and follows the groups that are open (`Groups`).  `Misread` and
`Nested` name, in terms of lexemes and groups, the places where the tokenizer
reads otherwise (section 7); everywhere else both agree, which is proved for
texts of any length.

### Commands, McpTools, Management, Sandboxes

A handler is the sequence of its steps, as its function has them: find the
target, resolve the branch, ask, write, unlink; every other name in a sequence
is an API action that writes.  `Commands` and `McpTools` hold one definition per
handler, `Management` runs one of them while others change the default branch,
delete the workspace or link the directory elsewhere, and while requests are
refused, fail, or are carried out without an answer.  A delete that has done its
work looks for the link of the directory: one that it cannot read (a debug
message, `delete.go:79-82`) or cannot remove stays, and it ends well (`kept`).  `Sandboxes` is
`sandbox kill`, whose loop and summary are more than such a sequence.

### SoloCommands, LinkState

`LinkState` has a `link.json` and a `project-ref` for each directory and the one
`config.json` with a profile per URL, all without a lock.  `SoloCommands` gives
the commands of a linked branch as steps (read the link, the profile, ask,
request), since each client resolves link and profile anew.  `together` and
`emptied` remember that two commands overlapped and that a kill cut the file.

### Launcher, Release

`Launcher`: how `bin/cli.js` finds the binary, mirrors it to the cache, takes
the lock, lets npm install and renames, by several launchers that are killed at
any step and whose lock may become stale.  `Release`: the rails that look at the
registry and the publishing of one version's packages, by runs that die, lose
answers, or run on two hosts while the tag moves.

## 3. The runs

The four runs that pass:

| Run | What it checks |
|---|---|
| `job_queue` | `JobQueue`: never more jobs than the limit (`AtMostWorkers`), no blocked send (`SendNeverBlocks`), each error returned once (`ErrorDeliveredOnce`), every call returns (`CallsReturn`), and `JobQueue` implements `WorkPool` (`ImplementsPool`) |
| `stores` | `CredentialStore`: the current profile exists and Agent Plan defaults have one (`ProfilesAgree`), profiles and cache files belong together (`CachesMatchProfiles`), no crash costs a login (`LoginSurvives`).  `LoginToken`: `SessionSurvives`.  `PendingMigrations`: `FindsPending`.  `MigrationHistory`: the table tells what ran, once (`HistoryTellsWhatRan`) and in order (`RunsInOrder`), what is up to date has run, and what ran is still in a file, whatever squash fails, but for the content of the one file it cut (`FilesAreRun`), down reverts what it named (`DownKeepsTheRest`), repair and fetch leave files and rows equal (`RepairsAgree`).  `SqlTokenizer`: `CutsAtEnds` |
| `deployments` | `BulkDeploy`: `BulkIsAtomic`.  `StorageUpload`: `NothingAfterReturn`.  `StorageObjects` and `LocalBranches`: nothing is lost that was not named (`ObjectsAreKept`).  `UpsertFunctions` and `FunctionServe`: a duplicate, or a restart, is not taken for a failure (`GivesUpOnlyOnOutages`).  `FastCreate`: `OneBranchOnce`.  `McpLogin`: `OneOpenLogin`, `StatusIsOwnResult`.  Whatever reports success has done it all (`SuccessMeansDone`, of six modules).  What must come to an end or be served does (`Returns`, of `BulkDeploy`, `FastCreate`, `McpLogin`, `FunctionServe`) |
| `commands` | `Management`, `LinkState`: written is what was asked for and confirmed (`AskedAndConfirmed`).  `Management`, `Launcher`: nothing is done twice (`DoneOnce`).  `Management`, `Sandboxes`, `Release`: reports are true (`ReportsAreTrue`).  `Management`: `PolicyHolds` of the MCP server.  `FunctionSources`: `SentIsClosed`, `DeployedAsAsked`, `NewKeepsFiles`.  `LinkState`: `LinkKeepsProfile`, `RequestsGoHome`.  `Launcher`: `RunsInstalled`.  `Release`: `MainIsComplete` |

Each also checks the types of its modules.  Each of the other eight runs has
one property that a document, a comment or a test of the repository states and
the code does not keep (section 6).

### Bounds, and why they are enough

* Queue: two workers and four jobs.  Jobs wait for both tokens, an error is
  returned by the `Put` of another job, `Collect` runs in rounds.  Three jobs
  in the commands that use it: two run while a third waits.
* Credential files: two processes (what one overwrites the other has loaded),
  two profiles (the current one goes and another is chosen), three sessions
  (two of one profile, one of the other), four scenes: `Orderly` all commands
  one after the other, `Faulty` with failures and kills, `Sharing` an identity
  in two profiles, `Racing` two commands at a time, failing and killed.
* Token: three commands and four grants, so that one command may hold a token
  two refreshes old; three attempts, as in the code.
* Merge: all 64 x 64 pairs of subsets of six version texts of one length: every
  pattern of a row before, between and after files, twice.
* Migrations: seven teams.  Three migrations for two developers, four when one
  pushes, up to six for one (`MaxVersion`); two for two developers who squash,
  three for one.  An inversion needs two migrations, a squash two, a squash
  beside a pending file, or beside one that a failed squash has cut, three.
* Splitter: all texts up to six symbols over twelve alphabets of four or five
  symbols, each with the separator and two of the constructs that hide one, so
  that one stands in the other.  (The proof has texts of any length.)
* Functions and files: three; upsert: four functions, one of them disabled, and
  three retries, so that two deployed ones stand beside one refused as a
  duplicate.
* Storage: four objects over two levels, with a name that begins another and a
  path that is a file and a directory; a page of one entry; one change by
  others: every listing takes several pages.  (The proof has pages of any length.)
* Buckets: two with three files, one change by others.  Fast create: two
  branches, a list of deployments one entry long (`Window`), two polls
  (`Ticks`).  MCP: three calls and two logins, one given up and its successor.
* Serve: two directories, two edits, one failure of the runtime: an edit before
  and one during a restart.  Branches: three names, six commands.
* Management: two workspaces, branches and regions, one resend by the SDK, one
  change by others.  Links: two processes, directories and URLs, two commands.
* Launchers: three with three starts (one downloads, one waits, one steals).
  Release: two platform packages and the main one, three runs on two hosts from
  two commits.

Symmetry: in `stores` the processes of the credential store, in `commands` and
`quota_retried` workspaces and branches (which are also the directories, hosts,
URLs and commits).  The specifications treat them alike and no liveness is
checked there.

### Where the system may stop

`CHECK_DEADLOCK FALSE` is set where commands end and bounds end the work of
users: in all runs but `storage_new_bucket_race`.  `CallsReturn`
and `Returns` say where the system may not be stuck.


## 4. Fairness

* `JobQueue`, `BulkDeploy`: weak fairness of each goroutine and of the caller
  inside a call.  The Go scheduler runs every goroutine that can go on; a job is
  assumed to return, as it does when its requests have timeouts.  Nothing is
  assumed about which call comes next.  Weak fairness is enough although
  goroutines compete for room in the channel, because a send never finds it full
  (`SendNeverBlocks`).  That `seed buckets` returns follows in the same way from
  the queue, and is not checked again.
* `FastCreate`: weak fairness of its next step.  Its waits end by their
  deadline, which the model reaches after `Ticks` polls.
* `FunctionServe`: weak fairness of the watcher's goroutine, of the timer and of
  the loop.  Nothing is assumed of the editor or of the runtime.
* `McpLogin`: strong fairness for the handlers and `wait`, which compete for a
  `sync.Mutex`; Go's mutex hands over to a waiter that starves.  Weak fairness
  for the end of a login: the callback server gives up at its deadline.
* Services, users and other commands promise nothing anywhere.  The other
  modules have no fairness, and no liveness property.

In `MCDeployments` these conditions are on the steps of the composition.  One
weak fairness condition covers the steps of several commands: as `which` never
changes, only those of one command are ever enabled in a behaviour.


## 5. The proofs

Proved are all invariants and action properties the passing runs check, and the
refinement.  The modules `DeploymentsProofs`,
`StoresProofs` and `CommandsProofs` prove what the three composed runs check,
for the specifications those runs check (`AllSpec`); the five others hold what
they rest on.

| Module | Theorem | States |
|---|---|---|
| `JobQueueProofs` | `Invariance` | the inductive invariant `Inv` |
| | `TypeCorrect` | types; the wait group never goes negative, which would panic |
| | `Concurrency` | `AtMostWorkers` |
| | `NoBlockedSend` | `SendNeverBlocks` |
| | `ErrorAccounting` | `ErrorDeliveredOnce` |
| | `CollectCompleteness` | what holds when `Collect` returns |
| | `Refinement` | every behaviour is one of `WorkPool` (`ImplementsPool`) |
| `DeploymentsProofs` | `AllTypeOKAlways` | types of the eight modules |
| | `BulkIsAtomicAlways`, `NothingAfterReturnAlways` | the commands that use the queue |
| | `SuccessMeansDoneAlways` | success of an upload, an upsert, a fast create, rm / mv / cp -r, a seeding and a switch means all was done |
| | `ObjectsAreKeptAlways` | no object, and no database of a branch, is lost |
| | `GivesUpOnlyOnOutagesAlways`, `OneBranchOnceAlways` | `UpsertFunctions` and `FunctionServe`; `FastCreate` |
| | `OneOpenLoginAlways`, `StatusIsOwnResultAlways` | `McpLogin` |
| `MigrationHistoryProofs` | `PendingFound`, `HistoryTells`, `RunsInOrderAlways`, `FilesAreRunAlways` | the merge; the history |
| `SqlTokenizerProofs` | `CutsAtEndsAlways` | the splitter by itself |
| `StoresProofs` | `AllTypeOKAlways` | types |
| | `ProfilesAgreeAlways`, `LoginSurvivesAlways`, `CachesMatchProfilesAlways` | `CredentialStore` |
| | `SessionSurvivesAlways` | `LoginToken` |
| | `HistoryTellsWhatRanAlways`, `RunsInOrderAlways`, `FilesAreRunAlways`, `FindsPendingAlways`, `DownKeepsTheRestAlways`, `RepairsAgreeAlways` | migrations |
| | `CutsAtEndsAlways` | the splitter |
| `SourcesAndProgramProofs` | `SentIsClosedAlways`, `DeployedAsAskedAlways`, `NewKeepsFilesAlways`, `SummaryIsTrueAlways`, `RunsInstalledAlways`, `OneDownloadAlways`, `MainIsCompleteAlways`, `PublishedIsOwnAlways` | function sources, `sandbox kill`, launchers, releases |
| `CommandsProofs` | `AllTypeOKAlways`, `AskedAndConfirmedAlways`, `DoneOnceAlways`, `ReportsAreTrueAlways`, `PolicyAlwaysHolds`, `SentIsClosedAlways`, `DeployedAsAskedAlways`, `NewKeepsFilesAlways`, `RequestsGoHomeAlways`, `LinkKeepsProfileAlways`, `RunsInstalledAlways`, `MainIsCompleteAlways` | all of run `commands` |
| | `ConfirmedOnlyAlways`, `AtMostOnceAlways`, `OutcomeIsTrueAlways`, `PolicyHoldsAlways` | one handler of `Management`, of any plan that is well formed |

### What they assume

Of the constants a theorem assumes the `Assumptions` of the modules it is about,
which TLC evaluates on the values of the runs (`AllAssumptions` of the `MC`
modules), and nothing else: bounds are natural numbers, a page and the number of
attempts not zero; `None`, `NoSession` and the marks of a file are no members of
the sets they stand beside; the developers, the tool calls and the logins are
finitely many; the files of a fast create are distinct and are not named like its
other steps; "main" is a local branch, and "postgres" is not; the plan of a
handler asks before it writes and finds a workspace before it uses it
(`WellFormed`), which TLC evaluates on every plan of `Commands` and `McpTools`.
Nothing is assumed of the sets of jobs, functions, objects, profiles, processes
or directories.  In run `commands` the other parts have the values `MCCommands`
gives them; the theorems about `Management` and those of
`SourcesAndProgramProofs` say the same for all values.

The proof of the whole takes an invariant for each value of `which`, and that of
the module the `MC` module extends, whose variables rest in a first state while
another part runs.  Where a part is proved in a module of its own, it is an
instance there, and lemmas (`SameSources`, `SameCuts`, ...) show that its
definitions are those of the model.

### The queue and the commands that use it

None of the queue's properties is inductive.  `AtMostWorkers` needs `Tokens`: the
results in the channel, the goroutines that owe one and the one `Collect` has in
its hand add up to `Workers`.  That gives `SendNeverBlocks` as well: a goroutine
about to send owes one of at most `Workers` tokens.  Completeness of `Collect`
needs `Group` (the wait group counts the unfinished goroutines), so that none is
left after `Wait`, and `Draining`: in iteration `i` of its loop the last `i`
places of the channel hold the nils `Collect` has put there, so that after
`Workers` iterations it has taken out every result and none of its own nils in
place of one.  `ErrorDeliveredOnce` is the accounting that ties these together.
`Refinement` maps each action to `Start`, `Finish`, `Collected` or a stutter and
uses the invariant for the guards of `WorkPool`.

`DeploymentsProofs` has this module as an instance: every step of a bulk
deployment, an upload or a seeding is a step of the queue or leaves it alone, so
the queue's invariant holds there too.  Added to it is what ties the command to
it: the slice has an entry for each upload that went well (`Filled`), a file is
stored when its job has ended without an error (`JobsStore`, `SeedsStore`), a
bucket that was found is there unless others removed it (`BucketsInv`), and the
command goes beyond its jobs only when all have ended and, on success, none has
failed, which is what a `Collect` without an error means.

### Storage: what waits

`ObjInv` is what may not be lost: a command moves or deletes only what its
arguments cover, and what it has listed, stacked or put into a job is covered.

That a success has done *everything* cannot be read off the objects while the
command runs.  `AllDone` says where an object that was not yet removed, moved or
copied *waits*: below a directory on the stack, behind an entry of the page that
was read, or on a page of the present listing that was not read yet (`Waits`).
Listings go by offset, so this rests on facts about a listing: it shows an entry
for every object below the directory (`ListingTells`), its order is unique
(`OrderIsOne`), and a page holds the entries from its offset on (`PageIs`).
Removals do not shift it, because `rm` and `mv` read all pages of a directory
before they delete from it (`ListStoragePaths`), and `cp` changes nothing in the
bucket.

The first attempt at `mv -r` failed for a reason: moved to a directory *above* the
source, an object may arrive where the walk comes to it again and is moved a
second time (`mv.go:88-118`), so that it is not where its path says.
`SuccessMeansAll` has the condition `Apart` for it: no target is again below the
source.

### Plans

Of an upsert: what the list showed of a function still to come is what the
server runs, and the functions behind run what was wanted (`ServerInv`).  Of a
fast create, and of a management handler: the position in the plan tells
everything.  For `FastCreate` the log is a prefix of the writes of the plan
(`LogInv`), so nothing is done twice or left out; for `Management` `IInv` says,
for the `k` steps that are behind, what was found, asked and confirmed and which
writes are in the log, for any sequence of steps that is well formed.

### The files

`CredentialStore`: `CurrentIsAProfile` fails for the copy a command has loaded,
and Agent Plan defaults may lag behind a profile in the middle of a command.
`IInv` says of every running command which programs its remaining steps can be
(`Form`: the load comes first, the plans change in two adjacent steps, ...) and
what its copy still agrees with; `Turns`, in scenes where commands do not
overlap, says that the copy is the file.  `CacheInv` and `CommandInv` say for
each file step that is still to come which cache file may lack its profile, or
the other way round, until then.  For the token, `TokenInv` says who has the
newest grant the service accepts: the cache file, or the one command that has
exchanged it and is about to write.

`LinkState`: `RoutesInv` says of every remaining program of steps that the link
is read before the profile, the profile before a request, and nothing resolved
after the first request; and of the values read that, as long as nobody moved
the directory's link, they are those of its home.  `KeepInv` adds the copy of
the profiles that `link` holds and, as the last step of `link` approaches, that
the profile it will point to is there.

`FunctionSources`: what was sent and imports something not yet sent has it in the
queue of the walk (`WalkInv`).  `LocalBranches`: a database under a branch's name
holds its data, part of them or nothing, and what the running command has found
still holds (`DataInv`, `CommandInv`).

### Migrations

`PendingFound` is about the merge loop for any two finite sets of versions.  Its
recursion goes over two lists; the loop is followed by sets of numbers (`Climb`:
a set of naturals that begins with 0 and contains successors up to n contains
n), since the library's induction rules cannot be used.

`HistoryInv` has five parts: among developers who neither repair nor squash the
rows are what ran (`IInv`; a commit that inserts a row fails when the row is
there); what files, rows and the queues of commands hold (`TypeInv`); what ran,
and is not `torn`, is written in a file of somebody (`Written`); what one pusher has
queued is newer than what ran (`Ordered`); what the files of a developer on his
own and the table have in common (`Lone`).  `TypeInv` says of a squash that is
under way that its file, from the end of the dump on, holds all that the files
hold which are yet to be removed (`Dump`): that is why only the file it cut can
lose anything, and why `Written` survives a removal that is stopped half-way.
Two attempts failed because they promised too much.  `Written` needs that git's
merge drops a file only for one that holds all of its migrations and more
(`GitPull`); `DownKeepsTheRest` is true
of a developer on his own, because the pushes of another bring rows that the
checkout does not have.

### The splitter

The tokenizer goes through a text once and keeps a state; the reference looks
ahead, from each lexeme to its end.  All that the tokenizer keeps is what the
text has made of it, symbol by symbol (`TraceInv`, the invariant of the
specification), so the rest is about texts.  A state `Fits` a text after `n`
symbols when its groups are those that are open there (`Wrap`) and its innermost
state is that of a place between lexemes (`Rest`: ready, or behind the end of a
quote, or a `-`, a `/` or a `$` that has opened nothing) or of a place in a
lexeme that has not come to its end (`Inside`: a quote knows its delimiter, a
comment its depth, a dollar quote its tag).  `StepFits` says that one symbol
leads from a state that fits to one that fits, or, exactly where the reference
ends a statement, to `Emit`; `Climb` takes this through the text.  `Lexemes`,
`Groups` and `NextState` are recursive functions: `LexemesDo`, `GroupsDo` and
`NextStateDo` build them up to the length of the text and show that they have
the values their definitions ask for.  The proof fixed the reference more than
once: each place where a state did not fit was either a mistake in the
definition of a lexeme or one more disjunct of `Misread`, beyond the length of
the texts that TLC reads.

### The actors

`McpLogin`: an open login that has not expired is the one the manager points to
(`OpenIsPending`), and a login that waits has no result yet (`OwnResult`): so no
second login is started beside it, and no result can be recorded for another.

`FunctionServe`: a container that ended with code 1, and an answer of the
streamer that says so, are of a runtime that failed by itself (`ServeInv`).

`Launcher`: `FindInv` says that a launcher that has installed a binary is about
to name it, and that a cache directory without a binary comes from a mirror;
`LockInv` that, until a lock gets old, one launcher is between acquiring the
lock and releasing it.  `Release`: everything a run has come past, or found, has
its commit (`Behind`), by the order in which it publishes.

### Only model-checked

* `CallsReturn` and `Returns`: liveness, under fairness, is beyond the prover.
* The properties of the eight runs that fail.


## 6. What the code does otherwise than it says

Eight runs end with a trace in which the code does something else than the
repository says of it.

* `storage_new_bucket_race`.  `storage cp -r -j 2` to a new bucket: two jobs are
  told that the bucket is missing, both create it, the service refuses the
  second, and `internal/storage/cp/cp.go:194` returns that error where an upload
  would now succeed.
* `credential_logout_all`.  `logout --all` says that it removes all cached login
  credentials; it visits the console profiles that are still in `config.json`.
  A cache whose profile was replaced by `configure set` or removed by `configure
  delete` stays.
* `history_down`.  `migration down` lists the rows it will revert, drops the
  database, and rebuilds it from the files of the checkout, which are not
  compared with the rows: files that were never pushed are run, rows that have
  no file are lost.
* `sql_parentheses`.  In `pkg/parser/state.go:204` one closing parenthesis is
  passed to the inner group and then taken for the outer one as well: a `;`
  between them ends a statement in the middle of a group.
* `quota_retried`.  The MCP tools that set an AI Gateway quota use the client
  with the retries of the SDK, where `internal/mcp/policy.go:329` says that
  write operations are not retried.
* `python_deploy`.  The files of a Python function are found by its imports, so
  that the launcher and the requirements that `functions new` made are not
  deployed.
* `sandbox_kill_all`.  `sandbox kill --all` asks for one page of a hundred and
  reports success.
* `launcher_heals`.  A mirror into the cache that fails after it made the
  directory leaves one without a binary, which no launcher replaces: every start
  throws, and removes what npm has just installed.


## 7. Limits of the code that the models show

These appear as conditions of properties, or as values the models leave out.
They are what the code does where it promises nothing precise.

Queue and storage
* A concurrency of zero (`storage cp -r --jobs 0`) makes a queue without
  tokens: the first `Put` never returns.
* `cp -r` of a path without the final slash also takes siblings whose names begin
  with it; `rm -r a/` and `mv -r a/`, with one, find nothing.  Where both an
  object `a` and `a/...` exist, `rm -r a` leaves the second (`rm.go:119`).
* `mv -r` of a directory to one above it may move an object twice, because the
  walk comes to where it was put (`mv.go:88-118`).
* Deletions by others shift the offset of a listing, so that entries are skipped.
* A download that fails leaves an empty file, and the next one refuses to
  overwrite it (`objects.go:136`); downloads of two objects to one local name
  collide (`cp.go:105`).
* In solo mode `config.toml` is not loaded, so that `seed buckets` of a linked
  branch seeds nothing and reports success.

Credentials and links
* Profiles that share an identity share a cache file, and the logout of one
  takes it from the other.
* A browser login removes the cache of the old session before it saves the
  profile; `configure set` and `configure delete` leave cache files behind; a
  logout that fails half-way leaves the Agent Plan entry.
* A refresh that is under way during a logout writes the cache again.  With a
  service that replaces refresh tokens a lost answer costs the session.
* `policy.config` may return the configuration of its first, failed load when
  the login completes just then (`internal/mcp/policy.go:313-317`).
* `projects delete` says nothing when it cannot read the link of the directory,
  and the directory stays linked to a workspace that is gone
  (`internal/projects/delete/delete.go:79-82`).
* Two `link` commands that overlap lose a profile (`internal/solo/config.go:117`),
  and a kill inside the write of the profiles loses all of them (`:332`).
* A `link.json` that was cut is repaired neither by `link --yes` nor by `unlink`
  (`cmd/link_factory.go:388`).  `unlink` of a direct link leaves the files of
  an earlier link with a workspace.

Migrations and SQL
* Two pushes that overlap run a newer migration before an older one.  A squash
  that includes a migration not yet pushed marks it as applied.  A `db pull` that
  fails leaves a part of its migration file.
* A squash truncates its file before it dumps the schema into it (`squash.go:121`).
  When the dump fails, the file is empty or cut; run again, the squash reads it
  as it is, succeeds, and may write what is left to the history table.  A merged
  file that cannot be removed only makes it print an error (`squash.go:75`); with
  no version given it then brings the table to that file instead of the squashed
  one (`squash.go:162`).
* Versions of different lengths: the directory sorts `10_` before `1_`, the
  database `1` before `10`, and the merge reports files as missing that are
  there.  Two migrations made within a second have one version.
* The tokenizer misreads: nested parentheses, `CASE ... END` inside `BEGIN ATOMIC`,
  `ATOMIC` and `END` as parts of names, a tag behind a letter (`a$x$`), tags that
  share a `$` (`$x$x$`), tags with letters of several bytes, comments whose
  delimiters share a symbol (`/*/`, `*/*` in a comment), a `-` or a tag that ends at
  a `;` in a group, `\)` in a group, and `\'` in a quote that begins with `E`, which
  the model leaves out.
  In `pkg/parser/token.go:53-57` an inner `width` hides the outer one.

Serve, branches, launcher
* Nobody reads the watcher's error channel: after an overflow of the kernel's
  queue edits may go unnoticed.  Edits of a directory between reading and
  watching it are missed until the next one.  Editing without a pause postpones
  the restart for as long.  A runtime that ends with 0 or 137 is followed again
  for ever.
* Local branches: `create` with a name that is taken reports success
  (`create.go:34`); `main` has no directory and cannot be switched back to; after
  a cut between the renames and the file `_current_branch`, databases and file
  disagree for good; `create` or `delete` that fail leave a database without a
  directory, and a switch that fails early a database that allows no connections.
* A launcher waits up to fifteen minutes for the lock of one that died; a lock
  that looks stale may be stolen from one that lives.


## 8. What is not modelled

* *Local stack* (`start`, `stop`, `db reset`, ...), *seed data*, *schema diff and
  declarative schemas*, `db push`, `config push`, `bootstrap`: no command of this
  program reaches them (`cmd/root_command_assembly.go` registers none; of the
  schema tools `db pull` reaches one dump into one file).  What `FunctionServe`,
  `LocalBranches` and `MigrationHistory` need of them is modelled there.
* *Self update* and *skills*: sequential downloads by one process with one
  rename at the end.  *Telemetry*, *seat and skills notices*: best-effort state
  that nothing else depends on.
* *Project configuration*: parsing and comparing `config.toml`; a link by
  environment variables.
* *Management API client*: the wrappers convert fields, one request each; what
  matters of them (which ones retry) is in `Management`.  `pkg/api` (28 000 lines)
  is generated and used by no command, `pkg/diff` is a copy of an algorithm of
  the Go project.
* Of modelled parts: bundling and the multipart upload of a function, JWT, import
  map and runtime flags; storage commands on several buckets; roles and vault
  secrets; the limit on a statement's length and its trimming; the dry run and
  the rails on branch and tree of a release; what a container is given; flags,
  prompts for a choice, output, wording and logging everywhere.

The map of `PROJECT.json` covers about a seventh of the implementation's lines.
What it leaves out is for the larger part generated code, conversions between
the API's records and the output, configuration parsing, and packages of the
local stack that no command calls.


## 9. What is left

1. An atomic credential store, in which each command is one step, that
   `CredentialStore` implements where commands neither overlap nor fail; a
   history in which a push is one step, for one pusher.
2. `SelfUpdate` with skills; `Telemetry`.
