----------------------- MODULE SourcesAndProgramProofs -----------------------
(***************************************************************************)
(* Theorems about four parts that commands consist of: about               *)
(* FunctionSources, for any number of functions, branches, files, commands *)
(* and edits; about Sandboxes, for any number of sandboxes that start and  *)
(* end during a "sandbox kill"; and about how the program is fetched and   *)
(* released.  Of Launcher, for any number of launchers and of starts: a    *)
(* launcher runs a whole binary, and one that npm has installed unless a   *)
(* mirror was at work; and as long as no lock gets old, one downloads.  Of *)
(* Release, for any number of hosts, commits and packages: the main        *)
(* package is published only when all platforms are, from the same commit, *)
(* and a run that reports success has released its own.                    *)
(***************************************************************************)
EXTENDS FunctionSources, TLAPS

CONSTANTS
    Ids, Matching, Limit, Changes,     \* Sandboxes
    Procs, Starts,                     \* Launcher
    Hosts, Commits, Last, Runs         \* Release

VARIABLES
    alive, all, step, sandboxIDs, requested, killed, failed, before, changes, summary,
    cache, lock, starts, proc, mirrored, aged,
    registry, runs, host

Killing == INSTANCE Sandboxes WITH outcome <- summary
Launch == INSTANCE Launcher
Rel == INSTANCE Release

-----------------------------------------------------------------------------
(* The paths of the files *)

\* What a file of a function imports are files of the function, or the shared one.
LEMMA ImportsArePaths ==
    ASSUME NEW p \in Paths
    PROVE  /\ Imports(p) \subseteq Paths
           /\ p[2] = "deno.json" => Imports(p) = {}
<1>1. CASE p = shared
    BY <1>1 DEF Imports, shared
<1>2. CASE p \in Slugs \X Names
    <2>1. PICK s \in Slugs, n \in Names : p = <<s, n>>
        BY <1>2
    <2>2. p[1] = s /\ p[2] = n
        BY <2>1
    <2>3. <<s, "helper.ts">> \in Paths /\ <<s, "index.ts">> \in Paths /\ shared \in Paths
        BY DEF Paths, Names
    <2> QED BY <2>2, <2>3 DEF Imports
<1> QED BY <1>1, <1>2 DEF Paths

\* The files the commands name are files of a function.
LEMMA NamedPaths ==
    ASSUME NEW s \in Slugs
    PROVE  /\ Entrypoint(s) \in Paths
           /\ <<s, "deno.json">> \in Paths /\ <<s, "deno.json">>[2] = "deno.json"
           /\ <<s, "copy">> \in Paths
           /\ {<<s, n>> : n \in {"index.ts"}} \subseteq Paths
           /\ {<<s, n>> : n \in PythonFiles} \subseteq Paths
BY DEF Entrypoint, Paths, Names, PythonFiles

-----------------------------------------------------------------------------
(* The invariant *)

Contents == {"none", "plain", "imports"}
Entrypoints == {"none", "off", "index", "app"}
Holds(files) == DOMAIN files \subseteq Paths /\ \A q \in DOMAIN files : files[q] \in Contents

TypeInv ==
    /\ asked \subseteq Slugs /\ todo \subseteq Slugs /\ slug \in Slugs \union {None}
    /\ disk \in [Paths -> Contents]
    /\ config \in [Slugs -> Entrypoints] /\ configured \in [Slugs -> Entrypoints]
    /\ default \in Branches /\ access \in Branches \union {None}
    /\ op \in {"none", "new", "deploy", "download"} /\ outcome \in {"none", "ok", "error"}
    /\ queue \subseteq Paths /\ seen \subseteq Paths /\ Holds(sent)
    /\ DOMAIN deployed \subseteq Slugs
    /\ DOMAIN server = Branches \X Slugs
    /\ edits \in Nat
    /\ op # "none" => access \in Branches
    /\ op = "download" => queue \subseteq DOMAIN sent

\* What is on the service are functions with files.
ServerInv == \A k \in DOMAIN server : server[k] # None => Holds(server[k].files)

\* The walk of a function: what a file imports as it was read has been come to,
\* or is waiting in the queue.
WalkInv ==
    op = "deploy" /\ ~NoFunction =>
        /\ seen \subseteq DOMAIN sent \union missing
        /\ \A q \in DOMAIN sent : sent[q] = "imports" => Imports(q) \subseteq seen \union queue

\* A deploy: each function it was asked for is still to do, under way, deployed
\* or disabled, and only one of these.
TurnInv ==
    op = "deploy" =>
        /\ asked \subseteq todo \union {slug} \union DOMAIN deployed
                              \union {s \in Slugs : configured[s] = "off"}
        /\ todo \intersect DOMAIN deployed = {} /\ slug \notin todo \union DOMAIN deployed

Served == \A s \in DOMAIN deployed : server[<<access, s>>] = deployed[s]

IInv == TypeInv /\ ServerInv /\ WalkInv /\ TurnInv /\ SentIsClosed /\ Served

\* At first nothing is on the service.
LEMMA IInvInit == ASSUME Assumptions PROVE Init => IInv
<1> SUFFICES ASSUME Init PROVE IInv
    OBVIOUS
<1>1. disk \in [Paths -> Contents]
    BY DEF Init, Contents
<1>2. \A k \in DOMAIN server : server[k] = None
    BY DEF Init
<1>3. DOMAIN sent = {} /\ DOMAIN deployed = {}
    BY DEF Init
<1>4. TypeInv
    BY <1>1, <1>3 DEF Init, TypeInv, Entrypoints, Holds
<1> QED BY <1>2, <1>3, <1>4 DEF Init, IInv, ServerInv, WalkInv, TurnInv, SentIsClosed, Served

\* Steps that leave the service alone do not change what it serves.
LEMMA SameServer ==
    ASSUME ServerInv, SentIsClosed, server' = server
    PROVE  ServerInv' /\ SentIsClosed'
BY DEF ServerInv, SentIsClosed

\* A command that begins has deployed nothing, on the branch it resolves.
LEMMA StartKeeps ==
    ASSUME Assumptions, IInv, NEW command \in {"new", "deploy", "download"},
           NEW slugs \in SUBSET Slugs, Start(command, slugs), queue' \subseteq Paths,
           command = "download" => queue' = {},
           UNCHANGED <<disk, environment, edits, runtime, seen, sent, missing>>
    PROVE  IInv'
<1>1. UNCHANGED <<disk, config, default, server, edits, seen, sent, missing>>
    BY DEF environment
<1>2. DOMAIN deployed' = {}
    BY DEF Start
<1>3. /\ op' = command /\ asked' = slugs /\ todo' = slugs /\ slug' = None /\ outcome' = "none"
      /\ access' = default /\ configured' = config
    BY DEF Start
<1>4. TypeInv'
    BY <1>1, <1>2, <1>3 DEF IInv, TypeInv
<1>5. WalkInv'
    BY <1>3 DEF WalkInv, NoFunction
<1>6. TurnInv'
    BY <1>2, <1>3 DEF TurnInv, Assumptions
<1>7. ServerInv' /\ SentIsClosed'
    BY <1>1, SameServer DEF IInv
<1>8. Served'
    BY <1>2 DEF Served
<1> QED BY <1>4, <1>5, <1>6, <1>7, <1>8 DEF IInv

\* A command that ends leaves what it has deployed.
LEMMA EndKeeps ==
    ASSUME Assumptions, IInv, NEW how \in {"ok", "error"}, End(how), Ended,
           UNCHANGED <<disk, default, server, edits, walk>>,
           config' \in [Slugs -> Entrypoints]
    PROVE  IInv'
<1>1. UNCHANGED <<asked, access, configured, deployed, queue, seen, sent, missing>>
    BY DEF Ended, walk
<1>2. op' = "none" /\ outcome' = how /\ slug' = None /\ todo' = {}
    BY DEF End
<1>3. TypeInv'
    BY <1>1, <1>2 DEF IInv, TypeInv
<1>4. ServerInv' /\ SentIsClosed'
    BY SameServer DEF IInv
<1>5. WalkInv' /\ TurnInv' /\ Served'
    BY <1>1, <1>2 DEF IInv, WalkInv, TurnInv, Served
<1> QED BY <1>3, <1>4, <1>5 DEF IInv

\* Steps of a command other than a deploy, on its files.
LEMMA OtherKeeps ==
    ASSUME IInv, op # "deploy", Going, UNCHANGED <<environment, edits>>,
           disk' \in [Paths -> Contents], todo' \subseteq todo, slug' \in Slugs \union {None},
           queue' \subseteq Paths, seen' = seen, Holds(sent'),
           op = "download" => queue' \subseteq DOMAIN sent'
    PROVE  IInv'
<1>1. UNCHANGED <<op, asked, access, configured, deployed, outcome, config, default, server, edits>>
    BY DEF Going, environment
<1>2. TypeInv'
    BY <1>1 DEF IInv, TypeInv
<1>3. ServerInv' /\ SentIsClosed'
    BY <1>1, SameServer DEF IInv
<1>4. WalkInv' /\ TurnInv' /\ Served'
    BY <1>1 DEF IInv, WalkInv, TurnInv, Served
<1> QED BY <1>2, <1>3, <1>4 DEF IInv

\* "functions new": calls, files, the entry of config.toml.
LEMMA NewKeeps ==
    ASSUME Assumptions, IInv, CallNew \/ CreateFile \/ appendConfigFile
    PROVE  IInv'
<1>1. CASE CallNew
    <2>1. PICK s \in Slugs, files \in {{"index.ts"}, PythonFiles} : New(s, files)
        BY <1>1 DEF CallNew
    <2>2. queue' \subseteq Paths
        BY <2>1, NamedPaths DEF New
    <2> QED BY <2>1, <2>2, StartKeeps DEF New
<1>2. CASE CreateFile
    <2>1. PICK p \in queue :
             IF Exists(p)
             THEN End("error") /\ Ended /\ UNCHANGED <<disk, queue>>
             ELSE /\ disk' = [disk EXCEPT ![p] = "imports"]
                  /\ queue' = queue \ {p}
                  /\ Going /\ UNCHANGED <<todo, slug>>
        BY <1>2 DEF CreateFile
    <2>2. op = "new" /\ UNCHANGED <<environment, edits, runtime, seen, sent, missing>>
        BY <1>2 DEF CreateFile
    <2>3. CASE Exists(p)
        <3>1. UNCHANGED <<disk, default, server, edits, walk>> /\ config' = config
            BY <2>1, <2>2, <2>3 DEF walk, environment
        <3>2. config \in [Slugs -> Entrypoints]
            BY DEF IInv, TypeInv
        <3> QED BY <2>1, <2>3, <3>1, <3>2, EndKeeps
    <2>4. CASE ~Exists(p)
        <3>1. disk' \in [Paths -> Contents]
            BY <2>1, <2>4 DEF IInv, TypeInv, Contents
        <3>2. op # "deploy" /\ todo' \subseteq todo /\ slug' \in Slugs \union {None}
              /\ queue' \subseteq Paths /\ seen' = seen /\ Holds(sent')
            BY <2>1, <2>2, <2>4 DEF IInv, TypeInv
        <3> QED BY <2>1, <2>2, <2>4, <3>1, <3>2, OtherKeeps
    <2> QED BY <2>3, <2>4
<1>3. CASE appendConfigFile
    <2>1. config' \in [Slugs -> Entrypoints]
        BY <1>3 DEF appendConfigFile, IInv, TypeInv, Entrypoints
    <2> QED BY <1>3, <2>1, EndKeeps DEF appendConfigFile
<1> QED BY <1>1, <1>2, <1>3

\* "functions download" and the ends of commands.
LEMMA DownloadKeeps ==
    ASSUME Assumptions, IInv,
           CallDownload \/ GetBody \/ WriteDownloaded \/ DownloadReturns \/ DeployReturns \/ RequestFails
    PROVE  IInv'
<1>1. CASE CallDownload
    <2>1. PICK slugs \in SUBSET Slugs : Start("download", slugs)
        BY <1>1 DEF CallDownload
    <2> QED BY <1>1, <2>1, StartKeeps DEF CallDownload
<1>2. CASE GetBody
    <2>1. PICK s \in todo : /\ server[<<access, s>>] # None
                            /\ slug' = s /\ todo' = todo \ {s}
                            /\ sent' = server[<<access, s>>].files
                            /\ queue' = DOMAIN sent'
        BY <1>2 DEF GetBody
    <2>2. op = "download" /\ Going /\ UNCHANGED <<disk, environment, edits, runtime, seen, missing>>
        BY <1>2 DEF GetBody
    <2>3. s \in Slugs /\ access \in Branches
        BY <2>2 DEF IInv, TypeInv
    <2>4. <<access, s>> \in DOMAIN server
        BY <2>3 DEF IInv, TypeInv
    <2>5. Holds(sent') /\ DOMAIN sent' \subseteq Paths
        BY <2>1, <2>4 DEF IInv, ServerInv, Holds
    <2>6. disk' \in [Paths -> Contents] /\ todo' \subseteq todo /\ slug' \in Slugs \union {None}
          /\ queue' \subseteq Paths /\ queue' \subseteq DOMAIN sent' /\ seen' = seen
        BY <2>1, <2>2, <2>3, <2>5 DEF IInv, TypeInv
    <2> QED BY <2>2, <2>5, <2>6, OtherKeeps
<1>3. CASE WriteDownloaded
    <2>1. PICK p \in queue : disk' = [disk EXCEPT ![DownloadPath(p)] = sent[p]] /\ queue' = queue \ {p}
        BY <1>3 DEF WriteDownloaded
    <2>2. op = "download" /\ Going /\ UNCHANGED <<environment, edits, seen, sent, todo, slug>>
        BY <1>3 DEF WriteDownloaded
    <2>3. disk' \in [Paths -> Contents]
        <3>1. sent[p] \in Contents
            BY <2>2 DEF IInv, TypeInv, Holds
        <3> QED BY <2>1, <3>1 DEF IInv, TypeInv
    <2> QED BY <2>1, <2>2, <2>3, OtherKeeps DEF IInv, TypeInv
<1>4. CASE DownloadReturns \/ DeployReturns \/ RequestFails
    <2>1. config \in [Slugs -> Entrypoints]
        BY DEF IInv, TypeInv
    <2>2. \E how \in {"ok", "error"} : End(how)
        BY <1>4 DEF DownloadReturns, DeployReturns, RequestFails
    <2>3. Ended /\ UNCHANGED <<disk, config, default, server, edits, walk>>
        BY <1>4 DEF DownloadReturns, DeployReturns, RequestFails, environment
    <2> QED BY <2>1, <2>2, <2>3, EndKeeps
<1> QED BY <1>1, <1>2, <1>3, <1>4

\* A deploy begins, skips what is disabled, begins with a function.
LEMMA DeployBegins ==
    ASSUME Assumptions, IInv, CallDeploy \/ Skip \/ BeginFunction
    PROVE  IInv'
<1>1. CASE CallDeploy
    <2>1. PICK slugs \in SUBSET Slugs : Start("deploy", slugs)
        BY <1>1 DEF CallDeploy, AllFunctions
    <2> QED BY <1>1, <2>1, StartKeeps DEF CallDeploy
<1>2. CASE Skip
    <2>1. PICK s \in todo : configured[s] = "off" /\ todo' = todo \ {s}
        BY <1>2 DEF Skip
    <2>2. /\ op = "deploy" /\ NoFunction
          /\ UNCHANGED <<op, asked, access, configured, deployed, outcome, disk, config, default,
                         server, edits, slug, queue, seen, sent>>
        BY <1>2 DEF Skip, Going, environment, walk
    <2>3. TypeInv'
        BY <2>1, <2>2 DEF IInv, TypeInv
    <2>4. ServerInv' /\ SentIsClosed' /\ WalkInv' /\ Served'
        BY <2>2, SameServer DEF IInv, WalkInv, Served, NoFunction
    <2>5. TurnInv'
        BY <2>1, <2>2 DEF IInv, TurnInv, TypeInv
    <2> QED BY <2>3, <2>4, <2>5 DEF IInv
<1>3. CASE BeginFunction
    <2>1. PICK s \in todo : /\ configured[s] # "off"
                            /\ slug' = s /\ todo' = todo \ {s}
                            /\ queue' = {Entrypoint(s)}
        BY <1>3 DEF BeginFunction
    <2>2. /\ op = "deploy" /\ slug = None /\ seen' = {} /\ sent' = <<>>
          /\ UNCHANGED <<op, asked, access, configured, deployed, outcome, disk, config, default,
                         server, edits>>
        BY <1>3 DEF BeginFunction, Going, environment, NoFunction
    <2>3. s \in Slugs /\ Entrypoint(s) \in Paths /\ DOMAIN sent' = {}
        <3>1. s \in Slugs
            BY DEF IInv, TypeInv
        <3>2. DOMAIN sent' = {}
            BY <2>2
        <3> QED BY <3>1, <3>2, NamedPaths
    <2>4. TypeInv'
        BY <2>1, <2>2, <2>3 DEF IInv, TypeInv, Holds
    <2>5. ServerInv' /\ SentIsClosed' /\ Served'
        BY <2>2, SameServer DEF IInv, Served
    <2>6. WalkInv'
        BY <2>2, <2>3 DEF WalkInv
    <2>7. TurnInv'
        BY <2>1, <2>2, <2>3 DEF IInv, TurnInv, TypeInv, Assumptions
    <2> QED BY <2>4, <2>5, <2>6, <2>7 DEF IInv
<1> QED BY <1>1, <1>2, <1>3

\* One turn of the walk: what a file imports, as it was read, goes to the queue.
LEMMA WalkKeeps ==
    ASSUME Assumptions, IInv, WalkFile
    PROVE  IInv'
<1>1. /\ op = "deploy"
      /\ UNCHANGED <<op, asked, access, configured, deployed, outcome, disk, config, default,
                     server, edits, todo, slug>>
    BY DEF WalkFile, Going, environment
<1>2. PICK p \in queue :
         IF p \in seen THEN queue' = queue \ {p} /\ UNCHANGED <<seen, sent, missing>>
         ELSE /\ seen' = seen \union {p}
              /\ sent' = [q \in DOMAIN sent \union (IF Exists(p) THEN {p} ELSE {}) |->
                             IF q = p THEN disk[p] ELSE sent[q]]
              /\ missing' = IF Exists(p) THEN missing ELSE missing \union {p}
              /\ queue' = (queue \ {p}) \union (IF disk[p] = "imports" THEN Imports(p) ELSE {})
    BY DEF WalkFile
<1>3. p \in Paths /\ disk[p] \in Contents /\ Imports(p) \subseteq Paths
    BY ImportsArePaths DEF IInv, TypeInv
<1>4. ServerInv' /\ SentIsClosed' /\ Served' /\ TurnInv'
    BY <1>1, SameServer DEF IInv, Served, TurnInv
<1>5. CASE p \in seen
    <2>1. TypeInv'
        BY <1>1, <1>2, <1>5 DEF IInv, TypeInv
    <2>2. WalkInv'
        BY <1>1, <1>2, <1>5 DEF IInv, WalkInv, NoFunction
    <2> QED BY <1>4, <2>1, <2>2 DEF IInv
<1>6. CASE p \notin seen
    <2>1. DOMAIN sent' = DOMAIN sent \union (IF Exists(p) THEN {p} ELSE {})
          /\ \A q \in DOMAIN sent' : sent'[q] = IF q = p THEN disk[p] ELSE sent[q]
        BY <1>2, <1>6
    <2>2. Holds(sent')
        BY <1>3, <2>1 DEF IInv, TypeInv, Holds
    <2>3. /\ seen' = seen \union {p}
          /\ missing' = IF Exists(p) THEN missing ELSE missing \union {p}
          /\ queue' = (queue \ {p}) \union (IF disk[p] = "imports" THEN Imports(p) ELSE {})
        BY <1>2, <1>6
    <2>4. TypeInv'
        BY <1>1, <1>3, <2>2, <2>3 DEF IInv, TypeInv
    <2>5. ASSUME ~NoFunction
          PROVE  /\ seen' \subseteq DOMAIN sent' \union missing'
                 /\ \A q \in DOMAIN sent' :
                       sent'[q] = "imports" => Imports(q) \subseteq seen' \union queue'
        <3>1. /\ seen \subseteq DOMAIN sent \union missing
              /\ \A q \in DOMAIN sent : sent[q] = "imports" => Imports(q) \subseteq seen \union queue
            BY <1>1, <2>5 DEF IInv, WalkInv
        <3>2. seen' \subseteq DOMAIN sent' \union missing'
            BY <2>1, <2>3, <3>1
        <3>3. seen \union queue \subseteq seen' \union queue'
            BY <2>3
        <3>4. ASSUME NEW q \in DOMAIN sent', sent'[q] = "imports"
              PROVE  Imports(q) \subseteq seen' \union queue'
            BY <2>1, <2>3, <3>1, <3>3, <3>4
        <3> QED BY <3>2, <3>4
    <2>6. WalkInv'
        BY <1>1, <2>5 DEF WalkInv, NoFunction
    <2> QED BY <1>4, <2>4, <2>6 DEF IInv
<1> QED BY <1>5, <1>6

\* What is sent goes together: the walk is at its end, and the import map imports
\* nothing.
LEMMA FilesAreClosed ==
    ASSUME IInv, op = "deploy", ~NoFunction, queue = {}
    PROVE  /\ Holds(Files)
           /\ \A p \in DOMAIN Files :
                 Files[p] = "imports" => Imports(p) \subseteq DOMAIN Files \union missing
<1> DEFINE map == <<slug, "deno.json">>
           more == IF slug \in maps /\ Exists(map) THEN {map} ELSE {}
<1>1. slug \in Slugs
    BY DEF IInv, TypeInv, NoFunction
<1>2. map \in Paths /\ Imports(map) = {}
    BY <1>1, NamedPaths, ImportsArePaths
<1>3. more \subseteq {map}
    OBVIOUS
<1>4. Files = [q \in DOMAIN sent \union more |-> IF q \in DOMAIN sent THEN sent[q] ELSE disk[q]]
    BY DEF Files
<1> HIDE DEF map, more
<1>5. Holds(Files)
    BY <1>2, <1>3, <1>4 DEF IInv, TypeInv, Holds
<1>6. \A q \in DOMAIN sent : sent[q] = "imports" => Imports(q) \subseteq DOMAIN sent \union missing
    BY DEF IInv, WalkInv
<1>7. ASSUME NEW p \in DOMAIN Files, Files[p] = "imports"
      PROVE  Imports(p) \subseteq DOMAIN Files \union missing
    BY <1>2, <1>3, <1>4, <1>6, <1>7
<1> QED BY <1>5, <1>7

\* A function is deployed, and the answer may be lost.
LEMMA DeployKeeps ==
    ASSUME Assumptions, IInv, deployVolcengineFunction
    PROVE  IInv'
<1>1. /\ op = "deploy" /\ ~NoFunction /\ queue = {}
      /\ UNCHANGED <<disk, config, default, edits, walk>>
    BY DEF deployVolcengineFunction
<1>2. UNCHANGED <<queue, seen, sent, missing>>
    BY <1>1 DEF walk
<1>3. slug \in Slugs /\ access \in Branches /\ slug # None
    BY <1>1 DEF IInv, TypeInv, NoFunction
<1>4. CASE End("error") /\ Ended /\ UNCHANGED server
    BY <1>1, <1>4, EndKeeps DEF IInv, TypeInv
<1>5. CASE Files # <<>>
    <2> DEFINE f == [files |-> Files, runtime |-> runtime, missing |-> missing]
    <2>1. server' = [server EXCEPT ![<<access, slug>>] = f]
        BY <1>5 DEF deployVolcengineFunction, DeployTo
    <2>2. \/ /\ deployed' = [s \in DOMAIN deployed \union {slug} |->
                               IF s = slug THEN f ELSE deployed[s]]
             /\ slug' = None
             /\ UNCHANGED <<op, asked, access, configured, maps, outcome, calls, todo>>
          \/ End("error") /\ Ended
        BY <1>5 DEF deployVolcengineFunction
    <2>3. f.files = Files /\ f.missing = missing
        OBVIOUS
    <2> HIDE DEF f
    <2>4. <<access, slug>> \in DOMAIN server /\ DOMAIN server' = DOMAIN server
          /\ \A k \in DOMAIN server : server'[k] = IF k = <<access, slug>> THEN f ELSE server[k]
        BY <1>3, <2>1 DEF IInv, TypeInv
    <2>5. ServerInv'
        BY <1>1, <2>3, <2>4, FilesAreClosed DEF IInv, ServerInv
    <2>6. SentIsClosed'
        <3> SUFFICES ASSUME NEW k \in DOMAIN server, server'[k] # None,
                            NEW p \in DOMAIN server'[k].files, server'[k].files[p] = "imports"
                     PROVE  Imports(p) \subseteq DOMAIN server'[k].files \union server'[k].missing
            BY <2>4 DEF SentIsClosed
        <3>1. CASE k = <<access, slug>>
            BY <1>1, <2>3, <2>4, <3>1, FilesAreClosed
        <3>2. CASE k # <<access, slug>>
            BY <2>4, <3>2 DEF IInv, SentIsClosed
        <3> QED BY <3>1, <3>2
    <2>7. \A s \in DOMAIN deployed : s # slug /\ server'[<<access, s>>] = deployed[s]
        <3> SUFFICES ASSUME NEW s \in DOMAIN deployed
                     PROVE  s # slug /\ server'[<<access, s>>] = deployed[s]
            OBVIOUS
        <3>1. s \in Slugs /\ s # slug /\ <<access, s>> # <<access, slug>>
            BY <1>1 DEF IInv, TurnInv, TypeInv
        <3>2. <<access, s>> \in DOMAIN server
            BY <1>3, <3>1 DEF IInv, TypeInv
        <3> QED BY <2>4, <3>1, <3>2 DEF IInv, Served
    <2>8. CASE End("error") /\ Ended
        <3>1. /\ op' = "none" /\ outcome' = "error" /\ slug' = None /\ todo' = {}
              /\ UNCHANGED <<asked, access, configured, deployed>>
            BY <2>8 DEF End, Ended
        <3>2. TypeInv'
            BY <1>1, <1>2, <2>4, <3>1 DEF IInv, TypeInv
        <3>3. WalkInv' /\ TurnInv' /\ Served'
            BY <2>7, <3>1 DEF WalkInv, TurnInv, Served
        <3> QED BY <2>5, <2>6, <3>2, <3>3 DEF IInv
    <2>9. CASE /\ deployed' = [s \in DOMAIN deployed \union {slug} |->
                                 IF s = slug THEN f ELSE deployed[s]]
               /\ slug' = None
               /\ UNCHANGED <<op, asked, access, configured, maps, outcome, calls, todo>>
        <3>1. DOMAIN deployed' = DOMAIN deployed \union {slug} /\ deployed'[slug] = f
              /\ \A s \in DOMAIN deployed : deployed'[s] = deployed[s]
            BY <2>7, <2>9
        <3>2. TypeInv'
            BY <1>1, <1>2, <1>3, <2>4, <2>9, <3>1 DEF IInv, TypeInv
        <3>3. WalkInv'
            BY <2>9 DEF WalkInv, NoFunction
        <3>4. TurnInv'
            BY <1>1, <1>3, <2>9, <3>1 DEF IInv, TurnInv, TypeInv, Assumptions
        <3>5. Served'
            BY <2>4, <2>7, <2>9, <3>1 DEF Served
        <3> QED BY <2>5, <2>6, <3>2, <3>3, <3>4, <3>5 DEF IInv
    <2> QED BY <2>2, <2>8, <2>9
<1> QED BY <1>4, <1>5 DEF deployVolcengineFunction

\* The user edits a file, or another default branch is set.
LEMMA EditKeeps ==
    ASSUME IInv, Edit
    PROVE  IInv'
<1>1. UNCHANGED <<config, server, op, asked, access, configured, deployed, outcome, todo, slug,
                  queue, seen, sent, missing>>
    BY DEF Edit, run, walk
<1>2. disk' \in [Paths -> Contents] /\ default' \in Branches /\ edits' \in Nat
    BY DEF Edit, IInv, TypeInv, Contents
<1>3. TypeInv'
    BY <1>1, <1>2 DEF IInv, TypeInv
<1>4. ServerInv' /\ SentIsClosed' /\ WalkInv' /\ TurnInv' /\ Served'
    BY <1>1, SameServer DEF IInv, WalkInv, TurnInv, Served, NoFunction
<1> QED BY <1>3, <1>4 DEF IInv

\* Every step keeps the invariant.
LEMMA IInvNext == ASSUME Assumptions PROVE IInv /\ [Next]_vars => IInv'
<1> SUFFICES ASSUME IInv, [Next]_vars PROVE IInv'
    OBVIOUS
<1>1. CASE Next
    BY <1>1, NewKeeps, DownloadKeeps, DeployBegins, WalkKeeps, DeployKeeps, EditKeeps DEF Next
<1>2. CASE UNCHANGED vars
    <2>1. UNCHANGED <<disk, config, default, server, edits, op, asked, access, configured, deployed,
                      outcome, todo, slug, queue, seen, sent, missing>>
        BY <1>2 DEF vars, environment, run, walk
    <2>2. ServerInv' /\ SentIsClosed' /\ WalkInv' /\ TurnInv' /\ Served'
        BY <2>1, SameServer DEF IInv, WalkInv, TurnInv, Served, NoFunction
    <2> QED BY <2>1, <2>2 DEF IInv, TypeInv
<1> QED BY <1>1, <1>2

-----------------------------------------------------------------------------
(* The theorems about the sources *)

\* What the invariant says.
LEMMA IInvSays == ASSUME Assumptions PROVE IInv => TypeOK /\ DeployedAsAsked
<1> SUFFICES ASSUME IInv PROVE TypeOK /\ DeployedAsAsked
    OBVIOUS
<1>1. TypeOK
    BY DEF IInv, TypeInv, TypeOK, Contents, Entrypoints, Holds
<1>2. op = "deploy" /\ NoFunction /\ todo = {} =>
          {s \in asked : configured[s] # "off"} \subseteq DOMAIN deployed
    BY DEF IInv, TypeInv, TurnInv, NoFunction, Assumptions
<1> QED BY <1>1, <1>2 DEF IInv, Served, DeployedAsAsked

\* "functions new" opens its files with O_EXCL.
LEMMA StepKeepsFiles == ASSUME Assumptions PROVE IInv /\ [Next]_vars => NewKeepsFilesStep
<1> SUFFICES ASSUME IInv, [Next]_vars, op = "new", edits' = edits, NEW p \in Paths, Exists(p)
             PROVE  disk'[p] = disk[p]
    BY DEF NewKeepsFilesStep
<1>1. CASE CreateFile
    <2>1. PICK q \in queue :
             \/ UNCHANGED disk
             \/ ~Exists(q) /\ disk' = [disk EXCEPT ![q] = "imports"]
        BY <1>1 DEF CreateFile
    <2> QED BY <2>1 DEF IInv, TypeInv
<1>2. CASE ~CreateFile
    <2>1. ~Edit
        BY DEF Edit, IInv, TypeInv
    <2>2. ~WriteDownloaded
        BY DEF WriteDownloaded
    <2> QED BY <1>2, <2>1, <2>2
            DEF Next, vars, CallNew, New, Start, appendConfigFile, CallDeploy, Skip, BeginFunction,
                WalkFile, deployVolcengineFunction, DeployReturns, CallDownload, GetBody,
                DownloadReturns, RequestFails
<1> QED BY <1>1, <1>2

\* The invariant holds always.
LEMMA IInvAlways == ASSUME Assumptions PROVE Spec => []IInv
BY IInvInit, IInvNext, PTL DEF Spec

\* Every variable keeps its type.
THEOREM TypeOKAlways == ASSUME Assumptions PROVE Spec => []TypeOK
BY IInvAlways, IInvSays, PTL

\* However files are edited while a deploy walks through their imports, what it
\* sends goes together.
THEOREM SentIsClosedAlways == ASSUME Assumptions PROVE Spec => []SentIsClosed
<1>1. IInv => SentIsClosed
    BY DEF IInv
<1> QED BY <1>1, IInvAlways, PTL

\* A deploy of any number of functions that comes to its end has put each of them
\* on the branch it began with, whatever the default branch is by then.
THEOREM DeployedAsAskedAlways == ASSUME Assumptions PROVE Spec => []DeployedAsAsked
BY IInvAlways, IInvSays, PTL

\* "functions new" changes no file that exists.
THEOREM NewKeepsFilesAlways == ASSUME Assumptions PROVE Spec => NewKeepsFiles
BY IInvAlways, StepKeepsFiles, PTL DEF Spec, NewKeepsFiles

-----------------------------------------------------------------------------
(* "sandbox kill" *)

\* Until the loop begins nothing is killed; in it, what is left to do is of what
\* was requested; it stops once.
KillInv ==
    /\ Killing!TypeOK /\ Killing!SummaryIsTrue
    /\ step \in {"ask", "access", "list", "kill", "end"}
    /\ step \in {"ask", "access", "list"} => killed = {} /\ failed = {} /\ requested \subseteq sandboxIDs
    /\ step = "kill" => sandboxIDs \subseteq requested
    /\ step # "end" => summary = "none"

\* No sandbox is killed at first.
LEMMA KillInvInit == Killing!Init => KillInv
BY DEF Killing!Init, KillInv, Killing!TypeOK, Killing!SummaryIsTrue

\* Every step of the command, and of the sandboxes, keeps the invariant.
LEMMA KillInvNext == ASSUME Killing!Assumptions PROVE KillInv /\ [Killing!Next]_(Killing!vars) => KillInv'
<1> SUFFICES ASSUME KillInv, [Killing!Next]_(Killing!vars) PROVE KillInv'
    OBVIOUS
<1> USE DEF KillInv, Killing!TypeOK, Killing!SummaryIsTrue
<1>1. CASE Killing!Confirm
    BY <1>1 DEF Killing!Confirm, Killing!Stop
<1>2. CASE Killing!sandboxDataPlaneClient
    BY <1>2 DEF Killing!sandboxDataPlaneClient, Killing!Stop
<1>3. CASE Killing!ListSandboxes
    BY <1>3 DEF Killing!ListSandboxes, Killing!Listed, Killing!Stop
<1>4. CASE Killing!KillNext
    BY <1>4 DEF Killing!KillNext, Killing!Kill
<1>5. CASE Killing!Summary
    BY <1>5 DEF Killing!Summary, Killing!Stop
<1>6. CASE Killing!Change
    BY <1>6 DEF Killing!Change
<1>7. CASE UNCHANGED Killing!vars
    BY <1>7 DEF Killing!vars
<1> QED BY <1>1, <1>2, <1>3, <1>4, <1>5, <1>6, <1>7 DEF Killing!Next

\* The summary of "sandbox kill" is true for any number of sandboxes, though they
\* start and end meanwhile and answers are lost.
THEOREM SummaryIsTrueAlways == ASSUME Killing!Assumptions PROVE Killing!Spec => []Killing!SummaryIsTrue
<1>1. KillInv => Killing!SummaryIsTrue
    BY DEF KillInv
<1> QED BY <1>1, KillInvInit, KillInvNext, PTL DEF Killing!Spec

-----------------------------------------------------------------------------
(* What a launcher finds: the inductive invariant *)

Steps == {"ended", "locate", "detach", "mkdir", "link", "publish", "check", "acquire", "stat",
          "steal", "remake", "locked", "npm", "rename", "throw", "release", "wait"}
ProcType ==
    [pc : Steps, kind : Launch!Kinds, resolves : BOOLEAN, npm : BOOLEAN,
     end : {"none", "ran", "served later", "no binary", "killed"}, ran : {"none", "whole"}]

\* A launcher that has an installed binary is about to name it, or has; it
\* throws only when a mirror was faster.
Fine(s, c, m) ==
    /\ s \in ProcType
    /\ s.end = "ran" => s.ran = "whole"
    /\ s.pc # "ended" => s.end = "none"
    /\ s.npm => s.pc \in {"rename", "release", "throw", "ended"}
    /\ s.npm /\ s.pc = "release" => c = "whole"
    /\ s.npm /\ (s.pc = "throw" \/ s.end = "no binary") => m

\* The cache has the whole binary or none, and no directory unless by a mirror.
CacheInv ==
    /\ cache \in {"none", "dirs", "whole"} /\ mirrored \in BOOLEAN
    /\ cache = "dirs" => mirrored

FindInv ==
    /\ CacheInv
    /\ proc \in [Procs -> ProcType]
    /\ \A p \in Procs : Fine(proc[p], cache, mirrored)

\* How the record of a launcher changes.
Becomes(p, s) == proc' = [proc EXCEPT ![p] = s]

\* A step of one launcher, and of the cache.
LEMMA FindStep ==
    ASSUME FindInv, NEW p \in Procs, NEW s, Becomes(p, s), CacheInv',
           cache = "whole" => cache' = "whole", mirrored => mirrored', Fine(s, cache', mirrored')
    PROVE  FindInv'
<1>1. proc' \in [Procs -> ProcType]
    BY DEF FindInv, Becomes, Fine
<1>2. ASSUME NEW q \in Procs PROVE Fine(proc[q], cache, mirrored)'
    <2>1. proc'[q] = IF q = p THEN s ELSE proc[q]
        BY DEF FindInv, Becomes
    <2> QED BY <2>1 DEF FindInv, Fine
<1> QED BY <1>1, <1>2 DEF FindInv

\* A launcher that goes on with another step.
LEMMA FindGoes ==
    ASSUME FindInv, NEW p \in Procs, NEW pc \in Steps \ {"ended"}, Launch!Goes(p, pc),
           proc[p].pc # "ended", CacheInv', cache = "whole" => cache' = "whole",
           mirrored => mirrored',
           proc[p].npm => (pc = "release" /\ cache' = "whole") \/ (pc = "throw" /\ mirrored')
    PROVE  FindInv'
<1> DEFINE s == [proc[p] EXCEPT !.pc = pc]
<1>1. Becomes(p, s)
    BY DEF Launch!Goes, Becomes
<1>2. Fine(proc[p], cache, mirrored) /\ proc[p] \in ProcType
    BY DEF FindInv
<1>3. s \in ProcType
    BY <1>2 DEF ProcType
<1>4. s.pc = pc /\ s.npm = proc[p].npm /\ s.end = proc[p].end /\ s.ran = proc[p].ran
    BY <1>2 DEF ProcType
<1>5. Fine(s, cache', mirrored')
    BY <1>2, <1>3, <1>4 DEF Fine
<1> QED BY <1>1, <1>5, FindStep

\* A launcher that ends.
LEMMA FindEnds ==
    ASSUME FindInv, NEW p \in Procs, NEW end \in {"ran", "served later", "no binary", "killed"},
           NEW ran \in {"none", "whole"}, Launch!Ends(p, end, ran), CacheInv',
           cache = "whole" => cache' = "whole", mirrored => mirrored',
           end = "ran" => ran = "whole", end = "no binary" /\ proc[p].npm => mirrored'
    PROVE  FindInv'
<1> DEFINE s == [proc[p] EXCEPT !.pc = "ended", !.end = end, !.ran = ran]
<1>1. Becomes(p, s)
    BY DEF Launch!Ends, Becomes, FindInv
<1>2. proc[p] \in ProcType
    BY DEF FindInv
<1>3. s \in ProcType
    BY <1>2 DEF ProcType, Steps
<1>4. s.pc = "ended" /\ s.npm = proc[p].npm /\ s.end = end /\ s.ran = ran
    BY <1>2 DEF ProcType
<1>5. Fine(s, cache', mirrored')
    BY <1>3, <1>4 DEF Fine
<1> QED BY <1>1, <1>5, FindStep

\* A launcher that rests in its first state.
LEMMA EndedFine == ASSUME NEW c, NEW m PROVE Launch!Ended \in ProcType /\ Fine(Launch!Ended, c, m)
<1>1. Launch!Ended \in ProcType
    BY DEF Launch!Ended, ProcType, Steps, Launch!Kinds
<1> QED BY <1>1 DEF Fine, Launch!Ended

\* At first the cache is empty and no launcher runs.
LEMMA FindInit == Launch!Init => FindInv
<1> SUFFICES ASSUME Launch!Init PROVE FindInv
    OBVIOUS
<1>1. \A p \in Procs : proc[p] = Launch!Ended
    BY DEF Launch!Init
<1> QED BY <1>1, EndedFine DEF Launch!Init, FindInv, CacheInv

\* A launcher that is started, by a user or by another launcher.
LEMMA NewFine ==
    ASSUME NEW pc \in Steps \ {"ended"}, NEW kind \in Launch!Kinds, NEW resolves \in BOOLEAN,
           NEW c, NEW m
    PROVE  Fine([Launch!Ended EXCEPT !.pc = pc, !.kind = kind, !.resolves = resolves], c, m)
<1> DEFINE s == [Launch!Ended EXCEPT !.pc = pc, !.kind = kind, !.resolves = resolves]
<1>1. Launch!Ended \in ProcType /\ Launch!Ended.npm = FALSE /\ Launch!Ended.end = "none"
    BY DEF Launch!Ended, ProcType, Steps, Launch!Kinds
<1>2. s \in ProcType /\ s.npm = FALSE /\ s.end = "none"
    BY <1>1 DEF ProcType
<1> QED BY <1>2 DEF Fine

\* A user or a host starts one.
LEMMA FindStart == ASSUME FindInv, NEW p \in Procs, Launch!Start(p) PROVE FindInv'
<1>1. PICK kind \in Launch!Kinds \ {"heal"}, resolves \in BOOLEAN :
        Becomes(p, [Launch!Ended EXCEPT !.pc = "locate", !.kind = kind, !.resolves = resolves])
    BY DEF Launch!Start, Becomes
<1>2. Fine([Launch!Ended EXCEPT !.pc = "locate", !.kind = kind, !.resolves = resolves], cache', mirrored')
    BY NewFine DEF Steps
<1>3. CacheInv' /\ cache' = cache /\ mirrored' = mirrored
    BY DEF Launch!Start, FindInv, CacheInv
<1> QED BY <1>1, <1>2, <1>3, FindStep

\* A launcher that serves leaves the download to another.
LEMMA FindDetach == ASSUME FindInv, NEW p \in Procs, Launch!StartDetachedDownload(p) PROVE FindInv'
<1> DEFINE s == [proc[p] EXCEPT !.pc = "ended", !.end = "served later"]
           t == [Launch!Ended EXCEPT !.pc = "check", !.kind = "heal"]
<1>1. PICK q \in Procs \ {p} : proc' = [proc EXCEPT ![p] = s, ![q] = t]
    BY DEF Launch!StartDetachedDownload, FindInv
<1>2. CacheInv' /\ cache' = cache /\ mirrored' = mirrored
    BY DEF Launch!StartDetachedDownload, FindInv, CacheInv
<1>3. Fine(s, cache, mirrored)
    <2>1. proc[p] \in ProcType /\ proc[p].pc = "detach" /\ Fine(proc[p], cache, mirrored)
        BY DEF Launch!StartDetachedDownload, FindInv
    <2>2. s \in ProcType /\ s.pc = "ended" /\ s.end = "served later" /\ s.npm = proc[p].npm
        BY <2>1 DEF ProcType, Steps
    <2> QED BY <2>2 DEF Fine
<1>4. Fine(t, cache, mirrored)
    <2>1. Launch!Ended \in ProcType /\ Launch!Ended.npm = FALSE /\ Launch!Ended.end = "none"
        BY DEF Launch!Ended, ProcType, Steps, Launch!Kinds
    <2>2. t \in ProcType /\ t.npm = FALSE /\ t.end = "none"
        BY <2>1 DEF ProcType, Steps, Launch!Kinds
    <2> QED BY <2>2 DEF Fine
<1>5. proc' \in [Procs -> ProcType]
    BY <1>1, <1>3, <1>4 DEF FindInv, Fine
<1>6. ASSUME NEW k \in Procs PROVE Fine(proc'[k], cache, mirrored)
    <2>1. proc'[k] = IF k = q THEN t ELSE IF k = p THEN s ELSE proc[k]
        BY <1>1 DEF FindInv
    <2> QED BY <2>1, <1>3, <1>4 DEF FindInv
<1> QED BY <1>2, <1>5, <1>6 DEF FindInv

\* A mirror makes directories, which it remembers, and publishes a whole binary.
LEMMA FindMirror ==
    ASSUME FindInv, NEW p \in Procs, Launch!MirrorMkdir(p) \/ Launch!MirrorLink(p) \/ Launch!MirrorPublish(p)
    PROVE  FindInv'
<1>1. proc[p].pc \in {"mkdir", "link", "publish"} /\ Fine(proc[p], cache, mirrored)
    BY DEF Launch!MirrorMkdir, Launch!MirrorLink, Launch!MirrorPublish, FindInv
<1>2. ~proc[p].npm
    BY <1>1 DEF Fine, ProcType
<1>3. CacheInv' /\ (cache = "whole" => cache' = "whole") /\ (mirrored => mirrored')
    BY DEF Launch!MirrorMkdir, Launch!MirrorLink, Launch!MirrorPublish, FindInv, CacheInv
<1>4. Launch!Goes(p, "link") \/ Launch!Goes(p, "publish") \/ Launch!Ends(p, "ran", "whole")
    BY DEF Launch!MirrorMkdir, Launch!MirrorLink, Launch!MirrorPublish
<1>5. "link" \in Steps \ {"ended"} /\ "publish" \in Steps \ {"ended"}
    BY DEF Steps
<1> QED BY <1>1, <1>2, <1>3, <1>4, <1>5, FindGoes, FindEnds

\* Looking for the binary, and waiting for it.
LEMMA FindLooks ==
    ASSUME FindInv, NEW p \in Procs, Launch!Locate(p) \/ Launch!Check(p) \/ Launch!Wait(p)
    PROVE  FindInv'
<1>1. proc[p].pc \in {"locate", "check", "wait"} /\ Fine(proc[p], cache, mirrored)
    BY DEF Launch!Locate, Launch!Check, Launch!Wait, FindInv
<1>2. ~proc[p].npm
    BY <1>1 DEF Fine, ProcType
<1>3. CacheInv' /\ cache' = cache /\ mirrored' = mirrored /\ (Launch!Cached => cache = "whole")
    BY DEF Launch!Locate, Launch!Check, Launch!Wait, FindInv, CacheInv, Launch!Cached
<1>4. \/ \E pc \in {"mkdir", "detach", "check", "acquire"} : Launch!Goes(p, pc)
      \/ Launch!Ends(p, "ran", "whole") \/ Launch!Ends(p, "no binary", "none")
    BY <1>3 DEF Launch!Locate, Launch!Check, Launch!Wait, Launch!Returns
<1>5. {"mkdir", "detach", "check", "acquire"} \subseteq Steps \ {"ended"}
    BY DEF Steps
<1> QED BY <1>1, <1>2, <1>3, <1>4, <1>5, FindGoes, FindEnds

\* The lock.
LEMMA FindLocks ==
    ASSUME FindInv, NEW p \in Procs,
           Launch!Acquire(p) \/ Launch!Stat(p) \/ Launch!Steal(p) \/ Launch!Remake(p) \/ Launch!Locked(p)
    PROVE  FindInv'
<1>1. /\ proc[p].pc \in {"acquire", "stat", "steal", "remake", "locked"}
      /\ Fine(proc[p], cache, mirrored)
    BY DEF Launch!Acquire, Launch!Stat, Launch!Steal, Launch!Remake, Launch!Locked, FindInv
<1>2. ~proc[p].npm
    BY <1>1 DEF Fine, ProcType
<1>3. CacheInv' /\ cache' = cache /\ mirrored' = mirrored
    BY DEF Launch!Acquire, Launch!Stat, Launch!Steal, Launch!Remake, Launch!Locked, FindInv,
         CacheInv
<1>4. \E pc \in {"locked", "stat", "steal", "wait", "remake", "release", "npm"} : Launch!Goes(p, pc)
    BY DEF Launch!Acquire, Launch!Stat, Launch!Steal, Launch!Remake, Launch!Locked
<1>5. {"locked", "stat", "steal", "wait", "remake", "release", "npm"} \subseteq Steps \ {"ended"}
    BY DEF Steps
<1> QED BY <1>1, <1>2, <1>3, <1>4, <1>5, FindGoes

\* npm installs a whole binary, and the directory gets its name or there is one.
LEMMA FindDownload ==
    ASSUME FindInv, NEW p \in Procs, Launch!Download(p) \/ Launch!Rename(p) \/ Launch!Release(p)
    PROVE  FindInv'
<1>1. Fine(proc[p], cache, mirrored) /\ proc[p] \in ProcType
    BY DEF FindInv
<1>2. CASE Launch!Download(p)
    <2>1. CacheInv' /\ cache' = cache /\ mirrored' = mirrored
        BY <1>2 DEF Launch!Download, FindInv, CacheInv
    <2>2. CASE Launch!Goes(p, "throw")
        <3>1. ~proc[p].npm /\ proc[p].pc # "ended" /\ "throw" \in Steps \ {"ended"}
            BY <1>1, <1>2 DEF Launch!Download, Fine, ProcType, Steps
        <3> QED BY <2>1, <2>2, <3>1, FindGoes
    <2>3. CASE proc' = [proc EXCEPT ![p].pc = "rename", ![p].npm = TRUE]
        <3> DEFINE s == [proc[p] EXCEPT !.pc = "rename", !.npm = TRUE]
        <3>1. Becomes(p, s)
            BY <2>3 DEF Becomes, FindInv
        <3>2. s \in ProcType /\ s.pc = "rename" /\ s.end = proc[p].end /\ proc[p].pc = "npm"
            BY <1>1, <1>2 DEF ProcType, Steps, Launch!Download
        <3>3. Fine(s, cache', mirrored')
            BY <1>1, <3>2 DEF Fine
        <3> QED BY <2>1, <3>1, <3>3, FindStep
    <2> QED BY <1>2, <2>2, <2>3 DEF Launch!Download
<1>3. CASE Launch!Rename(p)
    <2>1. /\ CacheInv' /\ (cache = "whole" => cache' = "whole") /\ mirrored' = mirrored
          /\ cache # "dirs" => cache' = "whole"
        BY <1>3 DEF Launch!Rename, FindInv, CacheInv
    <2>2. "throw" \in Steps \ {"ended"} /\ "release" \in Steps \ {"ended"}
        BY DEF Steps
    <2>3. \/ Launch!Goes(p, "throw") /\ mirrored'
          \/ Launch!Goes(p, "release") /\ cache' = "whole"
        BY <1>3, <2>1 DEF Launch!Rename, FindInv, CacheInv
    <2>4. proc[p].pc # "ended"
        BY <1>3 DEF Launch!Rename
    <2>5. CASE Launch!Goes(p, "throw") /\ mirrored'
        BY <2>1, <2>2, <2>4, <2>5, FindGoes
    <2>6. CASE Launch!Goes(p, "release") /\ cache' = "whole"
        <3>1. CacheInv' /\ (cache = "whole" => cache' = "whole") /\ (mirrored => mirrored')
            BY <2>1
        <3> QED BY <2>2, <2>4, <2>6, <3>1, FindGoes
    <2> QED BY <2>3, <2>5, <2>6
<1>4. CASE Launch!Release(p)
    <2>1. CacheInv' /\ cache' = cache /\ mirrored' = mirrored /\ (Launch!Cached => cache = "whole")
        BY <1>4 DEF Launch!Release, FindInv, CacheInv, Launch!Cached
    <2>2. CASE proc[p].pc = "release" /\ Launch!Cached
        <3>1. Launch!Ends(p, "ran", "whole")
            BY <1>4, <2>1, <2>2 DEF Launch!Release, Launch!Returns
        <3> QED BY <2>1, <3>1, FindEnds
    <2>3. CASE ~(proc[p].pc = "release" /\ Launch!Cached)
        <3>1. Launch!Ends(p, "no binary", "none")
            BY <1>4, <2>3 DEF Launch!Release, Launch!Returns
        <3>2. proc[p].npm => mirrored
            BY <1>1, <1>4, <2>3 DEF Launch!Release, Fine, Launch!Cached
        <3> QED BY <2>1, <3>1, <3>2, FindEnds
    <2> QED BY <2>2, <2>3
<1> QED BY <1>2, <1>3, <1>4

\* Every step keeps the invariant.
LEMMA FindNext == FindInv /\ [Launch!Next]_(Launch!vars) => FindInv'
<1> SUFFICES ASSUME FindInv, [Launch!Next]_(Launch!vars) PROVE FindInv'
    OBVIOUS
<1>1. ASSUME NEW p \in Procs, Launch!Kill(p) PROVE FindInv'
    <2>1. CacheInv' /\ cache' = cache /\ mirrored' = mirrored /\ Launch!Ends(p, "killed", "none")
        BY <1>1 DEF Launch!Kill, FindInv, CacheInv
    <2> QED BY <2>1, FindEnds
<1>2. CASE Launch!Age
    BY <1>2 DEF Launch!Age, FindInv, CacheInv
<1>3. CASE UNCHANGED Launch!vars
    BY <1>3 DEF Launch!vars, FindInv, CacheInv
<1> QED
    BY <1>1, <1>2, <1>3, FindStart, FindDetach, FindMirror, FindLooks, FindLocks, FindDownload
    DEF Launch!Next

-----------------------------------------------------------------------------
(* Who has the lock: the inductive invariant *)

Holding == {"locked", "npm", "rename", "throw", "release"}

\* As long as no lock has become old, it is taken from nobody, and it is there
\* as long as somebody holds it.
LockInv ==
    /\ FindInv
    /\ ~aged =>
          /\ lock # "stale"
          /\ \A p \in Procs : proc[p].pc \notin {"steal", "remake"}
          /\ \A p \in Procs : proc[p].pc \in Holding => lock = "fresh"
          /\ \A p, q \in Procs : proc[p].pc \in Holding /\ proc[q].pc \in Holding => p = q

\* At first the lock is free.
LEMMA LockInit == Launch!Init => LockInv
<1> SUFFICES ASSUME Launch!Init PROVE LockInv
    OBVIOUS
<1>1. \A p \in Procs : proc[p].pc = "ended"
    BY DEF Launch!Init, Launch!Ended
<1> QED BY <1>1, FindInit DEF Launch!Init, LockInv, Holding

\* A launcher that goes on or ends changes its own step.
LEMMA OwnStep ==
    ASSUME FindInv, NEW p \in Procs,
           \/ \E pc : Launch!Goes(p, pc)
           \/ \E end, ran : Launch!Ends(p, end, ran)
           \/ Launch!Download(p)
           \/ Launch!Start(p)
    PROVE  \A q \in Procs : q # p => proc'[q] = proc[q]
BY DEF FindInv, Launch!Goes, Launch!Ends, Launch!Download, Launch!Start

\* A launcher that goes on, or ends.
LEMMA NextStep ==
    ASSUME FindInv, NEW p \in Procs
    PROVE  /\ \A pc : Launch!Goes(p, pc) => proc'[p].pc = pc
           /\ \A end, ran : Launch!Ends(p, end, ran) => proc'[p].pc = "ended"
<1>1. proc[p] \in ProcType /\ proc \in [Procs -> ProcType]
    BY DEF FindInv
<1>2. ASSUME NEW pc, Launch!Goes(p, pc) PROVE proc'[p].pc = pc
    BY <1>1, <1>2 DEF ProcType, Launch!Goes
<1>3. ASSUME NEW end, NEW ran, Launch!Ends(p, end, ran) PROVE proc'[p].pc = "ended"
    BY <1>1, <1>3 DEF ProcType, Launch!Ends
<1> QED BY <1>2, <1>3

\* Nobody comes to hold the lock: the lock stays, or its only holder lets it go.
LEMMA NoNewHolder ==
    ASSUME LockInv, FindInv', NEW p \in Procs, aged' = aged,
           \A q \in Procs : q # p => proc'[q] = proc[q],
           \/ lock' = lock
           \/ lock' = "free" /\ proc[p].pc \in Holding /\ proc'[p].pc \notin Holding,
           proc'[p].pc \in Holding => proc[p].pc \in Holding,
           ~aged => proc'[p].pc \notin {"steal", "remake"}
    PROVE  LockInv'
BY DEF LockInv, Holding

\* Looking for the binary, mirroring it, and starting.
LEMMA LockOutside ==
    ASSUME LockInv, FindInv', NEW p \in Procs,
           \/ Launch!Start(p) \/ Launch!Locate(p) \/ Launch!MirrorMkdir(p) \/ Launch!MirrorLink(p) \/ Launch!MirrorPublish(p)
           \/ Launch!Check(p) \/ Launch!Wait(p) \/ Launch!Kill(p)
    PROVE  LockInv'
<1>1. FindInv /\ lock' = lock /\ aged' = aged
    BY DEF LockInv, Launch!Start, Launch!Locate, Launch!MirrorMkdir, Launch!MirrorLink,
         Launch!MirrorPublish, Launch!Check, Launch!Wait, Launch!Kill
<1>2. CASE Launch!Start(p)
    <2>1. proc'[p].pc = "locate"
        BY ZenonT(90), <1>1, <1>2 DEF Launch!Start, FindInv, ProcType, Launch!Ended
    <2>2. \A q \in Procs : q # p => proc'[q] = proc[q]
        BY <1>1, <1>2, OwnStep
    <2> QED BY <1>1, <2>1, <2>2, NoNewHolder DEF Holding
<1>3. CASE ~Launch!Start(p)
    <2>1. \/ \E pc \in {"mkdir", "detach", "check", "link", "publish", "acquire"} : Launch!Goes(p, pc)
          \/ \E end, ran : Launch!Ends(p, end, ran)
        BY <1>3 DEF Launch!Locate, Launch!MirrorMkdir, Launch!MirrorLink, Launch!MirrorPublish,
             Launch!Check, Launch!Wait, Launch!Kill, Launch!Returns
    <2>2. proc'[p].pc \notin Holding \union {"steal", "remake"}
        BY <1>1, <2>1, NextStep DEF Holding
    <2>3. \A q \in Procs : q # p => proc'[q] = proc[q]
        BY <1>1, <2>1, OwnStep
    <2> QED BY <1>1, <2>2, <2>3, NoNewHolder
<1> QED BY <1>2, <1>3

\* The one that holds the lock goes on, and lets it go at the end.
LEMMA LockInside ==
    ASSUME LockInv, FindInv', NEW p \in Procs,
           Launch!Locked(p) \/ Launch!Download(p) \/ Launch!Rename(p) \/ Launch!Release(p)
    PROVE  LockInv'
<1>1. FindInv /\ aged' = aged /\ proc[p].pc \in Holding
    BY DEF LockInv, Launch!Locked, Launch!Download, Launch!Rename, Launch!Release, Holding
<1>2. CASE Launch!Release(p)
    <2>1. \E end, ran : Launch!Ends(p, end, ran)
        BY <1>2 DEF Launch!Release, Launch!Returns
    <2>2. proc'[p].pc = "ended" /\ lock' = "free"
        BY <1>1, <1>2, <2>1, NextStep DEF Launch!Release
    <2>3. \A q \in Procs : q # p => proc'[q] = proc[q]
        BY <1>1, <2>1, OwnStep
    <2> QED BY <1>1, <2>2, <2>3, NoNewHolder DEF Holding
<1>3. CASE Launch!Locked(p) \/ Launch!Rename(p)
    <2>1. \E pc : Launch!Goes(p, pc) /\ pc \in Holding
        BY <1>3 DEF Launch!Locked, Launch!Rename, Holding
    <2>2. proc'[p].pc \in Holding /\ lock' = lock
        BY <1>1, <1>3, <2>1, NextStep DEF Launch!Locked, Launch!Rename
    <2>3. \A q \in Procs : q # p => proc'[q] = proc[q]
        BY <1>1, <2>1, OwnStep
    <2> QED BY <1>1, <2>2, <2>3, NoNewHolder DEF Holding
<1>4. CASE Launch!Download(p)
    <2>1. proc'[p].pc \in {"rename", "throw"} /\ lock' = lock
        BY ZenonT(90), <1>1, <1>4 DEF Launch!Download, Launch!Goes, FindInv, ProcType
    <2>2. \A q \in Procs : q # p => proc'[q] = proc[q]
        BY <1>1, <1>4, OwnStep
    <2> QED BY <1>1, <2>1, <2>2, NoNewHolder DEF Holding
<1> QED BY <1>2, <1>3, <1>4

\* Whoever finds the lock free has it alone; it is stolen only when it is old.
LEMMA LockTaken ==
    ASSUME LockInv, FindInv', NEW p \in Procs,
           Launch!Acquire(p) \/ Launch!Stat(p) \/ Launch!Steal(p) \/ Launch!Remake(p)
    PROVE  LockInv'
<1>1. FindInv /\ aged' = aged
    BY DEF LockInv, Launch!Acquire, Launch!Stat, Launch!Steal, Launch!Remake
<1>2. CASE aged
    BY <1>1, <1>2 DEF LockInv
<1>3. CASE ~aged /\ Launch!Acquire(p) /\ lock = "free"
    <2>1. Launch!Goes(p, "locked") /\ lock' = "fresh"
        BY <1>3 DEF Launch!Acquire
    <2>2. proc'[p].pc = "locked" /\ \A q \in Procs : q # p => proc'[q] = proc[q]
        BY <1>1, <2>1, NextStep, OwnStep
    <2>3. \A q \in Procs : proc[q].pc \notin Holding \union {"steal", "remake"}
        BY <1>3 DEF LockInv
    <2>4. \A q \in Procs : q # p => proc'[q].pc \notin Holding \union {"steal", "remake"}
        BY <2>2, <2>3
    <2> QED BY <1>1, <2>1, <2>2, <2>4 DEF LockInv, Holding
<1>4. CASE ~aged /\ ((Launch!Acquire(p) /\ lock # "free") \/ Launch!Stat(p))
    <2>1. (Launch!Goes(p, "stat") \/ Launch!Goes(p, "wait")) /\ lock' = lock
        BY <1>4 DEF Launch!Acquire, Launch!Stat, LockInv
    <2>2. proc'[p].pc \in {"stat", "wait"}
        BY <1>1, <2>1, NextStep
    <2>3. \A q \in Procs : q # p => proc'[q] = proc[q]
        BY <1>1, <2>1, OwnStep
    <2> QED BY <1>1, <2>1, <2>2, <2>3, NoNewHolder DEF Holding
<1>5. CASE ~aged /\ (Launch!Steal(p) \/ Launch!Remake(p))
    BY <1>5 DEF LockInv, Launch!Steal, Launch!Remake
<1> QED BY <1>2, <1>3, <1>4, <1>5

\* Every step keeps the invariant.
LEMMA LockNext == LockInv /\ [Launch!Next]_(Launch!vars) => LockInv'
<1> SUFFICES ASSUME LockInv, [Launch!Next]_(Launch!vars) PROVE LockInv'
    OBVIOUS
<1>1. FindInv'
    BY FindNext DEF LockInv
<1>2. ASSUME NEW p \in Procs, Launch!StartDetachedDownload(p) PROVE LockInv'
    <2>1. PICK q \in Procs \ {p} :
            proc' = [proc EXCEPT ![p].pc = "ended", ![p].end = "served later",
                                 ![q] = [Launch!Ended EXCEPT !.pc = "check", !.kind = "heal"]]
        BY <1>2 DEF Launch!StartDetachedDownload
    <2>2. proc'[p].pc = "ended"
        BY <2>1 DEF LockInv, FindInv, ProcType
    <2>3. proc'[q].pc = "check"
        BY <2>1 DEF LockInv, FindInv, ProcType, Launch!Ended
    <2>4. \A k \in Procs : k # p /\ k # q => proc'[k] = proc[k]
        BY <2>1 DEF LockInv, FindInv
    <2>5. lock' = lock /\ aged' = aged
        BY <1>2 DEF Launch!StartDetachedDownload
    <2>6. \A k \in Procs : proc'[k].pc \in {"ended", "check"} \/ proc'[k] = proc[k]
        BY <2>2, <2>3, <2>4
    <2> QED BY <1>1, <2>5, <2>6 DEF LockInv, Holding
<1>3. CASE Launch!Age
    BY <1>1, <1>3 DEF Launch!Age, LockInv
<1>4. CASE UNCHANGED Launch!vars
    BY <1>1, <1>4 DEF Launch!vars, LockInv
<1> QED BY <1>1, <1>2, <1>3, <1>4, LockOutside, LockInside, LockTaken DEF Launch!Next

-----------------------------------------------------------------------------
(* The theorems *)

\* bin/cli.js never executes a binary that is half there, and one for which npm
\* has installed the binary runs it unless a mirror had made the directory.
THEOREM RunsInstalledAlways == Launch!Spec => []Launch!RunsInstalled
<1>1. Launch!Init => FindInv
    BY FindInit
<1>2. FindInv /\ [Launch!Next]_(Launch!vars) => FindInv'
    BY FindNext
<1>3. FindInv => Launch!RunsInstalled
    BY DEF FindInv, Fine, Launch!RunsInstalled
<1> QED BY <1>1, <1>2, <1>3, PTL DEF Launch!Spec

\* Under the lock of bin/cli.js one launcher downloads, as long as no lock is
\* older than 15 minutes.
THEOREM OneDownloadAlways == Launch!Spec => []Launch!OneDownload
<1>1. Launch!Init => LockInv
    BY LockInit
<1>2. LockInv /\ [Launch!Next]_(Launch!vars) => LockInv'
    BY LockNext
<1>3. LockInv => Launch!OneDownload
    BY DEF LockInv, Launch!OneDownload, Holding
<1> QED BY <1>1, <1>2, <1>3, PTL DEF Launch!Spec

\* What the launchers count and see of the lock.
SharedType ==
    lock \in {"free", "fresh", "stale"} /\ starts \in 0..Starts /\ aged \in BOOLEAN

\* What the launchers share has its types at first.
LEMMA SharedTypeInit == ASSUME Launch!Assumptions PROVE Launch!Init => SharedType
<1>1. Starts \in 0..Starts
    BY DEF Launch!Assumptions
<1>2. Launch!Init => lock = "free" /\ starts = Starts /\ aged = FALSE
    BY DEF Launch!Init
<1> QED BY <1>1, <1>2 DEF SharedType

\* What the launchers share keeps its types.
LEMMA SharedTypeNext ==
    ASSUME Launch!Assumptions
    PROVE  SharedType /\ [Launch!Next]_(Launch!vars) => SharedType'
<1> SUFFICES ASSUME SharedType, [Launch!Next]_(Launch!vars) PROVE SharedType'
    OBVIOUS
<1>1. CASE \E p \in Procs : Launch!Start(p)
    BY <1>1 DEF Launch!Start, SharedType, Launch!Assumptions
<1>2. CASE ~\E p \in Procs : Launch!Start(p)
    BY ZenonT(90), <1>2 DEF Launch!Next, Launch!vars, SharedType, Launch!Locate,
         Launch!StartDetachedDownload, Launch!MirrorMkdir, Launch!MirrorLink,
         Launch!MirrorPublish, Launch!Check, Launch!Acquire, Launch!Stat, Launch!Steal,
         Launch!Remake, Launch!Locked, Launch!Download, Launch!Rename, Launch!Release,
         Launch!Wait, Launch!Kill, Launch!Age
<1> QED BY <1>1, <1>2

\* The cache, the lock and the launchers keep their types: no launcher sees a part
\* of a binary.
THEOREM LauncherTypeOKAlways ==
    ASSUME Launch!Assumptions
    PROVE  Launch!Spec => []Launch!TypeOK
<1>1. Launch!Init => FindInv /\ SharedType
    BY FindInit, SharedTypeInit
<1>2. FindInv /\ SharedType /\ [Launch!Next]_(Launch!vars) => FindInv' /\ SharedType'
    BY FindNext, SharedTypeNext
<1>3. FindInv /\ SharedType => Launch!TypeOK
    BY DEF FindInv, CacheInv, SharedType, Launch!TypeOK, ProcType
<1> QED BY <1>1, <1>2, <1>3, PTL DEF Launch!Spec

\* What the invariant of the launchers says of them.
LEMMA LockInvSays == LockInv /\ SharedType => Launch!TypeOK /\ Launch!RunsInstalled /\ Launch!OneDownload
<1> SUFFICES ASSUME LockInv, SharedType PROVE Launch!TypeOK /\ Launch!RunsInstalled /\ Launch!OneDownload
    OBVIOUS
<1>1. FindInv
    BY DEF LockInv
<1>2. Launch!TypeOK
    BY <1>1 DEF FindInv, CacheInv, SharedType, Launch!TypeOK, ProcType
<1>3. Launch!RunsInstalled
    BY <1>1 DEF FindInv, Fine, Launch!RunsInstalled
<1>4. Launch!OneDownload
    BY DEF LockInv, Launch!OneDownload, Holding
<1> QED BY <1>2, <1>3, <1>4

-----------------------------------------------------------------------------
(* Release.  The inductive invariant: a run publishes the packages in their order, so *)
(* when it comes to the main package the others are there from its commit.  *)

\* The packages a run has come past, or found, are from its commit.
Behind(h) ==
    host[h].pc \in {"publish", "verify", "published"} =>
        \A p \in Rel!Packages :
            p < host[h].next \/ p \in host[h].existing => registry[p] = host[h].head

\* A run begins with the first package, and is past the last only when it
\* reports success.
Within(h) ==
    /\ host[h].pc = "check" => host[h].next = 1
    /\ host[h].pc \in {"publish", "verify"} => host[h].next \in Rel!Packages
Past(h) == host[h].pc = "published" => host[h].next = Last + 1

ReleaseInv == Rel!TypeOK /\ Rel!MainIsComplete /\ \A h \in Hosts : Behind(h) /\ Within(h) /\ Past(h)

\* How the record of a host changes.
HostBecomes(h, s) == host' = [host EXCEPT ![h] = s]

\* A package that is there stays as it is.
AppendOnly == \A p \in Rel!Packages : registry[p] # None => registry'[p] = registry[p]

\* At first nothing is published.
LEMMA ReleaseInvInit == ASSUME Rel!Assumptions PROVE Rel!Init => ReleaseInv
<1> SUFFICES ASSUME Rel!Init PROVE ReleaseInv
    OBVIOUS
<1>1. Last \in Rel!Packages /\ 1 \in 1..(Last + 1)
    BY DEF Rel!Assumptions, Rel!Packages
<1>2. Rel!TypeOK
    BY <1>1 DEF Rel!Init, Rel!TypeOK, Rel!Assumptions
<1>3. Rel!MainIsComplete
    BY <1>1 DEF Rel!Init, Rel!MainIsComplete
<1>4. \A h \in Hosts : host[h].pc = "idle"
    <2>1. PICK head \in Commits :
            host = [h \in Hosts |-> [pc |-> "idle", head |-> head, existing |-> {}, next |-> 1]]
        BY DEF Rel!Init
    <2> QED BY <2>1
<1>5. \A h \in Hosts : Behind(h) /\ Within(h) /\ Past(h)
    BY <1>4 DEF Behind, Within, Past
<1> QED BY <1>2, <1>3, <1>5 DEF ReleaseInv

\* Hosts other than the one that takes a step keep what they know.
LEMMA OthersKeep ==
    ASSUME Rel!Assumptions, ReleaseInv, NEW h \in Hosts, NEW s, HostBecomes(h, s), AppendOnly
    PROVE  \A k \in Hosts : k # h => Behind(k)' /\ Within(k)' /\ Past(k)'
<1> SUFFICES ASSUME NEW k \in Hosts, k # h
             PROVE  Behind(k)' /\ Within(k)' /\ Past(k)'
    OBVIOUS
<1>1. host'[k] = host[k]
    BY DEF ReleaseInv, Rel!TypeOK, HostBecomes
<1>2. host[k].head \in Commits /\ host[k].head # None
    BY DEF ReleaseInv, Rel!TypeOK, Rel!Assumptions
<1>3. Behind(k) /\ Within(k) /\ Past(k)
    BY DEF ReleaseInv
<1>4. Behind(k)'
    BY <1>1, <1>2, <1>3 DEF Behind, AppendOnly
<1>5. Within(k)' /\ Past(k)'
    BY <1>1, <1>3 DEF Within, Past
<1> QED BY <1>4, <1>5

\* What a host may become: its record has its type, and what is behind it is
\* published from its commit.
HostIs(s, there) ==
    /\ s \in [pc : {"idle", "check", "publish", "verify", "failed", "published"},
              head : Commits, existing : SUBSET Rel!Packages, next : 1..(Last + 1)]
    /\ s.pc \in {"publish", "verify", "published"} =>
          \A p \in Rel!Packages : p < s.next \/ p \in s.existing => there[p] = s.head
    /\ s.pc = "check" => s.next = 1
    /\ s.pc \in {"publish", "verify"} => s.next \in Rel!Packages
    /\ s.pc = "published" => s.next = Last + 1

\* A step of one host that leaves the registry complete or without a main package.
LEMMA HostStep ==
    ASSUME Rel!Assumptions, ReleaseInv, NEW h \in Hosts, NEW s, HostBecomes(h, s), AppendOnly,
           registry' \in [Rel!Packages -> Commits \union {None}], Rel!MainIsComplete',
           runs' \in 0..Runs, HostIs(s, registry')
    PROVE  ReleaseInv'
<1>1. host'[h] = s
    BY DEF ReleaseInv, Rel!TypeOK, HostBecomes
<1>2. Rel!TypeOK'
    BY DEF ReleaseInv, Rel!TypeOK, HostBecomes, HostIs
<1>3. Behind(h)' /\ Within(h)' /\ Past(h)'
    BY <1>1 DEF Behind, Within, Past, HostIs
<1>4. \A k \in Hosts : k # h => Behind(k)' /\ Within(k)' /\ Past(k)'
    BY OthersKeep
<1> QED BY <1>2, <1>3, <1>4 DEF ReleaseInv

\* A step of one host that publishes nothing.
LEMMA QuietStep ==
    ASSUME Rel!Assumptions, ReleaseInv, NEW h \in Hosts, NEW s, HostBecomes(h, s),
           registry' = registry, runs' \in 0..Runs, HostIs(s, registry)
    PROVE  ReleaseInv'
<1>1. AppendOnly /\ registry' \in [Rel!Packages -> Commits \union {None}] /\ Rel!MainIsComplete'
    BY DEF ReleaseInv, Rel!TypeOK, AppendOnly, Rel!MainIsComplete
<1> QED BY <1>1, HostStep

\* What IInv says of one host.
LEMMA HostFine == ASSUME ReleaseInv, NEW h \in Hosts PROVE HostIs(host[h], registry)
BY DEF ReleaseInv, Rel!TypeOK, Behind, Within, Past, HostIs

\* The record of a host whose program counter alone changes.
LEMMA GoesStep ==
    ASSUME Rel!Assumptions, ReleaseInv, NEW h \in Hosts,
           NEW pc \in {"failed", "verify"}, Rel!Goes(h, pc), pc = "verify" => host[h].pc = "publish"
    PROVE  ReleaseInv'
<1> DEFINE s == [host[h] EXCEPT !.pc = pc]
<1>1. HostBecomes(h, s) /\ registry' = registry /\ runs' \in 0..Runs
    BY DEF Rel!Goes, HostBecomes, ReleaseInv, Rel!TypeOK
<1>2. HostIs(s, registry)
    BY HostFine DEF HostIs
<1> QED BY <1>1, <1>2, QuietStep

\* When the package a host is at is there from its commit, the host may advance.
LEMMA AdvancesFine ==
    ASSUME Rel!Assumptions, ReleaseInv, NEW h \in Hosts, NEW there,
           host[h].pc \in {"publish", "verify"}, Rel!Advances(h),
           HostIs(host[h], there), there[host[h].next] = host[h].head
    PROVE  \E s : HostBecomes(h, s) /\ HostIs(s, there)
<1> DEFINE s == [host[h] EXCEPT !.next = @ + 1,
                                !.pc = IF host[h].next = Last THEN "published" ELSE "publish"]
<1>1. HostBecomes(h, s)
    BY DEF Rel!Advances, HostBecomes, ReleaseInv, Rel!TypeOK
<1>2. host[h].next \in Rel!Packages /\ Last \in Nat \ {0}
    BY DEF HostIs, Rel!Assumptions
<1>3. /\ s.next = host[h].next + 1 /\ s.head = host[h].head /\ s.existing = host[h].existing
      /\ s.pc = IF host[h].next = Last THEN "published" ELSE "publish"
    BY DEF HostIs
<1>4. s \in [pc : {"idle", "check", "publish", "verify", "failed", "published"},
             head : Commits, existing : SUBSET Rel!Packages, next : 1..(Last + 1)]
    <2>1. host[h].next + 1 \in 1..(Last + 1)
        BY <1>2 DEF Rel!Packages
    <2> QED BY <2>1 DEF HostIs
<1>5. \A p \in Rel!Packages : p < s.next \/ p \in s.existing => there[p] = s.head
    <2> SUFFICES ASSUME NEW p \in Rel!Packages, p < s.next \/ p \in s.existing
                 PROVE  there[p] = s.head
        OBVIOUS
    <2>1. p = host[h].next \/ p < host[h].next \/ p \in host[h].existing
        BY <1>2, <1>3 DEF Rel!Packages
    <2> QED BY <2>1, <1>3 DEF HostIs
<1>6. s.pc \in {"publish", "verify"} => s.next \in Rel!Packages
    BY <1>2, <1>3 DEF Rel!Packages
<1>7. s.pc = "published" => s.next = Last + 1
    BY <1>3
<1>8. HostIs(s, there)
    BY <1>4, <1>5, <1>6, <1>7 DEF HostIs
<1> QED BY <1>1, <1>8

-----------------------------------------------------------------------------
(* The steps *)

\* A run that starts knows nothing yet.
LEMMA RunStartKeeps ==
    ASSUME Rel!Assumptions, ReleaseInv, NEW h \in Hosts, Rel!Start(h)
    PROVE  ReleaseInv'
<1>1. PICK head \in Commits :
        HostBecomes(h, [pc |-> "check", head |-> head, existing |-> {}, next |-> 1])
    BY DEF Rel!Start, HostBecomes
<1>2. HostIs([pc |-> "check", head |-> head, existing |-> {}, next |-> 1], registry)
    BY DEF HostIs, Rel!Assumptions
<1>3. registry' = registry /\ runs' \in 0..Runs
    BY DEF Rel!Start, ReleaseInv, Rel!TypeOK, Rel!Assumptions
<1> QED BY <1>1, <1>2, <1>3, QuietStep

\* A run goes on only when what it has found is from its commit.
LEMMA CheckKeeps ==
    ASSUME Rel!Assumptions, ReleaseInv, NEW h \in Hosts, Rel!Check(h)
    PROVE  ReleaseInv'
<1>1. CASE Rel!Goes(h, "failed")
    BY <1>1, GoesStep
<1>2. ASSUME NEW existing \in Rel!Found, Rel!Resumes(h, existing),
             host' = [host EXCEPT ![h].pc = "publish", ![h].existing = existing],
             UNCHANGED <<registry, runs>>
      PROVE  ReleaseInv'
    <2> DEFINE s == [host[h] EXCEPT !.pc = "publish", !.existing = existing]
    <2>1. host[h].pc = "check"
        BY DEF Rel!Check
    <2>2. HostBecomes(h, s) /\ registry' = registry /\ runs' \in 0..Runs
        BY <1>2 DEF HostBecomes, ReleaseInv, Rel!TypeOK
    <2>3. existing \subseteq Rel!Packages /\ 1 \in Rel!Packages
        BY DEF Rel!Found, Rel!Assumptions, Rel!Packages
    <2>4. host[h].next = 1 /\ HostIs(host[h], registry)
        BY <2>1, HostFine DEF HostIs
    <2>5. /\ s.pc = "publish" /\ s.existing = existing /\ s.next = 1 /\ s.head = host[h].head
          /\ s \in [pc : {"idle", "check", "publish", "verify", "failed", "published"},
                   head : Commits, existing : SUBSET Rel!Packages, next : 1..(Last + 1)]
        BY <2>3, <2>4 DEF HostIs
    <2>6. \A p \in Rel!Packages : p < s.next \/ p \in s.existing => registry[p] = s.head
        BY <1>2, <2>5 DEF Rel!Packages, Rel!Resumes
    <2>7. HostIs(s, registry)
        BY <2>3, <2>5, <2>6 DEF HostIs
    <2> QED BY <2>2, <2>7, QuietStep
<1> QED BY <1>1, <1>2 DEF Rel!Check

\* What was found is from the commit, so it may be skipped.
LEMMA SkipKeeps ==
    ASSUME Rel!Assumptions, ReleaseInv, NEW h \in Hosts, Rel!Skip(h)
    PROVE  ReleaseInv'
<1>1. HostIs(host[h], registry)
    BY HostFine
<1>2. registry[host[h].next] = host[h].head
    BY <1>1 DEF Rel!Skip, HostIs
<1>3. PICK s : HostBecomes(h, s) /\ HostIs(s, registry)
    BY <1>1, <1>2, AdvancesFine DEF Rel!Skip
<1>4. registry' = registry /\ runs' \in 0..Runs
    BY DEF Rel!Skip, ReleaseInv, Rel!TypeOK
<1> QED BY <1>3, <1>4, QuietStep

\* A package is published after those before it, and for good.
LEMMA PublishKeeps ==
    ASSUME Rel!Assumptions, ReleaseInv, NEW h \in Hosts, Rel!Publish(h)
    PROVE  ReleaseInv'
<1>1. CASE Rel!Goes(h, "verify")
    BY <1>1, GoesStep DEF Rel!Publish
<1>2. ASSUME registry[host[h].next] = None,
             registry' = [registry EXCEPT ![host[h].next] = host[h].head],
             Rel!Advances(h) \/ host' = [host EXCEPT ![h].pc = "verify"], UNCHANGED runs
      PROVE  ReleaseInv'
    <2>1. HostIs(host[h], registry) /\ host[h].pc = "publish"
        BY HostFine DEF Rel!Publish
    <2>2. /\ host[h].next \in Rel!Packages /\ host[h].head \in Commits /\ host[h].head # None
          /\ \A p \in Rel!Packages : p < host[h].next => registry[p] = host[h].head
        BY <2>1 DEF HostIs, Rel!Assumptions
    <2>3. /\ registry' \in [Rel!Packages -> Commits \union {None}]
          /\ registry'[host[h].next] = host[h].head
          /\ \A p \in Rel!Packages : p # host[h].next => registry'[p] = registry[p]
        BY <1>2, <2>2 DEF ReleaseInv, Rel!TypeOK
    <2>4. AppendOnly
        BY <1>2, <2>3 DEF AppendOnly
    <2>5. Rel!MainIsComplete'
        <3>1. CASE host[h].next = Last
            <4>1. \A p \in Rel!Packages : p # Last => p < Last
                BY DEF Rel!Packages, Rel!Assumptions
            <4> QED BY <2>2, <2>3, <3>1, <4>1 DEF Rel!MainIsComplete
        <3>2. CASE host[h].next # Last
            <4>1. Last \in Rel!Packages
                BY DEF Rel!Packages, Rel!Assumptions
            <4>2. registry[Last] = None
                BY <1>2, <2>2 DEF ReleaseInv, Rel!MainIsComplete
            <4> QED BY <2>3, <3>2, <4>1, <4>2 DEF Rel!MainIsComplete
        <3> QED BY <3>1, <3>2
    <2>6. HostIs(host[h], registry')
        BY <2>1, <2>2, <2>4 DEF AppendOnly, HostIs
    <2>7. CASE Rel!Advances(h)
        <3>1. PICK s : HostBecomes(h, s) /\ HostIs(s, registry')
            BY <2>1, <2>3, <2>6, <2>7, AdvancesFine
        <3> QED BY <1>2, <2>3, <2>4, <2>5, <3>1, HostStep DEF ReleaseInv, Rel!TypeOK
    <2>8. CASE host' = [host EXCEPT ![h].pc = "verify"]
        <3> DEFINE s == [host[h] EXCEPT !.pc = "verify"]
        <3>1. HostBecomes(h, s)
            BY <2>8 DEF HostBecomes, ReleaseInv, Rel!TypeOK
        <3>2. HostIs(s, registry')
            BY <2>1, <2>2, <2>6 DEF HostIs
        <3> QED BY <1>2, <2>3, <2>4, <2>5, <3>1, <3>2, HostStep DEF ReleaseInv, Rel!TypeOK
    <2> QED BY <1>2, <2>7, <2>8
<1> QED BY <1>1, <1>2 DEF Rel!Publish

\* After an error, only a package from the commit counts as published.
LEMMA VerifyKeeps ==
    ASSUME Rel!Assumptions, ReleaseInv, NEW h \in Hosts, Rel!Verify(h)
    PROVE  ReleaseInv'
<1>1. CASE Rel!Goes(h, "failed")
    BY <1>1, GoesStep
<1>2. CASE Rel!Verified(h) /\ Rel!Advances(h) /\ UNCHANGED <<registry, runs>>
    <2>1. PICK s : HostBecomes(h, s) /\ HostIs(s, registry)
        BY <1>2, HostFine, AdvancesFine DEF Rel!Verify, Rel!Verified
    <2> QED BY <1>2, <2>1, QuietStep DEF ReleaseInv, Rel!TypeOK
<1> QED BY <1>1, <1>2 DEF Rel!Verify

\* Every step keeps the invariant.
LEMMA ReleaseInvNext ==
    ASSUME Rel!Assumptions
    PROVE  ReleaseInv /\ [Rel!Next]_(Rel!vars) => ReleaseInv'
<1> SUFFICES ASSUME ReleaseInv, [Rel!Next]_(Rel!vars) PROVE ReleaseInv'
    OBVIOUS
<1>1. CASE UNCHANGED Rel!vars
    BY <1>1 DEF Rel!vars, ReleaseInv, Rel!TypeOK, Rel!MainIsComplete, Behind, Within, Past,
                Rel!Packages
<1>2. CASE Rel!Next
    <2>1. PICK h \in Hosts : \/ Rel!Start(h) \/ Rel!Check(h) \/ Rel!Skip(h)
                            \/ Rel!Publish(h) \/ Rel!Verify(h) \/ Rel!Stop(h)
        BY <1>2 DEF Rel!Next
    <2>2. CASE Rel!Start(h)
        BY <2>2, RunStartKeeps
    <2>3. CASE Rel!Check(h)
        BY <2>3, CheckKeeps
    <2>4. CASE Rel!Skip(h)
        BY <2>4, SkipKeeps
    <2>5. CASE Rel!Publish(h)
        BY <2>5, PublishKeeps
    <2>6. CASE Rel!Verify(h)
        BY <2>6, VerifyKeeps
    <2>7. CASE Rel!Stop(h)
        BY <2>7, GoesStep DEF Rel!Stop
    <2> QED BY <2>1, <2>2, <2>3, <2>4, <2>5, <2>6, <2>7
<1> QED BY <1>1, <1>2

-----------------------------------------------------------------------------
(* The theorems *)

\* A version that can be installed has every platform, from one commit:
\* What the invariant of the releases says of them.
LEMMA ReleaseInvSays ==
    ASSUME Rel!Assumptions
    PROVE  ReleaseInv => Rel!TypeOK /\ Rel!MainIsComplete /\ Rel!PublishedIsOwn
<1> SUFFICES ASSUME ReleaseInv PROVE Rel!TypeOK /\ Rel!MainIsComplete /\ Rel!PublishedIsOwn
    OBVIOUS
<1>1. ASSUME NEW h \in Hosts, host[h].pc = "published", NEW p \in Rel!Packages
      PROVE  registry[p] = host[h].head
    <2>1. p < host[h].next
        BY <1>1 DEF ReleaseInv, Past, Rel!Packages, Rel!Assumptions
    <2> QED BY <1>1, <2>1 DEF ReleaseInv, Behind
<1> QED BY <1>1 DEF ReleaseInv, Rel!PublishedIsOwn

\* scripts/release.mjs publishes the main package last and skips or accepts
\* only packages of its own commit.
THEOREM MainIsCompleteAlways ==
    ASSUME Rel!Assumptions
    PROVE  Rel!Spec => []Rel!MainIsComplete
BY ReleaseInvInit, ReleaseInvNext, ReleaseInvSays, PTL DEF Rel!Spec

\* A run of scripts/release.mjs that reports success has released its commit.
THEOREM PublishedIsOwnAlways ==
    ASSUME Rel!Assumptions
    PROVE  Rel!Spec => []Rel!PublishedIsOwn
BY ReleaseInvInit, ReleaseInvNext, ReleaseInvSays, PTL DEF Rel!Spec
=============================================================================
