--------------------------- MODULE FunctionSources ---------------------------
(***************************************************************************)
(* The sources of Edge Functions: "functions new" writes them to disk,     *)
(* "functions deploy" sends what the entrypoint imports, "functions        *)
(* download" brings them back (internal/functions/{new,deploy,download}).  *)
(* One command runs at a time; meanwhile the user edits files and others   *)
(* change the default branch.  A request may fail, and a deploy may fail   *)
(* after it was carried out.  What a file imports is part of its content.  *)
(***************************************************************************)
EXTENDS FiniteSets, Integers

CONSTANTS
    Slugs, Branches, None,
    Initial,   \* the files there may be at the start
    Calls,     \* bound: commands
    Edits      \* bound: edits, and changes of the default branch

Assumptions == None \notin Slugs /\ Calls \in Nat /\ Edits \in Nat

Names == {"index.ts", "helper.ts", "deno.json", "app.py", "run.sh", "requirements.txt", "copy"}
shared == <<"_shared", "util.ts">>
Paths == Slugs \X Names \union {shared}
PythonFiles == {"app.py", "run.sh", "requirements.txt"}

\* The relative imports of a file with the content "imports".
Imports(p) ==
    CASE p[2] = "index.ts" -> {<<p[1], "helper.ts">>}
      [] p[2] = "helper.ts" -> {<<p[1], "index.ts">>, shared}
      [] OTHER -> {}

VARIABLES
    disk,      \* the content of each file, "none" if it is not there
    config,    \* config.toml: the entrypoint of each function, "none" or "off"
    default,   \* the default branch
    server,    \* the function of each branch and slug, or None
    calls, edits,
    op, asked, \* the command under way, and the functions it is for
    access,    \* the branch it works on (ResolvePgMetaAccess)
    configured,    \* the configuration it has loaded
    maps,      \* the functions whose import map it found then
    todo, slug,    \* functions not done yet, and the one under way
    runtime, queue, seen, sent, missing,    \* of the function under way
    deployed,  \* the functions deployed, with what was sent
    outcome    \* of the last command

environment == <<config, default, server>>
walk == <<runtime, queue, seen, sent, missing>>
run == <<op, asked, access, configured, maps, deployed, outcome, calls>>
vars == <<disk, environment, edits, run, todo, slug, walk>>

Exists(p) == disk[p] # "none"
NoFunction == slug = None
Entrypoint(s) == IF configured[s] = "app" THEN <<s, "app.py">> ELSE <<s, "index.ts">>

Init ==
    /\ \E files \in SUBSET Initial :
          disk = [p \in Paths |-> IF p \in files THEN "imports" ELSE "none"]
    /\ config \in [Slugs -> {"none", "index", "off"}]
    /\ default \in Branches
    /\ server = [k \in Branches \X Slugs |-> None]
    /\ calls = 0 /\ edits = 0
    /\ op = "none" /\ asked = {} /\ access = None /\ outcome = "none"
    /\ configured = config /\ maps = {} /\ todo = {} /\ slug = None
    /\ runtime = "none" /\ queue = {} /\ seen = {} /\ sent = <<>> /\ missing = {}
    /\ deployed = <<>>

Start(command, slugs) ==
    /\ op = "none" /\ calls < Calls
    /\ calls' = calls + 1 /\ op' = command /\ asked' = slugs /\ todo' = slugs /\ slug' = None
    /\ outcome' = "none" /\ deployed' = <<>>
    /\ access' = default
    /\ configured' = config
    /\ maps' = {s \in Slugs : config[s] # "none" /\ Exists(<<s, "deno.json">>)}

End(how) == op' = "none" /\ outcome' = how /\ slug' = None /\ todo' = {}
Going == UNCHANGED <<op, asked, access, configured, maps, deployed, outcome, calls>>
Ended == UNCHANGED <<asked, access, configured, maps, deployed, calls>>

\* The request that resolves the branch, or another one, fails.
RequestFails ==
    /\ op \in {"deploy", "download"}
    /\ End("error") /\ Ended
    /\ UNCHANGED <<disk, environment, edits, walk>>

-----------------------------------------------------------------------------
(* functions new: queue holds the files not written yet *)

New(s, files) ==
    /\ Start("new", {s})
    /\ queue' = {<<s, n>> : n \in files}
    /\ UNCHANGED <<disk, environment, edits, runtime, seen, sent, missing>>

CallNew == \E s \in Slugs : New(s, {"index.ts"}) \/ New(s, PythonFiles)

\* Mutant of CreateFile: O_TRUNC in the place of O_EXCL.
CreateFileOver ==
    /\ op = "new"
    /\ \E p \in queue :
          /\ disk' = [disk EXCEPT ![p] = "imports"]
          /\ queue' = queue \ {p}
    /\ Going /\ UNCHANGED <<environment, edits, runtime, seen, sent, missing, todo, slug>>

\* O_EXCL, in any order (the files of a Python function are a Go map).
CreateFile ==
    /\ op = "new"
    /\ \E p \in queue :
          IF Exists(p)
          THEN End("error") /\ Ended /\ UNCHANGED <<disk, queue>>
          ELSE /\ disk' = [disk EXCEPT ![p] = "imports"]
               /\ queue' = queue \ {p}
               /\ Going /\ UNCHANGED <<todo, slug>>
    /\ UNCHANGED <<environment, edits, runtime, seen, sent, missing>>

\* Unless the configuration that was loaded has the function.
appendConfigFile ==
    /\ op = "new" /\ queue = {}
    /\ \E s \in todo :
          config' = IF configured[s] # "none" THEN config
                    ELSE [config EXCEPT ![s] = IF Exists(<<s, "app.py">>) THEN "app" ELSE "index"]
    /\ End("ok") /\ Ended
    /\ UNCHANGED <<disk, default, server, edits, walk>>

-----------------------------------------------------------------------------
(* functions deploy *)

\* getVolcengineFunctionSlugs
AllFunctions ==
    {s \in Slugs : config[s] # "none" \/ \E n \in Names : Exists(<<s, n>>)}

CallDeploy ==
    /\ \E slugs \in {{s} : s \in Slugs} \union {AllFunctions} :
          slugs # {} /\ Start("deploy", slugs)
    /\ queue' = {}
    /\ UNCHANGED <<disk, environment, edits, runtime, seen, sent, missing>>

Skip ==
    /\ op = "deploy" /\ NoFunction
    /\ \E s \in todo : configured[s] = "off" /\ todo' = todo \ {s}
    /\ Going /\ UNCHANGED <<disk, environment, edits, slug, walk>>

\* NormalizeVolcengineRuntime: the configured one, or else by the files.
Python(s) ==
    \/ configured[s] = "app"
    \/ configured[s] = "none" /\ Exists(<<s, "run.sh">>)

BeginFunction ==
    /\ op = "deploy" /\ NoFunction
    /\ \E s \in todo :
          /\ configured[s] # "off"
          /\ slug' = s /\ todo' = todo \ {s}
          /\ runtime' = IF Python(s) THEN "python" ELSE "node"
          /\ queue' = {Entrypoint(s)}
    /\ seen' = {} /\ sent' = <<>> /\ missing' = {}
    /\ Going /\ UNCHANGED <<disk, environment, edits>>

\* Mutant of WalkFile: only the imports of the entrypoint are followed.
WalkEntrypoint ==
    /\ op = "deploy"
    /\ \E p \in queue :
          IF p \in seen THEN queue' = queue \ {p} /\ UNCHANGED <<seen, sent, missing>>
          ELSE /\ seen' = seen \union {p}
               /\ sent' = [q \in DOMAIN sent \union (IF Exists(p) THEN {p} ELSE {}) |->
                              IF q = p THEN disk[p] ELSE sent[q]]
               /\ missing' = IF Exists(p) THEN missing ELSE missing \union {p}
               /\ queue' = (queue \ {p}) \union
                              (IF p = Entrypoint(slug) /\ disk[p] = "imports" THEN Imports(p) ELSE {})
    /\ Going /\ UNCHANGED <<disk, environment, edits, runtime, todo, slug>>

\* One turn of walkVolcengineImportPaths: a file that is not there is skipped.
WalkFile ==
    /\ op = "deploy"
    /\ \E p \in queue :
          IF p \in seen THEN queue' = queue \ {p} /\ UNCHANGED <<seen, sent, missing>>
          ELSE /\ seen' = seen \union {p}
               /\ sent' = [q \in DOMAIN sent \union (IF Exists(p) THEN {p} ELSE {}) |->
                              IF q = p THEN disk[p] ELSE sent[q]]
               /\ missing' = IF Exists(p) THEN missing ELSE missing \union {p}
               /\ queue' = (queue \ {p}) \union (IF disk[p] = "imports" THEN Imports(p) ELSE {})
    /\ Going /\ UNCHANGED <<disk, environment, edits, runtime, todo, slug>>

\* The files of the walk, and the import map if it is still there.
Files ==
    LET map == <<slug, "deno.json">>
        more == IF slug \in maps /\ Exists(map) THEN {map} ELSE {}
    IN  [q \in DOMAIN sent \union more |-> IF q \in DOMAIN sent THEN sent[q] ELSE disk[q]]

\* Mutant of DeployTo: the default branch is looked up for each function.
DeployToDefault == default

\* The branch the function goes to: resolved once, for all functions.
DeployTo == access

deployVolcengineFunction ==
    /\ op = "deploy" /\ ~NoFunction /\ queue = {}
    /\ IF Files = <<>> THEN End("error") /\ Ended /\ UNCHANGED server
       ELSE LET f == [files |-> Files, runtime |-> runtime, missing |-> missing]
            IN  /\ server' = [server EXCEPT ![<<DeployTo, slug>>] = f]
                /\ \/ /\ deployed' = [s \in DOMAIN deployed \union {slug} |->
                                        IF s = slug THEN f ELSE deployed[s]]
                      /\ slug' = None
                      /\ UNCHANGED <<op, asked, access, configured, maps, outcome, calls, todo>>
                   \/ End("error") /\ Ended
    /\ UNCHANGED <<disk, config, default, edits, walk>>

DeployReturns ==
    /\ op = "deploy" /\ NoFunction /\ todo = {}
    /\ End(IF deployed = <<>> THEN "error" ELSE "ok") /\ Ended
    /\ UNCHANGED <<disk, environment, edits, walk>>

-----------------------------------------------------------------------------
(* functions download: queue holds the files not written yet *)

CallDownload ==
    /\ \E slugs \in {{s} : s \in Slugs} \union {{s \in Slugs : server[<<default, s>>] # None}} :
          Start("download", slugs)
    /\ queue' = {}
    /\ UNCHANGED <<disk, environment, edits, runtime, seen, sent, missing>>

GetBody ==
    /\ op = "download" /\ queue = {}
    /\ \E s \in todo :
          /\ server[<<access, s>>] # None
          /\ slug' = s /\ todo' = todo \ {s}
          /\ sent' = server[<<access, s>>].files
          /\ queue' = DOMAIN sent'
    /\ Going /\ UNCHANGED <<disk, environment, edits, runtime, seen, missing>>

\* volcengineDownloadPath: a file of another directory goes below this function's.
DownloadPath(p) == IF p[1] = slug THEN p ELSE <<slug, "copy">>

WriteDownloaded ==
    /\ op = "download"
    /\ \E p \in queue :
          /\ disk' = [disk EXCEPT ![DownloadPath(p)] = sent[p]]
          /\ queue' = queue \ {p}
    /\ Going /\ UNCHANGED <<environment, edits, runtime, seen, sent, missing, todo, slug>>

DownloadReturns ==
    /\ op = "download" /\ queue = {} /\ todo = {}
    /\ End("ok") /\ Ended
    /\ UNCHANGED <<disk, environment, edits, walk>>

-----------------------------------------------------------------------------

\* The user writes or removes a file, or another default branch is set.
Edit ==
    /\ edits < Edits /\ edits' = edits + 1
    /\ \/ \E p \in Initial, c \in {"none", "plain", "imports"} :
              disk' = [disk EXCEPT ![p] = c] /\ UNCHANGED default
       \/ \E b \in Branches : default' = b /\ UNCHANGED disk
    /\ UNCHANGED <<config, server, run, todo, slug, walk>>

Next ==
    \/ CallNew \/ CreateFile \/ appendConfigFile
    \/ CallDeploy \/ Skip \/ BeginFunction \/ WalkFile \/ deployVolcengineFunction \/ DeployReturns
    \/ CallDownload \/ GetBody \/ WriteDownloaded \/ DownloadReturns
    \/ RequestFails \/ Edit

Spec == Init /\ [][Next]_vars

-----------------------------------------------------------------------------
(* Properties *)

TypeOK ==
    /\ asked \subseteq Slugs
    /\ disk \in [Paths -> {"none", "plain", "imports"}]
    /\ config \in [Slugs -> {"none", "off", "index", "app"}]
    /\ op \in {"none", "new", "deploy", "download"} /\ outcome \in {"none", "ok", "error"}
    /\ todo \subseteq Slugs /\ slug \in Slugs \union {None}
    /\ queue \subseteq Paths /\ seen \subseteq Paths
    /\ DOMAIN sent \subseteq Paths /\ DOMAIN deployed \subseteq Slugs

\* What a function is served with goes together, although the files are edited
\* while they are collected: every import of a file that was sent, as it was
\* sent, was sent too or was not there when the walk came to it.
SentIsClosed ==
    \A k \in DOMAIN server : server[k] # None =>
        \A p \in DOMAIN server[k].files :
            server[k].files[p] = "imports" =>
                Imports(p) \subseteq DOMAIN server[k].files \union server[k].missing

\* When a deploy comes to its end it has put every function it was asked for,
\* but those disabled, on the branch that it began with, as it sent them, and
\* they stay as they are until somebody deploys again.
DeployedAsAsked ==
    /\ \A s \in DOMAIN deployed : server[<<access, s>>] = deployed[s]
    /\ (op = "deploy" /\ NoFunction /\ todo = {}) =>
          {s \in asked : configured[s] # "off"} \subseteq DOMAIN deployed

\* "functions new" changes no file that exists: not one of the function, when
\* it was interrupted before, nor one the user writes meanwhile.
NewKeepsFilesStep ==
    op = "new" /\ edits' = edits => \A p \in Paths : Exists(p) => disk'[p] = disk[p]
NewKeepsFiles == [][NewKeepsFilesStep]_vars

\* A Python function is deployed with its launcher and its requirements, from
\* the disk (functions_scaffold.go: "The CLI deploy path uploads these from
\* disk (scaffolded by `functions new`)").
PythonUploadsScaffold ==
    op = "deploy" /\ edits = 0 =>
        \A s \in DOMAIN deployed : deployed[s].runtime = "python" =>
            \A n \in {"run.sh", "requirements.txt"} :
                Exists(<<s, n>>) => <<s, n>> \in DOMAIN deployed[s].files
=============================================================================
