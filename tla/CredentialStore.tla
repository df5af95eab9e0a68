--------------------------- MODULE CredentialStore ---------------------------
(***************************************************************************)
(* The credential files of the CLI and the commands that change them.      *)
(*                                                                         *)
(* ~/.volcengine holds three stores: config.json (the profiles and which   *)
(* one is current), one login cache file per console login session, and    *)
(* supabase_config.json (the Agent Plan defaults of profiles).  Each file  *)
(* is replaced by a rename, so that a reader sees one whole version; no    *)
(* lock covers two steps.  A command is a fixed sequence of such steps: it *)
(* loads config.json, works on its copy, and writes files one after the    *)
(* other.  Any number of commands run at the same time, a write may fail,  *)
(* and a process may be killed between two steps.                          *)
(***************************************************************************)
EXTENDS FiniteSetsExt, Integers, Sequences

CONSTANTS Procs,     \* the CLI processes
          Names,     \* profile names, as numbers in their sorted order
          Default,   \* the profile name "default"
          Sessions,  \* login sessions, one per Volcengine identity
          Scenes     \* what may happen on the machine: see Scene

AllCommands == {"login", "import", "logout", "logoutAll", "set", "switch",
                "region", "agentPlan", "delete"}

\* What a user does on the machine: the commands, the sessions he signs in to
\* for each profile, whether one command ends before the next one begins, and
\* whether file writes fail and processes are killed.
Scene == [commands : SUBSET AllCommands, accounts : [Names -> SUBSET Sessions],
          alone : BOOLEAN, faults : BOOLEAN]

NoSession == "none"

Assumptions ==
    /\ Names \subseteq Nat /\ Default \in Names /\ Scenes \subseteq Scene
    /\ NoSession \notin Sessions

\* A profile as config.json stores it; mode "absent" is a missing key.  Keys,
\* endpoints and the region are left out.
Profile == [mode : {"absent", "ak", "console"},
            session : Sessions \union {NoSession}]
Absent == [mode |-> "absent", session |-> NoSession]

Config == [current : Names, profiles : [Names -> Profile]]

\* FileConfig of a machine without config.json (config.go:208-210).
EmptyConfig == [current |-> Default, profiles |-> [n \in Names |-> Absent]]

VARIABLES config,   \* config.json
          caches,   \* the sessions whose login cache file exists
          plans,    \* the profiles with an entry in supabase_config.json
          proc,     \* the running command of each process
          retired,  \* profiles whose logout was begun, until they log in again
          scene     \* what happens in this behaviour; it never changes

vars == <<config, caches, plans, proc, retired, scene>>

Steps == {"load", "writeCache", "removeOld", "removeCache", "purge", "save",
          "loadPlans", "savePlans"}

\* What a command has in memory.  "cmd" is the command, "name" its profile,
\* "session" the session it logs in to, "old" the one it replaces, "plan"
\* what it does to the Agent Plan entry, "edit" its copy of config.json,
\* "victims" the profiles logout --all has still to visit.
Idle == [cmd |-> "idle", todo |-> <<>>, name |-> Default, session |-> NoSession,
         old |-> NoSession, plan |-> "keep", edit |-> EmptyConfig,
         planEdit |-> {}, victims |-> {}]

TypeOK ==
    /\ config \in Config
    /\ caches \subseteq Sessions
    /\ plans \subseteq Names
    /\ retired \subseteq Names
    /\ \A p \in Procs :
          /\ proc[p].cmd \in scene.commands \union {"idle"}
          /\ proc[p].todo \in Seq(Steps)
          /\ proc[p].name \in Names
          /\ proc[p].session \in Sessions \union {NoSession}
          /\ proc[p].old \in Sessions \union {NoSession}
          /\ proc[p].plan \in {"keep", "set", "delete"}
          /\ proc[p].edit \in Config
          /\ proc[p].planEdit \subseteq Names
          /\ proc[p].victims \subseteq Names

Init ==
    /\ config = EmptyConfig
    /\ caches = {}
    /\ plans = {}
    /\ proc = [p \in Procs |-> Idle]
    /\ retired = {}
    /\ scene \in Scenes

-----------------------------------------------------------------------------
(* The commands, as the steps they take *)

PlanSteps(plan) == IF plan = "keep" THEN <<>> ELSE <<"loadPlans", "savePlans">>

\* Mutant of ImportSteps: the old cache goes before the profile is saved.
ImportStepsEarly == <<"load", "writeCache", "removeOld", "save">>

\* completeConsoleLogin drops the cache of the old session before it saves
\* the profile; the import of a credential file does so after the save.
LoginSteps == <<"load", "writeCache", "removeOld", "save">>
ImportSteps == <<"load", "writeCache", "save", "removeOld">>
LogoutSteps == <<"load", "removeCache", "save">>
LogoutAllSteps == <<"load", "purge", "save">>
EditSteps == <<"load", "save">>

Program(cmd, plan) ==
    CASE cmd = "login" -> LoginSteps \o PlanSteps(plan)
      [] cmd = "import" -> ImportSteps \o PlanSteps(plan)
      [] cmd = "logout" -> LogoutSteps \o PlanSteps(plan)
      [] cmd = "logoutAll" -> LogoutAllSteps
      [] cmd = "agentPlan" -> <<"load">> \o PlanSteps(plan)
      [] cmd \in {"set", "switch", "region", "delete"} -> EditSteps \o PlanSteps(plan)

\* A login clears the Agent Plan defaults unless flags set them; configure
\* set leaves them alone unless flags set them; logout and delete clear them.
PlanChoices(cmd) ==
    CASE cmd \in {"login", "import"} -> {"set", "delete"}
      [] cmd = "set" -> {"set", "keep"}
      [] cmd = "agentPlan" -> {"set"}
      [] cmd \in {"logout", "delete"} -> {"delete"}
      [] cmd \in {"logoutAll", "switch", "region"} -> {"keep"}

Quiet == \A p \in Procs : proc[p].cmd = "idle"

Begin(p) ==
    /\ proc[p].cmd = "idle"
    /\ scene.alone => Quiet
    /\ \E cmd \in scene.commands, name \in Names :
       \E plan \in PlanChoices(cmd),
          session \in IF cmd \in {"login", "import"} THEN scene.accounts[name] ELSE {NoSession} :
          /\ proc' = [proc EXCEPT ![p] =
                        [Idle EXCEPT !.cmd = cmd, !.name = name, !.session = session,
                                     !.plan = plan, !.todo = Program(cmd, plan)]]
    /\ UNCHANGED <<config, caches, plans, retired, scene>>

\* The process ends: with success, with an error, or because the user
\* declines a prompt.
End(p) == proc' = [proc EXCEPT ![p] = Idle]

-----------------------------------------------------------------------------
(* What a command does to its copy of config.json *)

Existing(cfg) == {n \in Names : cfg.profiles[n].mode # "absent"}
Console(cfg) == {n \in Names : cfg.profiles[n].mode = "console"}

\* Mutant of Normalize: the current profile stays selected.
NormalizeNothing(cfg, deleted) == cfg

\* normalizeCurrentProfileAfterDelete
Normalize(cfg, deleted) ==
    IF cfg.current # deleted THEN cfg
    ELSE [cfg EXCEPT !.current = IF Existing(cfg) = {} THEN Default
                                 ELSE Min(Existing(cfg))]

Delete(cfg, name) == Normalize([cfg EXCEPT !.profiles[name] = Absent], name)

SetProfile(cfg, name, profile) ==
    [cfg EXCEPT !.profiles[name] = profile, !.current = name]

\* The copies a command may go on to save, given what it loaded; none when
\* it refuses ("profile not found", nothing to log out).
Edits(c, cfg) ==
    LET profile == cfg.profiles[c.name]
        found == c.name \in Existing(cfg)
    IN  CASE c.cmd \in {"login", "import"} ->
               {SetProfile(cfg, c.name, [mode |-> "console", session |-> c.session])}
          [] c.cmd = "logout" -> IF profile.mode = "console" THEN {Delete(cfg, c.name)} ELSE {}
          [] c.cmd = "logoutAll" -> {cfg}
          [] c.cmd = "set" -> {SetProfile(cfg, c.name, [mode |-> "ak", session |-> NoSession])}
          [] c.cmd = "switch" -> IF found THEN {[cfg EXCEPT !.current = c.name]} ELSE {}
          [] c.cmd \in {"region", "agentPlan"} -> IF found THEN {cfg} ELSE {}
          [] c.cmd = "delete" -> IF found THEN {Delete(cfg, c.name)} ELSE {}

\* LoadFileConfig, then the checks and the prompts of the command.  Whether
\* the user agrees to replace a login or to delete a profile is open: saying
\* no ends the command.
Load(p) ==
    LET c == proc[p] IN
    /\ c.todo # <<>> /\ Head(c.todo) = "load"
    /\ \/ \E edit \in Edits(c, config) :
             /\ proc' = [proc EXCEPT ![p] =
                           [c EXCEPT !.todo = Tail(@),
                                     !.edit = edit,
                                     !.old = config.profiles[c.name].session,
                                     !.victims = Console(config)]]
             /\ retired' = IF c.cmd = "logout" THEN retired \union {c.name} ELSE retired
       \/ /\ Edits(c, config) = {} \/ c.cmd \in {"login", "import", "delete"}
          /\ End(p)
          /\ UNCHANGED retired
    /\ UNCHANGED <<config, caches, plans, scene>>

-----------------------------------------------------------------------------
(* The file steps *)

At(p, step) == proc[p].todo # <<>> /\ Head(proc[p].todo) = step
Advance(p) == proc' = [proc EXCEPT ![p].todo = Tail(@)]

\* Mutant of WriteCache: the file is named after the session of the profile.
WriteCacheOld(p) ==
    /\ At(p, "writeCache")
    /\ caches' = caches \union {proc[p].old}
    /\ Advance(p)
    /\ UNCHANGED <<config, plans, retired, scene>>

WriteCache(p) ==
    /\ At(p, "writeCache")
    /\ caches' = caches \union {proc[p].session}
    /\ Advance(p)
    /\ UNCHANGED <<config, plans, retired, scene>>

\* Mutant of RemoveOld: the old cache is forgotten.
RemoveOldNever(p) ==
    /\ At(p, "removeOld")
    /\ Advance(p)
    /\ UNCHANGED <<config, caches, plans, retired, scene>>

\* The file of the replaced session goes, unless it is the new one.  That
\* removeLoginCache failed is ignored.
RemoveOld(p) ==
    /\ At(p, "removeOld")
    /\ \/ caches' = IF proc[p].old = proc[p].session THEN caches ELSE caches \ {proc[p].old}
       \/ scene.faults /\ UNCHANGED caches
    /\ Advance(p)
    /\ UNCHANGED <<config, plans, retired, scene>>

\* logout: the cache goes first; a file that is already gone is no error.
RemoveCache(p) ==
    /\ At(p, "removeCache")
    /\ caches' = caches \ {proc[p].old}
    /\ Advance(p)
    /\ UNCHANGED <<config, plans, retired, scene>>

\* logout --all visits the console profiles it loaded, in the order of a Go
\* map.  A cache that cannot be removed leaves its profile alone.
Purge(p) ==
    LET c == proc[p] IN
    /\ At(p, "purge")
    /\ \/ /\ c.victims = {}
          /\ Advance(p)
          /\ UNCHANGED <<caches, retired>>
       \/ \E n \in c.victims :
             /\ caches' = caches \ {c.edit.profiles[n].session}
             /\ retired' = retired \union {n}
             /\ proc' = [proc EXCEPT ![p] =
                           [c EXCEPT !.name = n, !.plan = "delete",
                                     !.edit = Delete(@, n),
                                     !.victims = @ \ {n},
                                     !.todo = PlanSteps("delete") \o @]]
       \/ \E n \in c.victims :
             /\ scene.faults
             /\ proc' = [proc EXCEPT ![p].victims = @ \ {n}]
             /\ UNCHANGED <<caches, retired>>
    /\ UNCHANGED <<config, plans, scene>>

\* SaveFileConfig: the whole file becomes the command's copy.
Save(p) ==
    /\ At(p, "save")
    /\ config' = proc[p].edit
    /\ retired' = IF proc[p].cmd \in {"login", "import"} THEN retired \ {proc[p].name} ELSE retired
    /\ Advance(p)
    /\ UNCHANGED <<caches, plans, scene>>

\* Clearing an entry that is not there writes nothing.
LoadPlans(p) ==
    LET c == proc[p] IN
    /\ At(p, "loadPlans")
    /\ proc' = [proc EXCEPT ![p] =
         IF c.plan = "set"
         THEN [c EXCEPT !.todo = Tail(@), !.planEdit = plans \union {c.name}]
         ELSE IF c.name \in plans
              THEN [c EXCEPT !.todo = Tail(@), !.planEdit = plans \ {c.name}]
              ELSE [c EXCEPT !.todo = Tail(Tail(@))]]
    /\ UNCHANGED <<config, caches, plans, retired, scene>>

SavePlans(p) ==
    /\ At(p, "savePlans")
    /\ plans' = proc[p].planEdit
    /\ Advance(p)
    /\ UNCHANGED <<config, caches, retired, scene>>

Finish(p) ==
    /\ proc[p].cmd # "idle"
    /\ proc[p].todo = <<>>
    /\ End(p)
    /\ UNCHANGED <<config, caches, plans, retired, scene>>

\* A step that writes or removes a file fails: the command returns the error.
\* In logout --all, a failure after the removal of a cache is only a warning.
\* (The chmod after the rename may fail too: that is Save and then Crash.)
Fail(p) ==
    /\ scene.faults
    /\ \E step \in {"writeCache", "removeCache", "save", "savePlans"} : At(p, step)
    /\ IF proc[p].cmd = "logoutAll" THEN Advance(p) ELSE End(p)
    /\ UNCHANGED <<config, caches, plans, retired, scene>>

\* The process is killed; what it has written stays.
Crash(p) ==
    /\ scene.faults
    /\ proc[p].cmd # "idle"
    /\ End(p)
    /\ UNCHANGED <<config, caches, plans, retired, scene>>

Step(p) ==
    \/ Load(p) \/ WriteCache(p) \/ RemoveOld(p) \/ RemoveCache(p) \/ Purge(p)
    \/ Save(p) \/ LoadPlans(p) \/ SavePlans(p) \/ Finish(p)

Next == \E p \in Procs : Begin(p) \/ Step(p) \/ Fail(p) \/ Crash(p)

Spec == Init /\ [][Next]_vars

-----------------------------------------------------------------------------
(* Properties *)

\* config.json always selects a profile that is in it, or "default" when it
\* has none: whatever commands run at once, are killed or fail, no deletion
\* leaves a dangling current profile (console_login.go:578-591,
\* configure_factory.go:292-298).  So does the copy a command still has to save,
\* also while logout --all is half way through its deletions.
Consistent(cfg) ==
    IF Existing(cfg) = {} THEN cfg.current = Default
    ELSE cfg.current \in Existing(cfg)

CurrentIsAProfile ==
    Consistent(config) /\ \A p \in Procs : Consistent(proc[p].edit)

\* No two profiles sign in with one identity, and so share a cache file.
OwnAccounts == \A n, m \in Names : n # m => scene.accounts[n] \cap scene.accounts[m] = {}

\* Nothing goes wrong and nothing runs at the same time.
Serial == scene.alone /\ ~scene.faults

\* Between commands, Agent Plan defaults belong to profiles that exist: a
\* profile made later under an old name does not inherit them.
PlanHasProfile == Serial /\ Quiet => plans \subseteq Existing(config)

\* The two together: the current profile and the Agent Plan defaults name
\* profiles that are in config.json.
ProfilesAgree == CurrentIsAProfile /\ PlanHasProfile

\* Between commands, every console-login profile has the cache file its next
\* use reads.  Profiles that share a session share its file, and the logout
\* of one takes it from the other.
LoginHasCache ==
    Serial /\ OwnAccounts /\ Quiet =>
       \A n \in Console(config) : config.profiles[n].session \in caches

\* A console-login profile without its cache file is one the user has begun
\* to log out, however commands fail or are killed.  Not so with a browser
\* login, which removes the file of the old session before it saves.
LoginSurvives ==
    scene.alone /\ OwnAccounts /\ "login" \notin scene.commands =>
       \A n \in Console(config) : config.profiles[n].session \in caches \/ n \in retired

\* Between commands every cache file belongs to a console-login profile: the
\* token of a replaced or logged-out login is not left on disk.  Not so with
\* configure set and configure delete, which do not look at cache files.
NoOrphanCache ==
    Serial /\ scene.commands \cap {"set", "delete"} = {} /\ Quiet =>
       \A s \in caches : \E n \in Console(config) : config.profiles[n].session = s

\* The two together: profiles and cache files match.
CachesMatchProfiles == LoginHasCache /\ NoOrphanCache

\* logout --all leaves no cache file behind (logout_factory.go:40).
LogoutAllRemovesCaches ==
    [][\A p \in Procs :
          Finish(p) /\ proc[p].cmd = "logoutAll" => caches' = {}]_vars
=============================================================================
