------------------------------ MODULE LinkState ------------------------------
(***************************************************************************)
(* The link of a directory and the profiles of the branches that are       *)
(* linked directly: supabase/.temp/link.json in every directory, and one   *)
(* config.json of the user with a profile (the keys) for each URL and the  *)
(* name of the current one (internal/link, internal/solo/config.go).       *)
(* Neither file has a lock, and both are cut before they are written.      *)
(* Processes link, unlink and run the commands of a linked branch          *)
(* (SoloCommands) in several directories; requests, prompts and writes     *)
(* fail, and a process is killed at any step.  No branch is configured by  *)
(* environment variables.                                                  *)
(***************************************************************************)
EXTENDS SoloCommands, FiniteSets, Integers

CONSTANTS
    Procs,      \* 1..n: the first that is idle begins the next command
    Dirs, Urls, None,
    Turns       \* bound: commands that are begun

Assumptions ==
    /\ Procs = 1..Cardinality(Procs) /\ Turns \in Nat
    /\ Urls \cap {None, "cut", "management"} = {} /\ None \notin {"cut", "management"}

VARIABLES
    link,       \* link.json: None, "cut", "management" or the URL of a branch
    ref,        \* the directories with a file project-ref
    profiles,   \* config.json: the URLs with a profile
    current,    \* config.json: the current one, None for "default"
    emptied,    \* a kill has cut config.json
    turns,
    together,   \* two commands have run at the same time
    proc        \* per process

files == <<link, ref, profiles, current, emptied>>
vars == <<files, turns, together, proc>>

Idle ==
    [cmd |-> "idle", dir |-> None, url |-> None, yes |-> FALSE, todo |-> <<>>,
     state |-> None, target |-> None, key |-> None, edit |-> {},
     home |-> None, moved |-> FALSE, said |-> FALSE, wrote |-> FALSE, sent |-> {}]

Links == Urls \union {None, "cut", "management"}

Init ==
    /\ link \in [Dirs -> Urls \union {None, "management"}]
    /\ ref \in SUBSET Dirs
    /\ \A d \in Dirs : link[d] = "management" => d \in ref
    /\ profiles \in SUBSET Urls
    /\ \A d \in Dirs : link[d] \in Urls => link[d] \in profiles
    /\ current \in profiles \union {None}
    /\ profiles # {} => current # None
    /\ emptied = FALSE
    /\ turns = Turns
    /\ together = FALSE
    /\ proc = [p \in Procs |-> Idle]

At(p, step) == proc[p].todo # <<>> /\ Head(proc[p].todo) = step
Advanced(c) == [c EXCEPT !.todo = Tail(@)]
Becomes(p, c) == proc' = [proc EXCEPT ![p] = c]
Ends(p) == Becomes(p, Idle)

\* link.json of the directory of p changes under the other processes there.
Relinks(p, value, c) ==
    LET d == proc[p].dir
    IN  /\ link' = [link EXCEPT ![d] = value]
        /\ proc' = [q \in Procs |->
             IF q = p THEN c
             ELSE IF proc[q].dir = d THEN [proc[q] EXCEPT !.moved = TRUE] ELSE proc[q]]

-----------------------------------------------------------------------------
(* Every process first finds out which command tree it has *)

Begin(p) ==
    /\ proc[p].cmd = "idle" /\ turns > 0
    /\ \A q \in Procs : q < p => proc[q].cmd # "idle"
    /\ turns' = turns - 1
    /\ together' = (together \/ \E q \in Procs : proc[q].cmd # "idle")
    /\ \E c \in [cmd : {"link"}, dir : Dirs, url : Urls, yes : BOOLEAN]
              \union [cmd : {"manage", "unlink", "solo"}, dir : Dirs, url : {None}, yes : {FALSE}] :
          Becomes(p, [Idle EXCEPT !.cmd = c.cmd, !.dir = c.dir, !.url = c.url, !.yes = c.yes,
                                  !.todo = <<"state", "profile", "enter">>])
    /\ UNCHANGED files

\* LoadStateAtDir
LoadState(p) ==
    /\ At(p, "state")
    /\ Becomes(p, [Advanced(proc[p]) EXCEPT !.state = link[proc[p].dir]])
    /\ UNCHANGED <<files, turns, together>>

\* Mutant of Profile: the current profile goes before the link.
ProfileCurrent(state) == IF current \in profiles THEN current ELSE None

\* profileForState of a direct link, the current profile without one: None if
\* there is no such profile.
Profile(state) ==
    IF state \in Urls THEN (IF state \in profiles THEN state ELSE None)
    ELSE IF state # "cut" /\ current \in profiles THEN current ELSE None

\* Resolver.Resolve: a command ends without a profile, but for the first
\* resolve, which chooses the tree.
LoadProfile(p) ==
    /\ At(p, "profile")
    /\ LET c == proc[p]
           t == Profile(c.state)
       IN  IF t = None /\ Tail(c.todo) # <<"enter">> THEN Ends(p)
           ELSE Becomes(p, [Advanced(c) EXCEPT !.target = t, !.key = t])
    /\ UNCHANGED <<files, turns, together>>

\* resolveSoloAIGatewayToken: no profile, no key.
LoadKey(p) ==
    /\ At(p, "key")
    /\ Becomes(p, [Advanced(proc[p]) EXCEPT !.key = Profile(proc[p].state)])
    /\ UNCHANGED <<files, turns, together>>

\* buildRootCommand: a directly linked branch has the commands of cmd/solo, a
\* link that cannot be resolved only link and unlink.
Tree(c) ==
    IF c.state \in {None, "management"} THEN "manager"
    ELSE IF c.target = None THEN "error" ELSE "solo"

\* The steps a command may take in its tree, none if the tree has no such command.
Programs(c) ==
    CASE c.cmd = "link" -> {<<"probe", "check", "load", "save", "saveLink">>}
      [] c.cmd = "unlink" -> {<<"look">>}
      [] c.cmd = "manage" /\ Tree(c) = "manager" -> {<<"find", "ref", "saveLink">>}
      [] c.cmd = "solo" /\ Tree(c) = "solo" -> SoloHandlers
      [] OTHER -> {}

\* link and unlink look at the files again.
Enter(p) ==
    /\ At(p, "enter")
    /\ LET c == proc[p]
           t == IF c.cmd = "solo" THEN c.state ELSE None
       IN  IF Programs(c) = {} THEN Ends(p)
           ELSE \E steps \in Programs(c) :
                   Becomes(p, [c EXCEPT !.todo = steps, !.home = t,
                                        !.state = None, !.target = None, !.key = None])
    /\ UNCHANGED <<files, turns, together>>

-----------------------------------------------------------------------------
(* link with a URL and keys, link with a workspace *)

\* probeSoloKey of each key
Probe(p) ==
    /\ At(p, "probe")
    /\ Becomes(p, Advanced(proc[p])) \/ Ends(p)
    /\ UNCHANGED <<files, turns, together>>

\* The search for the workspace through the regions.
Find(p) ==
    /\ At(p, "find")
    /\ Becomes(p, Advanced(proc[p])) \/ Ends(p)
    /\ UNCHANGED <<files, turns, together>>

\* A link is replaced with --yes only, and one that cannot be read never.
CheckLink(p) ==
    /\ At(p, "check")
    /\ LET state == link[proc[p].dir]
       IN  IF state = None \/ (state # "cut" /\ proc[p].yes)
           THEN Becomes(p, Advanced(proc[p])) ELSE Ends(p)
    /\ UNCHANGED <<files, turns, together>>

\* Mutant of SaveLoad: SaveProfile begins with an empty config.
SaveLoadNothing(p) ==
    /\ At(p, "load")
    /\ Becomes(p, [Advanced(proc[p]) EXCEPT !.edit = {}])
    /\ UNCHANGED <<files, turns, together>>

\* SaveProfile: LoadConfig, the profile is set, saveConfig replaces the file.
SaveLoad(p) ==
    /\ At(p, "load")
    /\ Becomes(p, [Advanced(proc[p]) EXCEPT !.edit = profiles])
    /\ UNCHANGED <<files, turns, together>>

SaveProfile(p) ==
    /\ At(p, "save")
    /\ profiles' = proc[p].edit \union {proc[p].url}
    /\ current' = proc[p].url
    /\ Becomes(p, Advanced(proc[p]))
    /\ UNCHANGED <<link, ref, emptied, turns, together>>

\* writeVolcengineLinkState: three files in no order, one of them project-ref.
WriteRef(p) ==
    /\ At(p, "ref")
    /\ ref' = ref \union {proc[p].dir}
    /\ Becomes(p, Advanced(proc[p]))
    /\ UNCHANGED <<link, profiles, current, emptied, turns, together>>

\* SaveSoloState, SaveManagementState
SaveLink(p) ==
    /\ At(p, "saveLink")
    /\ Relinks(p, IF proc[p].cmd = "link" THEN proc[p].url ELSE "management", Advanced(proc[p]))
    /\ UNCHANGED <<ref, profiles, current, emptied, turns, together>>

-----------------------------------------------------------------------------
(* unlink *)

\* unlink.Run: a direct link is removed after a prompt; for anything else,
\* also a link that cannot be read, project-ref says whether there is a link.
Look(p) ==
    /\ At(p, "look")
    /\ LET c == proc[p]
       IN  IF link[c.dir] \in Urls THEN Becomes(p, [c EXCEPT !.todo = <<"ask", "clear">>])
           ELSE IF c.dir \in ref THEN Becomes(p, [c EXCEPT !.todo = <<"removeAll">>])
           ELSE Ends(p)
    /\ UNCHANGED <<files, turns, together>>

\* ClearState
Clear(p) ==
    /\ At(p, "clear")
    /\ Relinks(p, None, Advanced(proc[p]))
    /\ UNCHANGED <<ref, profiles, current, emptied, turns, together>>

\* Unlink: RemoveAll of supabase/.temp
RemoveAll(p) ==
    /\ At(p, "removeAll")
    /\ ref' = ref \ {proc[p].dir}
    /\ Relinks(p, None, Advanced(proc[p]))
    /\ UNCHANGED <<profiles, current, emptied, turns, together>>

-----------------------------------------------------------------------------
(* The commands of a linked branch *)

\* A prompt, which --yes answers.
Ask(p) ==
    /\ At(p, "ask")
    /\ Becomes(p, [Advanced(proc[p]) EXCEPT !.said = TRUE]) \/ Ends(p)
    /\ UNCHANGED <<files, turns, together>>

\* A request: refused, answered, or the end of the command after it.
Request(p) ==
    /\ At(p, "read") \/ At(p, "call") \/ At(p, "write")
    /\ LET c == proc[p]
       IN  Becomes(p, [Advanced(c) EXCEPT !.sent = @ \union {[url |-> c.target, key |-> c.key]},
                                       !.wrote = @ \/ Head(c.todo) = "write"])
    /\ UNCHANGED <<files, turns, together>>

Local(p) ==
    /\ At(p, "local")
    /\ Becomes(p, Advanced(proc[p]))
    /\ UNCHANGED <<files, turns, together>>

-----------------------------------------------------------------------------

\* A command ends, by itself or with the error of any step, or is killed.
End(p) ==
    /\ proc[p].cmd # "idle"
    /\ Ends(p)
    /\ UNCHANGED <<files, turns, together>>

\* The process is killed while a file is cut and not yet written.
KilledWriting(p) ==
    \/ /\ At(p, "save")
       /\ profiles' = {} /\ current' = None /\ emptied' = TRUE
       /\ Ends(p)
       /\ UNCHANGED <<link, ref, turns, together>>
    \/ /\ At(p, "saveLink")
       /\ Relinks(p, "cut", Idle)
       /\ UNCHANGED <<ref, profiles, current, emptied, turns, together>>

Step(p) ==
    \/ LoadState(p) \/ LoadProfile(p) \/ LoadKey(p) \/ Enter(p) \/ Probe(p) \/ Find(p)
    \/ CheckLink(p) \/ SaveLoad(p) \/ SaveProfile(p) \/ WriteRef(p) \/ SaveLink(p) \/ Look(p) \/ Clear(p)
    \/ RemoveAll(p) \/ Ask(p) \/ Request(p) \/ Local(p)

Next == \E p \in Procs : Begin(p) \/ Step(p) \/ End(p) \/ KilledWriting(p)

Spec == Init /\ [][Next]_vars

-----------------------------------------------------------------------------
(* Properties *)

TypeOK ==
    /\ link \in [Dirs -> Links] /\ ref \subseteq Dirs
    /\ profiles \subseteq Urls /\ current \in Urls \union {None}
    /\ emptied \in BOOLEAN /\ turns \in 0..Turns /\ together \in BOOLEAN
    /\ \A p \in Procs :
          /\ proc[p].state \in Links /\ proc[p].home \in Links
          /\ proc[p].target \in Urls \union {None} /\ proc[p].key \in Urls \union {None}
          /\ proc[p].edit \subseteq Urls
          /\ proc[p].sent \subseteq [url : Urls, key : Urls \union {None}]

\* A directory that is linked to a branch finds the keys of the branch, though
\* link fails or is killed between its two files, and whatever other
\* directories are linked to later; not so when two commands link at the same
\* time, or when one is killed while it writes the profiles.
LinkKeepsProfile ==
    ~together /\ ~emptied => \A d \in Dirs : link[d] \in Urls => link[d] \in profiles

\* A command sends its requests to the branch its directory was linked to when
\* it began, with the key of that branch (or, for the AI Gateway, without one),
\* although links of other directories change which profile is current.  When
\* the link of its own directory is changed meanwhile, a command still works on
\* one branch to its end.
RequestsGoHome ==
    \A p \in Procs :
        LET c == proc[p]
        IN  /\ ~c.moved => c.sent \subseteq [url : {c.home}, key : {c.home, None}]
            /\ \A r, s \in c.sent : r.url = s.url

\* A command of a linked branch writes only after a yes, or with --yes.
AskedFirst == \A p \in Procs : proc[p].wrote => proc[p].said
=============================================================================
