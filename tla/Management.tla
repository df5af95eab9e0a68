------------------------------ MODULE Management ------------------------------
(***************************************************************************)
(* One run of a management handler: a command of the CLI or a tool of the  *)
(* MCP server, step by step (Commands, McpTools), while others change the  *)
(* default branch, delete the workspace or link the directory to another.  *)
(* A request may be refused, fail before it is carried out, or be carried  *)
(* out and its answer lost; the SDK's client for reading asks again after  *)
(* a failure, the client for writing does not (volcengine.NewWriteClient). *)
(***************************************************************************)
EXTENDS McpTools, Integers

CONSTANTS
    Handlers,       \* the commands and tools
    Workspaces, Branches,
    Regions,        \* the regions of the configuration, in their order
    None,
    Retries,        \* bound: how often the SDK asks again
    Others          \* bound: what others do during the run

VARIABLES
    home,           \* the region of each workspace, None once deleted
    default,        \* the default branch of each workspace
    linked,         \* the workspace the directory is linked to, or None
    others,         \* what others may still do
    policy,         \* of the MCP server
    plan, args,     \* the handler and its arguments
    todo,           \* the steps left
    regions, lastErr, region,   \* of "find"
    ws, branch,     \* what the handler works on
    confirmed,      \* what the prompt showed when the user said yes, or None
    tries,          \* requests sent again for the present step
    log,            \* the writes carried out
    kept,           \* a delete could not read or remove the link, and went on
    outcome         \* "none" while it runs

world == <<home, default, linked, others>>
found == <<regions, lastErr, region>>
fixed == <<policy, plan, args>>
vars == <<world, fixed, todo, found, ws, branch, confirmed, tries, log, kept, outcome>>

Kinds == {"target", "scope", "unscoped", "find", "resolve", "read", "role", "ask", "asleep", "echo",
          "unlink", "clear", "env"}
Steps(h) == {h.steps[i] : i \in DOMAIN h.steps}
Writing(h) == Steps(h) \ Kinds
Target == [ws |-> ws, branch |-> branch]

-----------------------------------------------------------------------------
(* What the handlers have in common, and what else the constants are *)

\* Every step of A comes before every step of B; after one of B.
Precede(h, A, B) ==
    \A i, j \in DOMAIN h.steps : h.steps[i] \in A /\ h.steps[j] \in B => i < j
Follow(h, A, B) ==
    \A j \in DOMAIN h.steps : h.steps[j] \in A => \E i \in 1..(j - 1) : h.steps[i] \in B

\* A tool that writes is not offered by a read-only server, and looks up the
\* workspace in its scope, unless it works on the account or on its Pages.
KeepsPolicy(h) ==
    /\ "target" \notin Steps(h)
    /\ ~h.mutating \/ h.feature = "none" => Writing(h) = {}
    /\ h.feature \in {"account", "pages"} \/ Follow(h, Writing(h), {"scope"})

\* The order of the steps of a handler: it finds what it works on, asks, writes.
WellFormed(h) ==
    /\ h \in [server : {"cli", "mcp"}, feature : STRING, mutating : BOOLEAN,
              branch : {"none", "given", "default"}, retries : BOOLEAN, steps : Seq(STRING)]
    /\ "clear" \notin Steps(h)
    /\ Precede(h, {"target", "scope"}, {"find", "ask"} \union Writing(h))
    /\ Precede(h, {"find", "ask", "asleep"}, Writing(h))
    /\ Follow(h, {"find", "resolve", "DeleteWorkspace"}, {"target", "scope"})
    /\ Follow(h, {"unlink"}, {"DeleteWorkspace"})
    /\ ~({"asleep", "unlink"} \subseteq Steps(h))
    /\ "SetAsDefaultBranch" \in Steps(h) => h.branch = "given"
    /\ h.server = "mcp" => KeepsPolicy(h)

Assumptions ==
    /\ \A h \in Handlers : WellFormed(h)
    /\ None \notin Workspaces \union Branches
    /\ None \notin [ws : Workspaces \union {None}, branch : Branches \union {None}]
    /\ Regions \in Seq(STRING) /\ Regions # <<>> /\ \A i \in DOMAIN Regions : Regions[i] # None
    /\ Retries \in Nat /\ Others \in Nat

-----------------------------------------------------------------------------
(* Which handler runs *)

\* Mutant of allows: a read-only server offers the tools that write.
AllowsWrites(h) ==
    h.feature = "none" \/ (~(h.feature = "account" /\ policy.ref # None) /\ policy.enabled)

\* policy.allows, of a server whose features are on or off for the tool.
allows(h) ==
    /\ ~(policy.readOnly /\ h.mutating)
    /\ \/ h.feature = "none"
       \/ ~(h.feature = "account" /\ policy.ref # None) /\ policy.enabled

Open == [readOnly |-> FALSE, ref |-> None, enabled |-> TRUE]

Arguments(h) ==
    {a \in [ws : Workspaces \union {None}, branch : Branches \union {None}, env : BOOLEAN] :
        /\ h.branch = "given" => a.branch # None
        /\ h.branch = "none" => a.branch = None
        /\ a.env => "env" \in Steps(h)}

Init ==
    /\ home \in [Workspaces -> {Regions[i] : i \in DOMAIN Regions} \union {None}]
    /\ default \in [Workspaces -> Branches]
    /\ linked \in Workspaces \union {None}
    /\ others = Others
    /\ plan \in Handlers
    /\ policy \in [readOnly : BOOLEAN, ref : Workspaces \union {None}, enabled : BOOLEAN]
    /\ plan.server = "cli" => policy = Open
    /\ args \in Arguments(plan)
    /\ outcome = IF allows(plan) THEN "none" ELSE "refused"
    /\ todo = IF allows(plan) THEN plan.steps ELSE <<>>
    /\ regions = Regions /\ lastErr = FALSE /\ region = Regions[1]
    /\ ws = None /\ branch = args.branch
    /\ confirmed = None /\ tries = 0 /\ log = <<>> /\ kept = FALSE

At(step) == outcome = "none" /\ todo # <<>> /\ Head(todo) = step
Advance == todo' = Tail(todo) /\ UNCHANGED outcome
Stop(how) == todo' = <<>> /\ outcome' = how
Keep == UNCHANGED <<world, fixed>>

\* The service knows what the request is about.
Known == ws # None => home[ws] = region

-----------------------------------------------------------------------------
(* Steps *)

\* WorkspaceResolver.Resolve
Resolve ==
    /\ At("target")
    /\ LET w == IF args.ws # None THEN args.ws ELSE linked
       IN  ws' = w /\ IF w = None THEN Stop("error") ELSE Advance
    /\ Keep /\ UNCHANGED <<found, branch, confirmed, tries, log, kept>>

\* policy.resolveWorkspace
ScopedWorkspace == IF policy.ref # None THEN policy.ref ELSE args.ws
OutOfScope == policy.ref # None /\ args.ws \notin {None, policy.ref}

resolveWorkspace ==
    /\ At("scope")
    /\ IF OutOfScope \/ ScopedWorkspace = None
       THEN Stop("error") /\ UNCHANGED ws
       ELSE Advance /\ ws' = ScopedWorkspace
    /\ Keep /\ UNCHANGED <<found, branch, confirmed, tries, log, kept>>

Unscoped ==
    /\ At("unscoped")
    /\ IF policy.ref # None THEN Stop("error") ELSE Advance
    /\ Keep /\ UNCHANGED <<found, ws, branch, confirmed, tries, log, kept>>

\* findSupabaseWorkspace: the workspace is of the region asked (and of another
\* engine, perhaps), or is not, or the request failed.
AskRegion ==
    /\ At("find") /\ regions # <<>>
    /\ \/ /\ home[ws] = Head(regions)
          /\ region' = Head(regions)
          /\ Advance \/ Stop("error")
          /\ UNCHANGED <<regions, lastErr>>
       \/ /\ home[ws] # Head(regions)
          /\ regions' = Tail(regions)
          /\ UNCHANGED <<lastErr, region, todo, outcome>>
       \/ /\ lastErr' = TRUE
          /\ regions' = Tail(regions)
          /\ UNCHANGED <<region, todo, outcome>>
    /\ Keep /\ UNCHANGED <<ws, branch, confirmed, tries, log, kept>>

\* Mutant of AllRegionsAsked: the failure of a region is forgotten.
AllRegionsAskedAnyway ==
    /\ At("find") /\ regions = <<>>
    /\ Stop("notfound")
    /\ Keep /\ UNCHANGED <<found, ws, branch, confirmed, tries, log, kept>>

AllRegionsAsked ==
    /\ At("find") /\ regions = <<>>
    /\ Stop(IF lastErr THEN "error" ELSE "notfound")
    /\ Keep /\ UNCHANGED <<found, ws, branch, confirmed, tries, log, kept>>

\* The branch given, or ResolveDefaultBranch.
resolveBranchID ==
    /\ At("resolve")
    /\ \/ branch # None /\ Advance /\ UNCHANGED branch
       \/ branch = None /\ Known /\ Advance /\ branch' = default[ws]
       \/ branch = None /\ Stop("error") /\ UNCHANGED branch
    /\ Keep /\ UNCHANGED <<found, ws, confirmed, tries, log, kept>>

Read ==
    /\ At("read")
    /\ (Known /\ Advance) \/ Stop("error")
    /\ Keep /\ UNCHANGED <<found, ws, branch, confirmed, tries, log, kept>>

\* PromptYesNo
Confirm ==
    /\ At("ask")
    /\ \/ Advance /\ confirmed' = Target
       \/ Stop("cancelled") /\ UNCHANGED confirmed
    /\ Keep /\ UNCHANGED <<found, ws, branch, tries, log, kept>>

\* What only looks at the account, at an answer or at a flag: is the role
\* granted, is the workspace asleep, does the answer name what was written?
Check ==
    /\ \/ At("asleep") /\ (Advance \/ Stop("ok"))
       \/ At("echo") /\ (Advance \/ Stop("error"))
       \/ At("role") /\ (Advance \/ Stop("error"))
       \/ At("env") /\ IF args.env THEN Stop("error") ELSE Advance
    /\ Keep /\ UNCHANGED <<found, ws, branch, confirmed, tries, log, kept>>

-----------------------------------------------------------------------------
(* Writes *)

\* What the service does with a write.
CarryOut(op) ==
    /\ home' = IF op = "DeleteWorkspace" THEN [home EXCEPT ![ws] = None] ELSE home
    /\ default' = IF op = "SetAsDefaultBranch" THEN [default EXCEPT ![ws] = branch] ELSE default
    /\ UNCHANGED <<linked, others>>

\* Mutant of WriteTarget: the default branch is looked up again.
WriteTargetNow == [ws |-> ws, branch |-> IF ws # None /\ branch # None THEN default[ws] ELSE branch]

\* What the write is about.
WriteTarget == Target

\* Mutant of Failed: the SDK retries without an end.
FailedAgain ==
    IF plan.retries
    THEN tries' = tries + 1 /\ UNCHANGED <<todo, outcome>>
    ELSE Stop("error") /\ UNCHANGED tries

\* Mutant of Failed: every client has the retries of the SDK.
FailedRetries ==
    IF tries < Retries
    THEN tries' = tries + 1 /\ UNCHANGED <<todo, outcome>>
    ELSE Stop("error") /\ UNCHANGED tries

\* The request failed, or its answer did: a failure the SDK retries, or the end.
Failed ==
    IF plan.retries /\ tries < Retries
    THEN tries' = tries + 1 /\ UNCHANGED <<todo, outcome>>
    ELSE Stop("error") /\ UNCHANGED tries

WriteStep ==
    /\ outcome = "none" /\ todo # <<>> /\ Head(todo) \notin Kinds
    /\ \/ /\ Known
          /\ CarryOut(Head(todo))
          /\ log' = Append(log, [op |-> Head(todo), target |-> WriteTarget])
          /\ \/ Advance /\ tries' = 0
             \/ Failed
       \/ Failed /\ UNCHANGED <<world, log>>
       \/ Stop("error") /\ UNCHANGED <<world, log, tries>>
    /\ UNCHANGED <<fixed, found, ws, branch, confirmed, kept>>

\* After a delete: is the directory linked to the workspace?  A link that
\* cannot be read stays, which only the debug log tells.
CheckLink ==
    /\ At("unlink")
    /\ \/ /\ todo' = (IF linked = ws THEN <<"clear">> ELSE <<>>) \o Tail(todo)
          /\ UNCHANGED kept
       \/ todo' = Tail(todo) /\ kept' = TRUE
    /\ Keep /\ UNCHANGED <<found, ws, branch, confirmed, tries, log, outcome>>

\* Unlink, whose failure is only printed.
Unlink ==
    /\ At("clear")
    /\ Advance
    /\ \/ linked' = None /\ UNCHANGED kept
       \/ kept' = TRUE /\ UNCHANGED linked
    /\ UNCHANGED <<home, default, others, fixed, found, ws, branch, confirmed, tries, log>>

Done ==
    /\ outcome = "none" /\ todo = <<>>
    /\ outcome' = "ok"
    /\ Keep /\ UNCHANGED <<todo, found, ws, branch, confirmed, tries, log, kept>>

\* Others set another default branch, delete a workspace, link the directory.
Other ==
    /\ outcome = "none" /\ others > 0
    /\ others' = others - 1
    /\ \E w \in Workspaces :
          /\ home[w] # None
          /\ \/ \E b \in Branches : default' = [default EXCEPT ![w] = b] /\ UNCHANGED <<home, linked>>
             \/ home' = [home EXCEPT ![w] = None] /\ UNCHANGED <<default, linked>>
             \/ linked' = w /\ UNCHANGED <<home, default>>
    /\ UNCHANGED <<fixed, todo, found, ws, branch, confirmed, tries, log, kept, outcome>>

Next ==
    \/ Resolve \/ resolveWorkspace \/ Unscoped \/ AskRegion \/ AllRegionsAsked \/ resolveBranchID
    \/ Read \/ Confirm \/ Check \/ WriteStep \/ CheckLink \/ Unlink \/ Done \/ Other

Spec == Init /\ [][Next]_vars

-----------------------------------------------------------------------------
(* Properties *)

Targets == [ws : Workspaces \union {None}, branch : Branches \union {None}]

TypeOK ==
    /\ home \in [Workspaces -> {Regions[i] : i \in DOMAIN Regions} \union {None}]
    /\ default \in [Workspaces -> Branches]
    /\ linked \in Workspaces \union {None} /\ others \in 0..Others
    /\ ws \in Workspaces \union {None} /\ branch \in Branches \union {None}
    /\ confirmed \in Targets \union {None}
    /\ \A i \in DOMAIN log : log[i].target \in Targets
    /\ tries \in 0..Retries /\ kept \in BOOLEAN
    /\ outcome \in {"none", "ok", "error", "notfound", "cancelled", "refused"}

\* A command that asks first writes only after a yes, to the workspace that the
\* prompt showed and, if it showed one (a wake resolves it later), to that
\* branch, whatever the default branch is by then; a run that was cancelled,
\* refused or found no workspace wrote nothing.
ConfirmedOnly ==
    /\ "ask" \in Steps(plan) =>
          \A i \in DOMAIN log :
              /\ confirmed # None /\ log[i].target.ws = confirmed.ws
              /\ confirmed.branch \in {None, log[i].target.branch}
    /\ outcome \in {"cancelled", "notfound", "refused"} => log = <<>>

\* A handler with the client for writing carries out its writes in order,
\* leaving none out and none of them twice, though answers are lost and it may
\* stop anywhere: at[i] is the step that was the i-th write carried out.
AtMostOnce ==
    ~plan.retries =>
        \E at \in [DOMAIN log -> DOMAIN plan.steps] :
            /\ \A i, j \in DOMAIN log : i < j => at[i] < at[j]
            /\ \A i \in DOMAIN log : log[i].op = plan.steps[at[i]]
            /\ \A i \in DOMAIN log : \A k \in 1..at[i] :
                  plan.steps[k] \notin Kinds => \E j \in DOMAIN log : at[j] = k

\* What a handler ends with is true.  A success has carried out every write (a
\* wake finds the workspace running instead), and a delete that succeeds has
\* left no link to the workspace, whatever others link meanwhile, unless the
\* link could not be read or removed: then it reports success all the same, and
\* of the former says nothing.  "Not found" is said only of a workspace that is
\* in none of the regions: a region that could not be asked makes it a failure.
OutcomeIsTrue ==
    /\ outcome = "ok" =>
          /\ \/ \A op \in Writing(plan) : \E i \in DOMAIN log : log[i].op = op
             \/ "asleep" \in Steps(plan) /\ log = <<>>
          /\ "unlink" \in Steps(plan) => home[ws] = None /\ (linked # ws \/ kept)
    /\ outcome = "notfound" => \A i \in DOMAIN Regions : home[ws] # Regions[i]

\* A read-only server changes nothing, and one scoped to a workspace writes
\* to no other (its Pages tools write to the account's Pages projects).
PolicyHolds ==
    plan.server = "mcp" =>
        /\ policy.readOnly => log = <<>>
        /\ policy.ref # None =>
              \A i \in DOMAIN log :
                  \/ log[i].target.ws = policy.ref
                  \/ log[i].target.ws = None /\ plan.feature = "pages"

\* No request that writes is carried out twice (policy.writeClient: "with
\* retries disabled to prevent duplicate side effects").
WritesAreNotRetried == \A i, j \in DOMAIN log : log[i].op = log[j].op => i = j
=============================================================================
