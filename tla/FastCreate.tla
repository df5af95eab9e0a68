------------------------------ MODULE FastCreate ------------------------------
(***************************************************************************)
(* internal/pages/pages.go, RunFastCreate: a Pages project and a workspace *)
(* are created, the workspace's default branch is awaited, migrated, given *)
(* functions, and bound to the project, which is then deployed and         *)
(* awaited.  Nothing is taken back when a step fails.  The service is      *)
(* external: the workspace and its branch come up (or never do), somebody  *)
(* may set another default branch, a deployment succeeds or fails, and     *)
(* others may deploy the same project, whose newest deployments are listed.*)
(***************************************************************************)
EXTENDS Integers, Sequences

CONSTANTS
    Migrations, Functions,  \* their files, as sequences in the order of their names
    Branches, None,
    Window,     \* how many of the newest deployments are listed, 10 in the code
    Ticks       \* ticks of ten seconds before a wait times out, 60 in the code

\* The members of a sequence of files, and that none occurs twice.
FilesIn(s) == {s[i] : i \in DOMAIN s}
Distinct(s) == \A i, j \in DOMAIN s : s[i] = s[j] => i = j

\* The steps that are no file.
Fixed == {"ask", "aidap", "pages", "upload", "project", "workspace", "ready", "bind", "deploy",
          "live", "binding"}

\* A file is one of a directory, and no other step.
Assumptions ==
    /\ Window \in Nat /\ Ticks \in Nat /\ None \notin Branches
    /\ Migrations \in Seq(FilesIn(Migrations)) /\ Functions \in Seq(FilesIn(Functions))
    /\ Distinct(Migrations \o Functions) /\ FilesIn(Migrations \o Functions) \cap Fixed = {}

VARIABLES
    roles,      \* the roles the account has granted
    running,    \* the workspace is Running
    default,    \* its default branch
    ready,      \* the branches that are Ready
    own,        \* the status of the deployment of this run
    newer,      \* deployments made after it
    todo,       \* the steps left
    branch,     \* the branch the run has resolved
    tick,       \* ticks of the present wait
    log,        \* what was carried out, and on which branch
    outcome

service == <<roles, running, default, ready, own, newer>>
vars == <<service, todo, branch, tick, log, outcome>>

Roles == {"aidap", "pages"}
OnBranch == FilesIn(Migrations) \union FilesIn(Functions) \union {"bind"}
Writes == OnBranch \union {"upload", "project", "workspace", "deploy"}

Plan(asking, migrations, functions) ==
    asking \o <<"aidap", "pages", "upload", "project", "workspace", "ready">>
        \o migrations \o functions \o <<"bind", "deploy", "live", "binding">>

Init ==
    /\ roles \in SUBSET Roles
    /\ running = FALSE /\ default \in Branches /\ ready = {} /\ own = "none" /\ newer = 0
    /\ \E a \in {<<>>, <<"ask">>}, m \in {<<>>, Migrations}, f \in {<<>>, Functions} :
          todo = Plan(a, m, f)
    /\ branch = None /\ tick = 0 /\ log = <<>> /\ outcome = "none"

At(step) == outcome = "none" /\ todo # <<>> /\ Head(todo) = step
Advance == todo' = Tail(todo) /\ UNCHANGED outcome
Stop(how) == outcome' = how /\ UNCHANGED todo
Did(op) == \E i \in DOMAIN log : log[i].op = op

-----------------------------------------------------------------------------

\* FastCreate asks; the MCP tool does not.
Ask ==
    /\ At("ask")
    /\ Advance \/ Stop("cancelled")
    /\ UNCHANGED <<service, branch, tick, log>>

\* CheckAIDAPServiceLinkedRole, CheckPagesAccessRole: a check that cannot tell
\* lets pass.
CheckRole ==
    /\ \E r \in Roles : At(r) /\ (Advance \/ (r \notin roles /\ Stop("refused")))
    /\ UNCHANGED <<service, branch, tick, log>>

\* Mutant of WriteBranch: the default branch is looked up again.
WriteBranchNow == default

\* The branch a step works on: that of the wait, for every step after it.
WriteBranch == branch

\* The answer is lost, or has no ID: the step is not repeated.
Lost == Stop("error")

WriteStep ==
    /\ outcome = "none" /\ todo # <<>> /\ Head(todo) \in Writes
    /\ \/ /\ log' = Append(log, [op |-> Head(todo),
                                 branch |-> IF Head(todo) \in OnBranch THEN WriteBranch ELSE None])
          /\ own' = IF Head(todo) = "deploy" THEN "pending" ELSE own
          /\ Advance \/ Lost
       \/ Stop("error") /\ UNCHANGED <<log, own>>
    /\ UNCHANGED <<roles, running, default, ready, newer, branch, tick>>

\* One turn of a loop that waits.
Tick ==
    IF tick < Ticks THEN tick' = tick + 1 /\ UNCHANGED <<todo, outcome>>
    ELSE Stop("error") /\ UNCHANGED tick

\* waitForFastCreateWorkspaceReady
WaitReady ==
    /\ At("ready")
    /\ \/ /\ running /\ default \in ready
          /\ branch' = default /\ tick' = 0 /\ Advance
       \/ /\ ~(running /\ default \in ready)
          /\ Tick /\ UNCHANGED branch
       \/ Stop("error") /\ UNCHANGED <<branch, tick>>
    /\ UNCHANGED <<service, log>>

\* waitForPagesDeploySuccess: the deployment of this run, if it is listed.
Live == own = "success" /\ newer < Window

WaitLive ==
    /\ At("live")
    /\ \/ Live /\ tick' = 0 /\ Advance
       \/ ~Live /\ Tick
       \/ Stop("error") /\ UNCHANGED tick
    /\ UNCHANGED <<service, branch, log>>

\* DescribePagesBinding and its preview domain.
Binding ==
    /\ At("binding")
    /\ (Did("bind") /\ Advance) \/ Stop("error")
    /\ UNCHANGED <<service, branch, tick, log>>

Return ==
    /\ outcome = "none" /\ todo = <<>>
    /\ Stop("ok")
    /\ UNCHANGED <<service, branch, tick, log>>

Run == Ask \/ CheckRole \/ WriteStep \/ WaitReady \/ WaitLive \/ Binding \/ Return

\* The service, and what others do.
Service ==
    /\ outcome = "none"
    /\ \/ /\ Did("workspace") /\ ~running
          /\ running' = TRUE /\ UNCHANGED <<default, ready, own, newer>>
       \/ \E b \in Branches \ ready :
             running /\ ready' = ready \union {b} /\ UNCHANGED <<running, default, own, newer>>
       \/ \E b \in Branches \ {default} :
             running /\ default' = b /\ UNCHANGED <<running, ready, own, newer>>
       \/ /\ own = "pending"
          /\ own' \in {"success", "failed"} /\ UNCHANGED <<running, default, ready, newer>>
       \/ /\ own # "none" /\ newer < Window
          /\ newer' = newer + 1 /\ UNCHANGED <<running, default, ready, own>>
    /\ UNCHANGED <<roles, todo, branch, tick, log, outcome>>

Next == Run \/ Service

\* The program takes its next step; nothing is assumed of the service.
Fairness == WF_vars(Run)
Spec == Init /\ [][Next]_vars /\ Fairness

-----------------------------------------------------------------------------
(* Properties *)

TypeOK ==
    /\ roles \subseteq Roles /\ running \in BOOLEAN /\ default \in Branches
    /\ ready \subseteq Branches /\ own \in {"none", "pending", "success", "failed"}
    /\ newer \in 0..Window /\ branch \in Branches \union {None} /\ tick \in 0..Ticks
    /\ \A i \in DOMAIN log : log[i] \in [op : Writes, branch : Branches \union {None}]
    /\ outcome \in {"none", "ok", "error", "cancelled", "refused"}

\* The migrations, the functions and the binding of one run are on one branch,
\* one that was Ready, though another becomes the default meanwhile; nothing is
\* done twice, though answers are lost; and a run without a yes, or refused for
\* want of a role, has created nothing.
OneBranchOnce ==
    /\ \A i, j \in DOMAIN log :
          /\ log[i].op \in OnBranch => log[i].branch = branch /\ branch \in ready
          /\ log[i].op = log[j].op => i = j
    /\ outcome \in {"cancelled", "refused"} => log = <<>>

\* A run that succeeds has carried out all steps that were planned, in their
\* order, and the deployment that succeeded is its own.
SuccessMeansLive ==
    outcome = "ok" =>
        /\ own = "success"
        /\ \E m \in {<<>>, Migrations}, f \in {<<>>, Functions} :
              [i \in DOMAIN log |-> log[i].op] =
                  <<"upload", "project", "workspace">> \o m \o f \o <<"bind", "deploy">>

\* The run ends, though the workspace never comes up, the deployment fails (a
\* failed one is awaited like a pending one) or drops off the list.
Ends == <>(outcome # "none")
=============================================================================
