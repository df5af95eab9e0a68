------------------------------- MODULE Commands -------------------------------
(***************************************************************************)
(* The commands that manage workspaces, branches, computes, endpoints and  *)
(* restrictions (internal/{branches,computes,endpoints,projects,           *)
(* restrictions}, cmd/*.go).  A command is the sequence of its steps, in   *)
(* the order of the code; Management runs it.  A step is                   *)
(*   "target"   the workspace named, or else the linked one                *)
(*   "find"     ask the regions in turn for the workspace                  *)
(*   "resolve"  the branch given, or else the workspace's default branch   *)
(*   "read"     a request that changes nothing                             *)
(*   "role"     the check of a role of the account, which lets pass what   *)
(*              it cannot tell                                             *)
(*   "ask"      the prompt, which shows the workspace and the branch       *)
(*   "asleep"   go on only if the workspace is not running                 *)
(*   "echo"     the answer to the write must name what was written         *)
(*   "unlink"   unlink the directory if it is linked to the workspace      *)
(*   "env"      "-o env" is refused                                        *)
(* and every other step is a write, named after the API action.            *)
(***************************************************************************)
EXTENDS Sequences

\* branch: what the write is about: "none" the workspace, "given" a branch
\* that must be given, "default" a branch that may be left out.
\* retries: the client it writes with has the retries of the SDK.
Handler(branch, steps) ==
    [server |-> "cli", feature |-> "none", mutating |-> TRUE,
     branch |-> branch, retries |-> FALSE, steps |-> steps]

Command(branch, steps) == Handler(branch, <<"target">> \o steps)
Found(branch, steps) == Command(branch, <<"find">> \o steps)

\* ResolvePgMetaAccess: the branch, then its endpoints and its service key.
Access == <<"resolve", "read">>

-----------------------------------------------------------------------------
(* internal/projects, cmd/projects_factory.go *)

Asking(op) == Found("none", <<"ask", op>>)

CreateWorkspace ==
    {Handler("none", <<"role">> \o r \o <<"CreateWorkspace">>) : r \in {<<>>, <<"read">>}}

DeleteWorkspace == Found("none", <<"ask", "DeleteWorkspace", "unlink">>)
StartWorkspace == Asking("StartWorkspace")
StopWorkspace == Asking("StopWorkspace")
SuspendWorkspace == Asking("SuspendWorkspace")

\* WakeWorkspace: one GET of the REST endpoint of the default branch.
Wake == <<"read", "asleep", "resolve", "read", "WakeRequest">>
WakeWorkspaceCommand == Found("none", <<"ask">> \o Wake)

RenameWorkspace == Found("none", <<"ModifyWorkspaceName">>)
ModifyDeletionProtection == Found("none", <<"ModifyWorkspaceDeletionProtectionPolicy">>)
CreateTags == Found("none", <<"AddTagsToWorkspaces">>)
DeleteTags == Found("none", <<"RemoveTagsFromWorkspaces">>)
ModifyComputeSettingsCommand == Asking("ModifyComputeSettings")
ModifyWorkspaceSettings == Asking("ModifyWorkspaceSettings")
SettingsNetwork == Found("default", <<"ModifyVpcSettings">>)
SettingsPrivateDNS == Found("none", <<"ApplyPrivateDNSToPublic">>)

-----------------------------------------------------------------------------
(* internal/branches *)

BranchesCreate == Found("none", <<"CreateBranch", "env">>)
BranchesDelete == Found("given", <<"ask", "DeleteBranch", "env">>)
BranchesUpdate == Found("given", <<"UpdateBranch", "echo", "env">>)
BranchesGet == Found("given", <<"read", "env">>)
BranchesList == Found("none", <<"read", "env">>)
RunGetDefault == Found("none", <<"resolve", "env">>)
RunSetDefault == Found("given", <<"ask", "SetAsDefaultBranch", "echo", "env">>)
RunRestart == Found("given", <<"ask", "RestartBranch", "env">>)
RunUpdateStudioLogin == Found("given", <<"ask", "ResetWorkspaceAccountPassword", "env">>)
RunRestoreWindow == Found("given", <<"read", "env">>)
RunRestorable == Found("none", <<"read", "env">>)
RunRestore == Found("given", <<"ask", "BranchRestore", "env">>)

-----------------------------------------------------------------------------
(* internal/computes, internal/endpoints, internal/restrictions *)

\* Update: with --branch-id the compute is looked up in the branch first; it
\* renames the compute, or resizes it, or both in this order.
UpdateCompute ==
    {Found("none", member \o <<"read", "ask">> \o writes \o <<"env">>) :
        member \in {<<>>, <<"read">>},
        writes \in {<<"ModifyComputeName">>, <<"ModifyComputeSpec">>,
                    <<"ModifyComputeName", "ModifyComputeSpec">>}}

\* The shared endpoint, or a dedicated one whose address is read first, from
\* a list when --eip-id is left out.
EnablePublic ==
    {Found("default", <<"resolve">> \o eip \o <<"ask", "CreateEndpointPublicAddress", "env">>) :
        eip \in {<<>>, <<"read">>, <<"read", "read">>}}

DisablePublic == Found("default", <<"resolve", "ask", "DeleteEndpointPublicAddress", "env">>)

\* The VPC and the subnet are chosen from a list when they are left out.
EnablePrivate ==
    {Found("default", <<"resolve">> \o lists \o <<"ask", "ModifyVpcSettings", "env">>) :
        lists \in {<<>>, <<"read">>, <<"read", "read">>}}

EndpointsList == Found("default", <<"resolve", "read", "env">>)

RestrictionsGet == Found("none", <<"read", "env">>)
RestrictionsCreate == Asking("CreateAccessControlList")
RestrictionsUpdate == Asking("ModifyAccessControlList")
RestrictionsDelete == Asking("DeleteAccessControlList")

ComputesList == Found("default", <<"resolve", "read", "env">>)
ComputesGet == Found("none", <<"read", "env">>)
APIKeys == Found("default", <<"resolve", "read">>)
ProjectDetail == Found("none", <<"env">>)

-----------------------------------------------------------------------------
(* internal/pages; FastCreate models "fast create"                         *)

PagesEnvVars == Found("default", <<"resolve", "read", "env">>)
PagesBinding == Found("default", <<"resolve", "read", "env">>)
PagesBind == Found("default", <<"role", "resolve", "ask", "BindPagesProject", "env">>)
PagesSync ==
    Found("default", <<"role", "resolve", "read", "ask", "SyncPagesDeployEnvVars", "env">>)
PagesUnbind == Found("default", <<"resolve", "ask", "UnbindPagesProject", "env">>)
PagesCreate == Handler("none", <<"role", "ask", "CreatePagesProject", "env">>)
PagesUpload == Handler("none", <<"role", "UploadPagesResource", "env">>)
PagesDeploy == Handler("none", <<"role", "ask", "CreatePagesDeploy", "env">>)
PagesDeployList == Handler("none", <<"read", "env">>)

-----------------------------------------------------------------------------
(* The data plane: one request with the key and the address of the branch *)

On(op) == Access \o <<op>>

SetAuthConfig == On("PatchAuthConfig")
\* Validated against the configuration that is read first, and read back.
SetHooksConfig == Access \o <<"read", "PatchHooks", "read">>
AddProvider == On("AddProvider")
RemoveProvider == On("RemoveProvider")
SyncProviders == On("SyncProviders")
DeleteFunction == On("DeleteFunction")
ReadDataPlane == On("read")

AuthConfigSet == Command("default", SetAuthConfig)
AuthConfigGet == Command("default", ReadDataPlane)
AuthHooksSet == Command("default", SetHooksConfig)
AuthHooksGet == Command("default", ReadDataPlane)
AuthTPAdd == Command("default", AddProvider)
AuthTPRemove == Command("default", RemoveProvider)
AuthTPSync == Command("default", SyncProviders)
AuthTPList == Command("default", ReadDataPlane)
FunctionsDelete == Command("default", DeleteFunction)
FunctionsList == Command("default", ReadDataPlane)

-----------------------------------------------------------------------------
(* cmd/sandbox_factory.go; Sandboxes models "kill" *)

Sandbox(op) == Command("default", On(op))

\* --template-id is looked up by name first.
SandboxCreate ==
    {Command("default", template \o On("CreateSandbox")) : template \in {<<>>, <<"read">>}}
SandboxConnect == Sandbox("ConnectSandbox")
SandboxTimeout == Sandbox("SetTimeout")
SandboxExec == Sandbox("StartProcess")
SandboxProcessStart == Sandbox("StartProcess")
SandboxCode == Sandbox("ExecuteCode")
SandboxFilesWrite == Sandbox("WriteFile")
SandboxFilesMkdir == Sandbox("MakeDir")
SandboxFilesRename == Sandbox("RenameFile")
SandboxFilesRemove == Command("default", Access \o <<"ask", "RemoveFile">>)
SandboxFilesList == Sandbox("read")
SandboxFilesRead == Sandbox("read")
SandboxFilesExists == Sandbox("read")
SandboxList == Sandbox("read")
SandboxHealth == Sandbox("read")
SandboxDataPlaneAction == Sandbox("read")
SandboxPort == Command("default", Access)
SandboxGlobalQuotaSet == Command("none", <<"ModifyBaasSandboxGlobalQuota">>)
SandboxGlobalQuota == Command("none", <<"read">>)
SandboxUserSummaries == Command("none", <<"read">>)

-----------------------------------------------------------------------------
(* cmd/ai_gateway.go: the client is the one of the login, NewClient *)

QuotaSet(op) == [Command("default", <<"resolve", op>>) EXCEPT !.retries = TRUE]
QuotaSetDefault == QuotaSet("ModifyAIGlobalQuota")
QuotaUsersSet == QuotaSet("ModifyAIUserQuota")
QuotaGet == Command("default", <<"resolve", "read">>)
QuotaUsersList == Command("default", <<"resolve", "read">>)
QuotaUsersGet == Command("default", <<"resolve", "read">>)
Usage == Command("default", <<"resolve", "read">>)

ProjectCommands ==
    CreateWorkspace \union
    {DeleteWorkspace, StartWorkspace, StopWorkspace, SuspendWorkspace, WakeWorkspaceCommand,
     RenameWorkspace, ModifyDeletionProtection, CreateTags, DeleteTags,
     ModifyComputeSettingsCommand, ModifyWorkspaceSettings, SettingsNetwork, SettingsPrivateDNS,
     APIKeys, ProjectDetail}

BranchCommands ==
    UpdateCompute \union EnablePublic \union EnablePrivate \union
    {BranchesCreate, BranchesDelete, BranchesUpdate, BranchesGet, BranchesList, RunGetDefault,
     RunSetDefault, RunRestart, RunUpdateStudioLogin, RunRestoreWindow, RunRestorable, RunRestore,
     ComputesList, ComputesGet, DisablePublic, EndpointsList,
     RestrictionsGet, RestrictionsCreate, RestrictionsUpdate, RestrictionsDelete}

DataPlaneCommands ==
    SandboxCreate \union
    {AuthConfigSet, AuthConfigGet, AuthHooksSet, AuthHooksGet, AuthTPAdd, AuthTPRemove, AuthTPSync,
     AuthTPList, FunctionsDelete, FunctionsList, SandboxConnect, SandboxTimeout, SandboxExec,
     SandboxProcessStart, SandboxCode, SandboxFilesWrite, SandboxFilesMkdir, SandboxFilesRename,
     SandboxFilesRemove, SandboxFilesList, SandboxFilesRead, SandboxFilesExists, SandboxList,
     SandboxHealth, SandboxDataPlaneAction, SandboxPort, SandboxGlobalQuotaSet,
     SandboxGlobalQuota, SandboxUserSummaries, QuotaSetDefault, QuotaUsersSet, QuotaGet,
     QuotaUsersList, QuotaUsersGet, Usage}

PagesCommands ==
    {PagesEnvVars, PagesBinding, PagesBind, PagesSync, PagesUnbind, PagesCreate, PagesUpload,
     PagesDeploy, PagesDeployList}

CliHandlers ==
    ProjectCommands \union BranchCommands \union PagesCommands \union DataPlaneCommands
=============================================================================
