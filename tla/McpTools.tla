------------------------------- MODULE McpTools -------------------------------
(***************************************************************************)
(* The tools of the MCP server (internal/mcp/*_tools.go), as the steps of  *)
(* their handlers; the steps are those of Commands, and                    *)
(*   "scope"     the workspace the server is scoped to, or else the one    *)
(*               the caller names (policy.resolveWorkspace)                *)
(*   "unscoped"  refused by a server that is scoped to a workspace.        *)
(* A tool without either works on the whole account.  The tables at the    *)
(* end give a tool its feature group and say whether it is hidden from a   *)
(* read-only server.                                                       *)
(***************************************************************************)
EXTENDS Commands

Account(steps) == [Handler("none", steps) EXCEPT !.server = "mcp"]
Tool(branch, steps) == [Handler(branch, <<"scope">> \o steps) EXCEPT !.server = "mcp"]
Write(op) == Tool("none", <<op>>)
DataPlane(op) == Tool("default", On(op))

-----------------------------------------------------------------------------
(* account_tools.go, branching_tools.go, compute_tools.go *)

listWorkspaces == Account(<<"read">>)
getWorkspace == Tool("none", <<"read">>)
createWorkspace == Account(<<"role", "CreateWorkspace">>)
stopWorkspace == Write("StopWorkspace")
suspendWorkspace == Write("SuspendWorkspace")
wakeWorkspace == Tool("none", Wake)
startWorkspace == Write("StartWorkspace")
setWorkspaceDeletionProtection == Write("ModifyWorkspaceDeletionProtectionPolicy")
deleteWorkspace == Write("DeleteWorkspace")

listBranches == Tool("none", <<"read">>)
getBranch == Tool("given", <<"read">>)
getDefaultBranch == Tool("none", <<"resolve">>)
createBranch == Write("CreateBranch")
deleteBranch == Tool("given", <<"DeleteBranch">>)
restoreBranch == Tool("given", <<"BranchRestore">>)

getComputeSettings == Tool("default", <<"resolve", "read">>)
restartBranch == Tool("given", <<"RestartBranch">>)

\* Renames, then sets the suspend timeout (with the present size, unless a
\* size is given) or else the size.
modifyComputeSettings ==
    LET rename == {<<>>, <<"ModifyComputeName">>}
        set == {<<>>, <<"read", "ModifyComputeSettings">>, <<"ModifyComputeSettings">>,
                <<"ModifyComputeSpec">>}
    IN  {Tool("none", r \o s) : r \in rename, s \in set} \ {Tool("none", <<>>)}

-----------------------------------------------------------------------------
(* database_tools.go, development_tools.go, functions_tools.go,            *)
(* storage_tools.go, auth_tools.go, sandbox_tools.go                       *)

executeSQL == DataPlane("ExecuteSQL")
listTables == DataPlane("read")
listExtensions == DataPlane("read")
\* Each of the two queries resolves the branch.
listMigrations == Tool("default", On("read") \o On("read"))
applyMigration == DataPlane("ApplyMigration")
getDatabaseConnectionString == Tool("default", <<"resolve", "read">>)
getDatabaseAPIConfig == DataPlane("read")
getDatabaseAdvisors == DataPlane("read")

generateTypescriptTypes == DataPlane("read")
getWorkspaceURL == Tool("default", <<"resolve", "read">>)
getPublishableKeys == Tool("default", <<"resolve", "read">>)
listWorkspaceOperations == Tool("none", <<"read">>)

listEdgeFunctions == DataPlane("read")
getEdgeFunction == Tool("default", On("read") \o <<"read">>)
deployEdgeFunction == DataPlane("DeployFunction")
deleteEdgeFunction == Tool("default", DeleteFunction)

listStorageBuckets == DataPlane("read")
createStorageBucket == Tool("default", On("CreateBucket") \o <<"read">>)
deleteStorageBucket == DataPlane("DeleteBucket")
getStorageConfig == DataPlane("read")

getAuthConfig == Tool("default", ReadDataPlane)
updateAuthConfig == Tool("default", SetAuthConfig)
getAuthHooksConfig == Tool("default", ReadDataPlane)
updateAuthHooksConfig == Tool("default", SetHooksConfig)
listThirdPartyAuth == Tool("default", ReadDataPlane)
createThirdPartyAuth == Tool("default", AddProvider)
deleteThirdPartyAuth == Tool("default", RemoveProvider)
syncThirdPartyAuth == Tool("default", SyncProviders)

listSandboxes == Tool("none", <<"read">>)
listSandboxTemplates == Tool("none", <<"read">>)
listSandboxUserSummaries == Tool("none", <<"read">>)
getSandboxGlobalQuota == Tool("none", <<"read">>)
setSandboxGlobalQuota == Write("ModifyBaasSandboxGlobalQuota")

-----------------------------------------------------------------------------
(* ai_gateway_tools.go: the quotas are set with the client for reading *)

ManagementClient(steps) == Tool("default", <<"resolve">> \o steps)

aiGatewayStatus == DataPlane("read")
aiGatewayModels == DataPlane("read")
aiGatewayChat == DataPlane("Chat")
aiGatewayGetQuota == ManagementClient(<<"read">>)
aiGatewaySetQuota == [ManagementClient(<<"ModifyAIGlobalQuota">>) EXCEPT !.retries = TRUE]
aiGatewayListUsers == ManagementClient(<<"read">>)
aiGatewayGetUser == ManagementClient(<<"read">>)
aiGatewaySetUserQuota == [ManagementClient(<<"ModifyAIUserQuota">>) EXCEPT !.retries = TRUE]
aiGatewayUsage == ManagementClient(<<"read">>)

-----------------------------------------------------------------------------
(* pages_tools.go                                                         *)

listPagesProjects == {Account(<<"read">>), Tool("none", <<"read">>)}
listPagesDeployments == Account(<<"read">>)
getPagesEnvVars == Tool("default", <<"resolve", "read">>)
getPagesBinding == Tool("default", <<"resolve", "read">>)
uploadPagesResource == Account(<<"role", "UploadPagesResource">>)
createPagesProject == Account(<<"role", "CreatePagesProject">>)
deployPagesProject == Account(<<"role", "CreatePagesDeploy">>)
bindPagesProject == Tool("default", <<"role", "resolve", "BindPagesProject">>)
unbindPagesProject == Tool("default", <<"resolve", "UnbindPagesProject">>)
syncPagesEnvVars == Tool("default", <<"role", "resolve", "read", "SyncPagesDeployEnvVars">>)
\* The rest of RunFastCreate is in FastCreate.
fastCreatePages == Account(<<"unscoped", "role", "UploadPagesResource">>)

-----------------------------------------------------------------------------
(* The tables of tools *)

Reads(feature, tools) == {[t EXCEPT !.feature = feature, !.mutating = FALSE] : t \in tools}
Writes(feature, tools) == {[t EXCEPT !.feature = feature, !.mutating = TRUE] : t \in tools}

healthCheck == Reads("none", {Account(<<>>)})

accountTools ==
    Reads("account", {listWorkspaces, getWorkspace}) \union
    Writes("account",
           {createWorkspace, stopWorkspace, suspendWorkspace, wakeWorkspace, startWorkspace,
            setWorkspaceDeletionProtection, deleteWorkspace})

branchingTools ==
    Reads("branching", {listBranches, getBranch, getDefaultBranch}) \union
    Writes("branching", {createBranch, deleteBranch, restoreBranch})

computeTools ==
    Reads("compute", {getComputeSettings}) \union
    Writes("compute", modifyComputeSettings \union {restartBranch})

databaseTools ==
    Reads("database",
          {listTables, listExtensions, listMigrations, getDatabaseConnectionString,
           getDatabaseAPIConfig, getDatabaseAdvisors}) \union
    Writes("database", {executeSQL, applyMigration})

developmentTools ==
    Reads("development",
          {generateTypescriptTypes, getWorkspaceURL, getPublishableKeys, listWorkspaceOperations})

functionsTools ==
    Reads("functions", {listEdgeFunctions, getEdgeFunction}) \union
    Writes("functions", {deployEdgeFunction, deleteEdgeFunction})

storageTools ==
    Reads("storage", {listStorageBuckets, getStorageConfig}) \union
    Writes("storage", {createStorageBucket, deleteStorageBucket})

authTools ==
    Reads("auth", {getAuthConfig, getAuthHooksConfig, listThirdPartyAuth}) \union
    Writes("auth",
           {updateAuthConfig, updateAuthHooksConfig, createThirdPartyAuth, deleteThirdPartyAuth,
            syncThirdPartyAuth})

sandboxTools ==
    Reads("sandbox",
          {listSandboxes, listSandboxTemplates, listSandboxUserSummaries, getSandboxGlobalQuota})
        \union Writes("sandbox", {setSandboxGlobalQuota})

aiGatewayTools ==
    Reads("ai-gateway",
          {aiGatewayStatus, aiGatewayModels, aiGatewayGetQuota, aiGatewayListUsers,
           aiGatewayGetUser, aiGatewayUsage}) \union
    Writes("ai-gateway", {aiGatewayChat, aiGatewaySetQuota, aiGatewaySetUserQuota})

pagesTools ==
    Reads("pages",
          listPagesProjects \union {listPagesDeployments, getPagesEnvVars, getPagesBinding})
        \union
    Writes("pages",
           {uploadPagesResource, createPagesProject, deployPagesProject, bindPagesProject,
            unbindPagesProject, syncPagesEnvVars, fastCreatePages})

allSpecs ==
    healthCheck \union accountTools \union branchingTools \union computeTools \union databaseTools
        \union developmentTools \union functionsTools \union storageTools \union authTools
        \union sandboxTools \union aiGatewayTools \union pagesTools
=============================================================================
