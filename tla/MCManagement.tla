---------------------------- MODULE MCManagement ----------------------------
(* Every command and every tool, on two workspaces of two branches and two *)
(* regions.                                                                *)
EXTENDS Management, TLC

CONSTANTS w1, w2, b1, b2

MCHandlers == CliHandlers \union allSpecs
\* The tools that set a quota.
QuotaHandlers == {h \in allSpecs : h.retries}
MCRegions == <<"beijing", "shanghai">>
MCWorkspaces == {w1, w2}
MCBranches == {b1, b2}
Symmetric == Permutations(MCWorkspaces) \union Permutations(MCBranches)
=============================================================================
