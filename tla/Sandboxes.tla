------------------------------ MODULE Sandboxes ------------------------------
(***************************************************************************)
(* cmd/sandbox_factory.go, "sandbox kill": the sandboxes named, or with    *)
(* --all those of one list that match the filters, are deleted one after   *)
(* another; a failure is counted and the loop goes on.  Sandboxes start,   *)
(* and end by themselves, meanwhile.                                       *)
(***************************************************************************)
EXTENDS FiniteSets, Integers

CONSTANTS
    Ids,        \* the sandboxes that may be
    Matching,   \* those that match --state and --metadata
    Limit,      \* how many the list returns, 100 in the code
    Changes     \* bound: sandboxes that start or end meanwhile

Assumptions == IsFiniteSet(Ids) /\ Matching \subseteq Ids /\ Limit \in Nat

VARIABLES
    alive,      \* the sandboxes of the branch
    all,        \* --all
    step,       \* "ask", "access", "list", "kill" or "end"
    sandboxIDs, \* to be killed
    requested, killed, failed,  \* the summary
    before,     \* those alive when the command had the access to the branch
    changes,
    outcome

vars == <<alive, all, step, sandboxIDs, requested, killed, failed, before, changes, outcome>>

Init ==
    /\ alive \in SUBSET Ids
    /\ all \in BOOLEAN
    /\ sandboxIDs \in IF all THEN {{}} ELSE SUBSET Ids \ {{}}
    /\ requested = {} /\ killed = {} /\ failed = {} /\ before = {} /\ changes = 0
    /\ step = "ask" /\ outcome = "none"

Stop(how) == step' = "end" /\ outcome' = how

\* requireSandboxConfirmation
Confirm ==
    /\ step = "ask"
    /\ (step' = "access" /\ UNCHANGED outcome) \/ Stop("cancelled")
    /\ UNCHANGED <<alive, all, sandboxIDs, requested, killed, failed, before, changes>>

sandboxDataPlaneClient ==
    /\ step = "access"
    /\ \/ step' = (IF all THEN "list" ELSE "kill") /\ UNCHANGED outcome
       \/ Stop("error")
    /\ before' = alive
    /\ requested' = sandboxIDs
    /\ UNCHANGED <<alive, all, sandboxIDs, killed, failed, changes>>

\* One request: at most Limit of those that match.
Listed == {s \in SUBSET (alive \intersect Matching) :
              \/ Cardinality(s) = Limit
              \/ s = alive \intersect Matching /\ Cardinality(s) <= Limit}

ListSandboxes ==
    /\ step = "list"
    /\ \/ sandboxIDs' \in Listed /\ requested' = sandboxIDs' /\ step' = "kill" /\ UNCHANGED outcome
       \/ Stop("error") /\ UNCHANGED <<sandboxIDs, requested>>
    /\ UNCHANGED <<alive, all, killed, failed, before, changes>>

\* A DELETE may be carried out and its answer lost.
Kill(id) ==
    /\ sandboxIDs' = sandboxIDs \ {id}
    /\ \/ id \in alive /\ alive' = alive \ {id} /\ killed' = killed \union {id} /\ UNCHANGED failed
       \/ /\ alive' \in {alive, alive \ {id}}
          /\ failed' = failed \union {id} /\ UNCHANGED killed

KillNext ==
    /\ step = "kill"
    /\ \E id \in sandboxIDs : Kill(id)
    /\ UNCHANGED <<all, step, requested, before, changes, outcome>>

Summary ==
    /\ step = "kill" /\ sandboxIDs = {}
    /\ Stop(IF failed = {} THEN "ok" ELSE "error")
    /\ UNCHANGED <<alive, all, sandboxIDs, requested, killed, failed, before, changes>>

\* Sandboxes start, with new IDs, and end.
Change ==
    /\ step # "end" /\ changes < Changes
    /\ changes' = changes + 1
    /\ \E id \in Ids \ (before \union requested \union killed) :
          alive' = IF id \in alive THEN alive \ {id} ELSE alive \union {id}
    /\ UNCHANGED <<all, step, sandboxIDs, requested, killed, failed, before, outcome>>

Next ==
    Confirm \/ sandboxDataPlaneClient \/ ListSandboxes \/ KillNext \/ Summary \/ Change

Spec == Init /\ [][Next]_vars

-----------------------------------------------------------------------------
(* Properties *)

TypeOK ==
    /\ alive \subseteq Ids /\ sandboxIDs \subseteq Ids
    /\ requested \subseteq Ids /\ killed \subseteq requested /\ failed \subseteq requested
    /\ outcome \in {"none", "ok", "error", "cancelled"}

\* The summary is true: what it counts as killed is gone, what it requested and
\* does not count is counted as failed, a success left none of the requested
\* alive, and without a yes nothing was killed.
SummaryIsTrue ==
    /\ killed \intersect alive = {}
    /\ requested \ sandboxIDs \subseteq killed \union failed
    /\ outcome = "ok" => requested \intersect alive = {}
    /\ outcome = "cancelled" => killed \union failed = {}

\* "--all: Stop all Sandboxes matching the filters in the workspace and branch."
\* Those that were there when it began; it claims success.
AllMeansAll == outcome = "ok" /\ all => before \intersect Matching \intersect alive = {}
=============================================================================
