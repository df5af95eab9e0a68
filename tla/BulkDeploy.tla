----------------------------- MODULE BulkDeploy -----------------------------
(***************************************************************************)
(* pkg/function/deploy.go, bulkUpload: deploying several Edge Functions.   *)
(*                                                                         *)
(* Every function is uploaded by a job of a JobQueue as a bundle that is   *)
(* not served yet (BundleOnly), and its job fills its own entry of the     *)
(* slice toUpdate.  When Collect has returned no error, one bulk update    *)
(* with that slice makes all bundles live.  The function returns with the  *)
(* first error it sees, also while other jobs still run.                   *)
(***************************************************************************)
EXTENDS FiniteSets, Integers, Sequences

CONSTANTS Functions,  \* the functions to deploy; one alone takes another path
          MaxJobs,    \* maxJobs, at least one (api.go:35-37)
          Nil         \* the nil error

Assumptions == IsFiniteSet(Functions) /\ Nil \notin Functions /\ MaxJobs \in Nat \ {0}

VARIABLES errCh, wg, worker, failed, pc, cur, i, collected, delivered,
          toUpdate,  \* the functions whose entry of the slice is filled
          bundled,   \* server: the functions with a new bundle
          live,      \* server: the functions whose new bundle is served
          stage      \* where bulkUpload is

queueVars == <<errCh, wg, worker, failed, pc, cur, i, collected, delivered>>
ownVars == <<toUpdate, bundled, live, stage>>
vars == <<queueVars, ownVars>>

Queue == INSTANCE JobQueue WITH Jobs <- Functions, Workers <- MaxJobs

TypeOK ==
    /\ Queue!TypeOK
    /\ toUpdate \subseteq Functions
    /\ bundled \subseteq Functions
    /\ live \subseteq Functions
    /\ stage \in {"upload", "update", "ok", "error"}

Init ==
    /\ Queue!QueueInit
    /\ toUpdate = {}
    /\ bundled = {}
    /\ live = {}
    /\ stage = "upload"

-----------------------------------------------------------------------------

\* The loop hands the next function to the queue.
CallPut(f) ==
    /\ stage = "upload"
    /\ Queue!CallPut(f)
    /\ UNCHANGED ownVars

\* if err := jq.Put(bundle); err != nil { return err }
\* The job has started, also when the error of an earlier one is returned.
PutDone ==
    /\ Queue!Put
    /\ stage' = IF Head(errCh) = Nil THEN stage ELSE "error"
    /\ UNCHANGED <<toUpdate, bundled, live>>

\* After the last function: jq.Collect()
CallCollect ==
    /\ stage = "upload"
    /\ \A f \in Functions : worker[f] # "new"
    /\ Queue!CallCollect
    /\ UNCHANGED ownVars

\* Mutant of InCollect: the error Collect returns is not looked at.
InCollectNoError ==
    \/ (Queue!Wait \/ Queue!CollectReceive \/ Queue!CollectRefill) /\ UNCHANGED ownVars
    \/ Queue!CollectReturn /\ stage' = "update" /\ UNCHANGED <<toUpdate, bundled, live>>

\* if err := jq.Collect(); err != nil { return err }
InCollect ==
    \/ (Queue!Wait \/ Queue!CollectReceive \/ Queue!CollectRefill) /\ UNCHANGED ownVars
    \/ /\ Queue!CollectReturn
       /\ stage' = IF \A n \in DOMAIN collected : collected[n] = Nil THEN "update" ELSE "error"
       /\ UNCHANGED <<toUpdate, bundled, live>>

\* The job bundle(): an upload that fails may have reached the server.
RunBundle(f) ==
    /\ Queue!RunJob(f)
    /\ IF f \in failed'
       THEN bundled' \in {bundled, bundled \union {f}} /\ UNCHANGED toUpdate
       ELSE bundled' = bundled \union {f} /\ toUpdate' = toUpdate \union {f}
    /\ UNCHANGED <<live, stage>>

ReportBundle(f) == (Queue!SendResult(f) \/ Queue!Done(f)) /\ UNCHANGED ownVars

Goroutine(f) == RunBundle(f) \/ ReportBundle(f)

\* V1BulkUpdateFunctions: a failed call may have been carried out.
BulkUpdate ==
    /\ stage = "update"
    /\ pc = "idle"
    /\ \/ stage' = "ok" /\ live' = live \union toUpdate
       \/ stage' = "error" /\ live' \in {live, live \union toUpdate}
    /\ UNCHANGED <<queueVars, toUpdate, bundled>>

Caller == PutDone \/ CallCollect \/ InCollect \/ BulkUpdate \/ \E f \in Functions : CallPut(f)

Next == Caller \/ \E f \in Functions : Goroutine(f)

\* The main goroutine goes on when it can, a goroutine of the queue as well,
\* and every request is answered or fails (HTTP client and context).
Fairness == WF_vars(Caller) /\ \A f \in Functions : WF_vars(Goroutine(f))

Spec == Init /\ [][Next]_vars /\ Fairness

-----------------------------------------------------------------------------
(* Properties *)

\* The bulk update is sent when no goroutine can still write to the slice,
\* and names no function whose bundle is not on the server.
UpdateSeesWholeSlice ==
    stage = "update" =>
       /\ toUpdate = Functions
       /\ \A f \in Functions : worker[f] = "done"
       /\ toUpdate \subseteq bundled

\* A failed upload leaves every served function as it was: a deployment of
\* several functions goes live as a whole or, when an upload fails, not at all.
FailedUploadChangesNothing == failed # {} => live = {} /\ stage # "ok"

\* A deployment of several functions is one step for whoever calls them: all of
\* them are served, or none (deploy.go:93-105).
BulkIsAtomic == UpdateSeesWholeSlice /\ FailedUploadChangesNothing

\* bulkUpload returns, also when a Put in the middle of the loop reports an
\* error.
Returns == <>(stage \in {"ok", "error"})
=============================================================================
