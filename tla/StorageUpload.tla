---------------------------- MODULE StorageUpload ----------------------------
(***************************************************************************)
(* internal/storage/cp, UploadStorageObjectAll: `storage cp -r` of a       *)
(* directory.                                                              *)
(*                                                                         *)
(* Every file is a job of a JobQueue.  A job whose upload is answered with *)
(* "Bucket not found" creates the bucket and uploads once more.  The walk  *)
(* ends at the first error a Put returns; Collect is called in any case.   *)
(* The server is external: it refuses to create a bucket that exists.      *)
(***************************************************************************)
EXTENDS FiniteSets, Integers, Sequences

CONSTANTS Files, MaxJobs,
          Nil,       \* the nil error
          Outages    \* whether a request may fail although it is right

Assumptions ==
    IsFiniteSet(Files) /\ Nil \notin Files /\ MaxJobs \in Nat /\ Outages \in BOOLEAN

VARIABLES errCh, wg, worker, failed, pc, cur, i, collected, delivered,
          attempt,  \* what the job of each file does next
          bucket,   \* server: the bucket exists
          stored,   \* server: the files that were uploaded
          walkErr,  \* the error the walk ended with
          result    \* what UploadStorageObjectAll returned

queueVars == <<errCh, wg, worker, failed, pc, cur, i, collected, delivered>>
ownVars == <<attempt, bucket, stored, walkErr, result>>
vars == <<queueVars, ownVars>>

Queue == INSTANCE JobQueue WITH Jobs <- Files, Workers <- MaxJobs

TypeOK ==
    /\ Queue!TypeOK
    /\ attempt \in [Files -> {"upload", "create", "retry"}]
    /\ bucket \in BOOLEAN
    /\ stored \subseteq Files
    /\ walkErr \in Files \union {Nil}
    /\ result \in {"none", "ok", "error"}

Init ==
    /\ Queue!QueueInit
    /\ attempt = [f \in Files |-> "upload"]
    /\ bucket \in BOOLEAN
    /\ stored = {}
    /\ walkErr = Nil
    /\ result = "none"

-----------------------------------------------------------------------------
(* The walk *)

CallPut(f) ==
    /\ result = "none"
    /\ walkErr = Nil
    /\ Queue!CallPut(f)
    /\ UNCHANGED ownVars

\* return jq.Put(job): an error of an earlier job ends the walk.
PutDone ==
    /\ Queue!Put
    /\ walkErr' = Head(errCh)
    /\ UNCHANGED <<attempt, bucket, stored, result>>

CallCollect ==
    /\ result = "none"
    /\ walkErr # Nil \/ \A f \in Files : worker[f] # "new"
    /\ Queue!CallCollect
    /\ UNCHANGED ownVars

InCollect == (Queue!Wait \/ Queue!CollectReceive \/ Queue!CollectRefill) /\ UNCHANGED ownVars

\* return errors.Join(err, jq.Collect())
UploadReturns ==
    /\ Queue!CollectReturn
    /\ result' = IF walkErr = Nil /\ \A n \in DOMAIN collected : collected[n] = Nil
                 THEN "ok" ELSE "error"
    /\ UNCHANGED <<attempt, bucket, stored, walkErr>>

-----------------------------------------------------------------------------
(* The job of a file *)

JobEnds(f, ok) ==
    /\ Queue!RunJob(f)
    /\ ok <=> f \notin failed'

Goes(f, step) == attempt' = [attempt EXCEPT ![f] = step] /\ UNCHANGED queueVars

\* A request that fails for a reason of its own, and may have got through.
Outage(f) ==
    /\ Outages
    /\ worker[f] = "running"
    /\ JobEnds(f, FALSE)
    /\ \/ UNCHANGED <<bucket, stored>>
       \/ attempt[f] = "create" /\ bucket' = TRUE /\ UNCHANGED stored
       \/ attempt[f] # "create" /\ bucket /\ stored' = stored \union {f} /\ UNCHANGED bucket
    /\ UNCHANGED <<attempt, walkErr, result>>

\* api.UploadObject, the first or the second time; the files overwrite.
UploadObject(f) ==
    /\ worker[f] = "running"
    /\ attempt[f] \in {"upload", "retry"}
    /\ \/ /\ bucket
          /\ stored' = stored \union {f}
          /\ JobEnds(f, TRUE)
          /\ UNCHANGED attempt
       \/ /\ ~bucket
          /\ attempt[f] = "upload"
          /\ Goes(f, "create")
          /\ UNCHANGED stored
    /\ UNCHANGED <<bucket, walkErr, result>>

\* api.CreateBucket: an error of it is the error of the job.
CreateBucket(f) ==
    /\ worker[f] = "running"
    /\ attempt[f] = "create"
    /\ \/ bucket /\ JobEnds(f, FALSE) /\ UNCHANGED <<attempt, bucket>>
       \/ ~bucket /\ bucket' = TRUE /\ Goes(f, "retry")
    /\ UNCHANGED <<stored, walkErr, result>>

ReportJob(f) == (Queue!SendResult(f) \/ Queue!Done(f)) /\ UNCHANGED ownVars

Goroutine(f) == UploadObject(f) \/ CreateBucket(f) \/ Outage(f) \/ ReportJob(f)

Ended == result # "none" /\ UNCHANGED vars

Caller == CallCollect \/ PutDone \/ InCollect \/ UploadReturns \/ \E f \in Files : CallPut(f)

Next == Caller \/ (\E f \in Files : Goroutine(f)) \/ Ended

Spec == Init /\ [][Next]_vars

-----------------------------------------------------------------------------
(* Properties *)

\* A copy that reports success has stored every file, whichever jobs found
\* the bucket missing.
SuccessMeansStored == result = "ok" => stored = Files

\* When the copy returns, no job is still uploading: nothing is written to
\* the bucket after the command has reported.
NothingAfterReturnStep == result # "none" => stored' = stored /\ bucket' = bucket
NothingAfterReturn == [][NothingAfterReturnStep]_vars

\* A directory is uploaded to a new bucket: with a server that carries out
\* every request it can, no job fails and every file is stored (cp_test.go:185).
NewBucketUpload == failed = {} /\ (result = "ok" => stored = Files)
=============================================================================
