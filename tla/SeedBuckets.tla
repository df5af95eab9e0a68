----------------------------- MODULE SeedBuckets -----------------------------
(***************************************************************************)
(* seed buckets: internal/seed/buckets and pkg/storage/batch.go.           *)
(*                                                                         *)
(* The buckets config.toml declares are created, or updated where the user *)
(* agrees, one after the other; then the files below the directory of each *)
(* are uploaded by the jobs of one JobQueue.  The walk returns from the    *)
(* middle with the first error a Put hands it and nobody calls Collect     *)
(* then: jobs go on until the process has ended.  In a directory that is   *)
(* linked to a branch the command never loads config.toml, and finds no    *)
(* bucket declared.  The storage service is external.                      *)
(***************************************************************************)
EXTENDS FiniteSets, Integers, Sequences

CONSTANTS Buckets,        \* declared in config.toml
          Files, HomeOf,  \* the files to upload, and the bucket of each
          MaxJobs, Nil,
          Others          \* bound: how often others change the buckets

Assumptions ==
    /\ IsFiniteSet(Files) /\ Nil \notin Files /\ MaxJobs \in Nat
    /\ HomeOf \in [Files -> Buckets] /\ Others \in Nat

VARIABLES errCh, wg, worker, failed, pc, cur, i, collected, delivered,
          mode,      \* the command tree: of a workspace, or of a linked branch
          declared,  \* utils.Config.Storage.Buckets
          buckets,   \* server: the buckets that exist
          objects,   \* server: the files that are stored
          others,    \* how often others may still change the buckets
          removed,   \* the buckets others have removed since the start
          exists,    \* what ListBuckets returned
          left,      \* the declared buckets UpsertBuckets has not visited
          stage      \* where the command is

queueVars == <<errCh, wg, worker, failed, pc, cur, i, collected, delivered>>
serverVars == <<buckets, objects, others, removed>>
ownVars == <<mode, declared, exists, left, stage>>
vars == <<queueVars, serverVars, ownVars>>

Queue == INSTANCE JobQueue WITH Jobs <- Files, Workers <- MaxJobs

Answers == {"ok", "error"}

TypeOK ==
    /\ Queue!TypeOK
    /\ mode \in {"workspace", "solo"} /\ declared \in {{}, Buckets}
    /\ buckets \subseteq Buckets /\ objects \subseteq Files /\ removed \subseteq Buckets
    /\ others \in 0..Others
    /\ exists \subseteq Buckets /\ left \subseteq Buckets
    /\ stage \in {"begin", "list", "buckets", "objects"} \union Answers

Init ==
    /\ Queue!QueueInit
    /\ mode \in {"workspace", "solo"} /\ declared = {}
    /\ buckets \in SUBSET Buckets /\ objects = {} /\ others = Others /\ removed = {}
    /\ exists = {} /\ left = {} /\ stage = "begin"

Return(answer) == stage' = answer

-----------------------------------------------------------------------------
(* The buckets *)

\* A linked branch asks before it writes; a workspace loads config.toml, and has
\* nothing to do when no bucket is declared there.
Begin ==
    /\ stage = "begin"
    /\ \/ /\ mode = "workspace"
          /\ declared' \in {{}, Buckets}
          /\ Return(IF declared' = {} THEN "ok" ELSE "list")
       \/ mode = "solo" /\ UNCHANGED declared /\ Return("list")
       \/ UNCHANGED declared /\ Return("error")
    /\ UNCHANGED <<queueVars, serverVars, mode, exists, left>>

ListBuckets ==
    /\ stage = "list"
    /\ \/ exists' = buckets /\ left' = declared /\ Return("buckets")
       \/ UNCHANGED <<exists, left>> /\ Return("error")
    /\ UNCHANGED <<queueVars, serverVars, mode, declared>>

\* One round of the loop, in the order of a Go map.  A bucket of the list is
\* updated, or passed over where the user declines; any other one is created,
\* which the service refuses when it has come to exist.
UpsertBucket(b) ==
    /\ stage = "buckets" /\ b \in left
    /\ \/ /\ b \in exists \/ b \notin buckets
          /\ buckets' = IF b \in exists THEN buckets ELSE buckets \union {b}
          /\ removed' = IF b \in exists THEN removed ELSE removed \ {b}
          /\ left' = left \ {b}
          /\ UNCHANGED stage
       \/ /\ buckets' \in {buckets, IF b \in exists THEN buckets ELSE buckets \union {b}}
          /\ Return("error")
          /\ UNCHANGED <<left, removed>>
    /\ UNCHANGED <<queueVars, objects, others, mode, declared, exists>>

\* UpsertObjects begins with a queue of its own.
BucketsDone ==
    /\ stage = "buckets" /\ left = {}
    /\ Return("objects")
    /\ UNCHANGED <<queueVars, serverVars, mode, declared, exists, left>>

-----------------------------------------------------------------------------
(* The objects *)

Due == {f \in Files : HomeOf[f] \in declared}
Walked(b) == \A f \in Files : HomeOf[f] = b => worker[f] # "new"
Entered(b) == \E f \in Files : HomeOf[f] = b /\ worker[f] # "new"

\* The walk of one directory comes to its next file.
CallPut(f) ==
    /\ stage = "objects" /\ f \in Due
    /\ \A b \in Buckets \ {HomeOf[f]} : Entered(b) => Walked(b)
    /\ Queue!CallPut(f)
    /\ UNCHANGED <<serverVars, ownVars>>

\* return jq.Put(job): an error of an earlier job, of this bucket or of another
\* one, ends the walk and the command.
PutDone ==
    /\ Queue!Put
    /\ IF Head(errCh) = Nil THEN UNCHANGED stage ELSE Return("error")
    /\ UNCHANGED <<serverVars, mode, declared, exists, left>>

\* A directory or file that cannot be read.
WalkFails ==
    /\ stage = "objects" /\ pc = "idle" /\ \E f \in Due : worker[f] = "new"
    /\ Return("error")
    /\ UNCHANGED <<queueVars, serverVars, mode, declared, exists, left>>

CallCollect ==
    /\ stage = "objects" /\ \A f \in Due : worker[f] # "new"
    /\ Queue!CallCollect
    /\ UNCHANGED <<serverVars, ownVars>>

\* return jq.Collect()
InCollect ==
    /\ \/ (Queue!Wait \/ Queue!CollectReceive \/ Queue!CollectRefill) /\ UNCHANGED stage
       \/ /\ Queue!CollectReturn
          /\ Return(IF \A n \in DOMAIN collected : collected[n] = Nil THEN "ok" ELSE "error")
    /\ UNCHANGED <<serverVars, mode, declared, exists, left>>

\* The job of a file: an upload that is refused without the bucket, and that
\* may have been carried out when it fails.
UploadObject(f) ==
    /\ Queue!RunJob(f)
    /\ IF f \in failed'
       THEN objects' \in {objects, IF HomeOf[f] \in buckets THEN objects \union {f} ELSE objects}
       ELSE HomeOf[f] \in buckets /\ objects' = objects \union {f}
    /\ UNCHANGED <<buckets, others, removed, ownVars>>

ReportJob(f) == (Queue!SendResult(f) \/ Queue!Done(f)) /\ UNCHANGED <<serverVars, ownVars>>

Goroutine(f) == UploadObject(f) \/ ReportJob(f)

-----------------------------------------------------------------------------

\* Others create a bucket, or remove one with what is in it.
Other(b) ==
    /\ others > 0 /\ others' = others - 1
    /\ stage \notin Answers
    /\ \/ b \notin buckets /\ buckets' = buckets \union {b} /\ UNCHANGED <<objects, removed>>
       \/ /\ b \in buckets
          /\ buckets' = buckets \ {b}
          /\ objects' = {f \in objects : HomeOf[f] # b}
          /\ removed' = removed \union {b}
    /\ UNCHANGED <<queueVars, ownVars>>

Caller ==
    \/ Begin \/ ListBuckets \/ BucketsDone \/ PutDone \/ WalkFails \/ CallCollect \/ InCollect
    \/ \E b \in Buckets : UpsertBucket(b)
    \/ \E f \in Files : CallPut(f)

Next ==
    \/ Caller
    \/ \E f \in Files : Goroutine(f)
    \/ \E b \in Buckets : Other(b)

Spec == Init /\ [][Next]_vars

-----------------------------------------------------------------------------
(* Properties *)

\* A seed that reports success has made every bucket it found declared and
\* stored every file in it, whichever Put or Collect the error of a job comes
\* out of, except where others have removed the bucket (batch.go:19-106).
SuccessMeansSeeded ==
    stage = "ok" =>
       /\ declared \subseteq buckets \union removed
       /\ \A f \in Due : f \in objects \/ HomeOf[f] \in removed
=============================================================================
