--------------------------- MODULE DeploymentsProofs ---------------------------
(***************************************************************************)
(* Theorems about the commands of MCDeployments, for every set of          *)
(* functions, files, branches, objects, tool calls and logins, for every   *)
(* size of a page and every bound: of the constants nothing is known but   *)
(* AllAssumptions.                                                         *)
(* Each command has an inductive invariant of its own.  The three that use *)
(* a job queue rest on what JobQueueProofs proves of it: its invariant     *)
(* holds in them too, because every step of theirs is a step of the queue  *)
(* or leaves it alone.  The last section combines the invariants.          *)
(***************************************************************************)
EXTENDS StorageObjectsProofs

-----------------------------------------------------------------------------
(* functions deploy in bulk *)

\* The queue of the command, with the theorems about it.
FunctionQueue == INSTANCE JobQueueProofs WITH Jobs <- Functions, Workers <- MaxJobs

\* All functions were uploaded, and none of them failed.
Whole == failed = {} /\ \A f \in Functions : worker[f] = "done"

\* The slice has an entry for each upload that went well.
Filled ==
    /\ toUpdate = {f \in Functions \ failed : worker[f] \in {"sending", "sent", "done"}}
    /\ toUpdate \subseteq bundled

\* The command is in the queue only while it uploads, and calls Collect when
\* every function has its goroutine.
BulkInQueue ==
    /\ pc \in {"put", "wait", "drain", "refill"} => stage = "upload"
    /\ pc \in {"wait", "drain", "refill"} => \A f \in Functions : worker[f] # "new"

\* It goes on only while no error was returned to it, and beyond the uploads
\* only when they are Whole.
BulkStages ==
    /\ stage = "upload" => \A f \in Functions : delivered[f] = 0
    /\ stage \in {"update", "ok"} \/ live # {} => Whole

BulkType ==
    /\ bundled \subseteq Functions /\ live \subseteq Functions
    /\ stage \in {"upload", "update", "ok", "error"}

BulkInv == FunctionQueue!Inv /\ BulkType /\ Filled /\ BulkInQueue /\ BulkStages

-----------------------------------------------------------------------------
(* The queue of BulkDeploy is the queue of JobQueueProofs *)

\* What the theorems of JobQueue assume of its constants, for the functions.
LEMMA LibraryOfBulk ==
    ASSUME Bulk!Assumptions
    PROVE  FunctionQueue!IsFiniteSet(Functions) /\ Nil \notin Functions /\ MaxJobs \in Nat
BY DEF Bulk!Assumptions, Bulk!IsFiniteSet, FunctionQueue!IsFiniteSet

\* Both instances of JobQueue count alike.
LEMMA BulkTimes == \A s, e : Bulk!Queue!Times(s, e) = FunctionQueue!Times(s, e)
<1>1. \A S : Bulk!Queue!Cardinality(S) = FunctionQueue!Cardinality(S)
    BY DEF Bulk!Queue!Cardinality, FunctionQueue!Cardinality, Bulk!Queue!IsFiniteSet, FunctionQueue!IsFiniteSet
<1> QED BY <1>1 DEF Bulk!Queue!Times, FunctionQueue!Times

\* A step of the queue in one instance is that step in the other.
LEMMA BulkSteps ==
    /\ Bulk!Queue!QueueInit => FunctionQueue!QueueInit
    /\ \A f \in Functions : Bulk!Queue!CallPut(f) => FunctionQueue!CallPut(f)
    /\ Bulk!Queue!Put => FunctionQueue!Put
    /\ Bulk!Queue!CallCollect => FunctionQueue!CallCollect
    /\ Bulk!Queue!Wait => FunctionQueue!Wait
    /\ Bulk!Queue!CollectReceive => FunctionQueue!CollectReceive
    /\ Bulk!Queue!CollectRefill => FunctionQueue!CollectRefill
    /\ Bulk!Queue!CollectReturn => FunctionQueue!CollectReturn
    /\ \A f \in Functions : Bulk!Queue!RunJob(f) => FunctionQueue!RunJob(f)
    /\ \A f \in Functions : Bulk!Queue!SendResult(f) => FunctionQueue!SendResult(f)
    /\ \A f \in Functions : Bulk!Queue!Done(f) => FunctionQueue!Done(f)
<1>1. Bulk!Queue!QueueInit => FunctionQueue!QueueInit
    BY DEF Bulk!Queue!QueueInit, FunctionQueue!QueueInit
<1>2. \A f \in Functions : Bulk!Queue!CallPut(f) => FunctionQueue!CallPut(f)
    BY DEF Bulk!Queue!CallPut, FunctionQueue!CallPut
<1>3. Bulk!Queue!Put => FunctionQueue!Put
    BY BulkTimes DEF Bulk!Queue!Put, FunctionQueue!Put, Bulk!Queue!Return, FunctionQueue!Return
<1>4. Bulk!Queue!CallCollect => FunctionQueue!CallCollect
    BY DEF Bulk!Queue!CallCollect, FunctionQueue!CallCollect
<1>5. Bulk!Queue!Wait => FunctionQueue!Wait
    BY DEF Bulk!Queue!Wait, FunctionQueue!Wait
<1>6. Bulk!Queue!CollectReceive => FunctionQueue!CollectReceive
    BY DEF Bulk!Queue!CollectReceive, FunctionQueue!CollectReceive
<1>7. Bulk!Queue!CollectRefill => FunctionQueue!CollectRefill
    BY DEF Bulk!Queue!CollectRefill, FunctionQueue!CollectRefill
<1>8. Bulk!Queue!CollectReturn => FunctionQueue!CollectReturn
    BY BulkTimes DEF Bulk!Queue!CollectReturn, FunctionQueue!CollectReturn, Bulk!Queue!Return, FunctionQueue!Return
<1>9. \A f \in Functions : Bulk!Queue!RunJob(f) => FunctionQueue!RunJob(f)
    BY DEF Bulk!Queue!RunJob, FunctionQueue!RunJob
<1>10. \A f \in Functions : Bulk!Queue!SendResult(f) => FunctionQueue!SendResult(f)
    BY DEF Bulk!Queue!SendResult, FunctionQueue!SendResult
<1>11. \A f \in Functions : Bulk!Queue!Done(f) => FunctionQueue!Done(f)
    BY DEF Bulk!Queue!Done, FunctionQueue!Done
<1> QED BY <1>1, <1>2, <1>3, <1>4, <1>5, <1>6, <1>7, <1>8, <1>9, <1>10, <1>11

\* The invariant of the queue is kept by every step of the command.
LEMMA BulkQueueInv ==
    ASSUME Bulk!Assumptions, FunctionQueue!Inv, Bulk!Next \/ UNCHANGED Bulk!vars
    PROVE  FunctionQueue!Inv'
<1>1. CASE \E f \in Functions : Bulk!CallPut(f)
    BY <1>1, LibraryOfBulk, BulkSteps, FunctionQueue!CallInv DEF Bulk!CallPut
<1>2. CASE Bulk!PutDone
    BY <1>2, LibraryOfBulk, BulkSteps, FunctionQueue!PutInv DEF Bulk!PutDone
<1>3. CASE Bulk!CallCollect
    BY <1>3, LibraryOfBulk, BulkSteps, FunctionQueue!CallInv DEF Bulk!CallCollect
<1>4. CASE Bulk!InCollect
    BY <1>4, LibraryOfBulk, BulkSteps, FunctionQueue!WaitInv, FunctionQueue!CollectReceiveInv, FunctionQueue!CollectRefillInv,
       FunctionQueue!CollectReturnInv DEF Bulk!InCollect
<1>5. CASE Bulk!BulkUpdate \/ UNCHANGED Bulk!vars
    <2>1. UNCHANGED FunctionQueue!queueVars
        BY <1>5 DEF Bulk!BulkUpdate, Bulk!vars, Bulk!queueVars, FunctionQueue!queueVars
    <2> QED BY <2>1, LibraryOfBulk, FunctionQueue!StutterInv
<1>6. CASE \E f \in Functions : Bulk!Goroutine(f)
    <2>1. PICK f \in Functions : Bulk!Goroutine(f)
        BY <1>6
    <2>2. FunctionQueue!Goroutine(f)
        BY <2>1, BulkSteps DEF Bulk!Goroutine, Bulk!RunBundle, Bulk!ReportBundle, FunctionQueue!Goroutine
    <2> QED BY <2>2, LibraryOfBulk, FunctionQueue!GoroutineInv
<1> QED BY <1>1, <1>2, <1>3, <1>4, <1>5, <1>6 DEF Bulk!Next, Bulk!Caller

\* What the command knows when Collect returns only nils.
LEMMA BulkCollected ==
    ASSUME Bulk!Assumptions, BulkInv, FunctionQueue!CollectReturn,
           \A n \in DOMAIN collected : collected[n] = Nil
    PROVE  Whole
<1>1. pc = "drain" /\ i = MaxJobs
    BY DEF FunctionQueue!CollectReturn
<1>2. /\ \A f \in Functions : worker[f] \in {"new", "done"}
      /\ \A f \in Functions :
            delivered[f] + FunctionQueue!Times(collected, f) = IF f \in failed THEN 1 ELSE 0
    BY <1>1, LibraryOfBulk, FunctionQueue!AllExchanged DEF BulkInv
<1>3. \A f \in Functions : worker[f] = "done"
    BY <1>1, <1>2 DEF BulkInv, BulkInQueue
<1>4. \A f \in Functions : delivered[f] = 0
    BY <1>1 DEF BulkInv, BulkInQueue, BulkStages
<1>5. ASSUME NEW f \in Functions PROVE FunctionQueue!Times(collected, f) = 0
    <2>1. {n \in DOMAIN collected : collected[n] = f} = {}
        BY LibraryOfBulk
    <2> QED BY <2>1, LibraryOfBulk, FunctionQueue!FS_EmptySet DEF FunctionQueue!Times
<1>6. failed = {}
    BY <1>2, <1>4, <1>5 DEF BulkInv, FunctionQueue!Inv, FunctionQueue!TypeOK
<1> QED BY <1>3, <1>6 DEF Whole

-----------------------------------------------------------------------------
(* The own invariant of the command *)

\* An upload begins with an empty queue and nothing uploaded.
LEMMA InitBulkInv ==
    ASSUME Bulk!Assumptions, Bulk!Init
    PROVE  BulkInv
<1>1. FunctionQueue!Inv
    BY LibraryOfBulk, BulkSteps, FunctionQueue!InitInv DEF Bulk!Init
<1>2. /\ toUpdate = {} /\ bundled = {} /\ live = {} /\ stage = "upload"
      /\ pc = "idle" /\ worker = [f \in Functions |-> "new"]
      /\ delivered = [f \in Functions |-> 0]
    BY DEF Bulk!Init, Bulk!Queue!QueueInit
<1> QED BY <1>1, <1>2 DEF BulkInv, BulkType, Filled, BulkInQueue, BulkStages

\* The next function of the list goes to the queue.
LEMMA BulkCallPut ==
    ASSUME BulkInv, NEW f \in Functions, Bulk!CallPut(f)
    PROVE  Filled' /\ BulkInQueue' /\ BulkStages'
BY DEF BulkInv, Bulk!CallPut, Bulk!Queue!CallPut, Bulk!ownVars, Filled, BulkInQueue, BulkStages, Whole

\* Put returns the first error there is; without one, none was returned.
LEMMA BulkPut ==
    ASSUME Bulk!Assumptions, BulkInv, Bulk!PutDone
    PROVE  Filled' /\ BulkInQueue' /\ BulkStages'
<1>1. /\ pc = "put" /\ pc' = "idle" /\ stage = "upload" /\ live = {}
      /\ worker' = [worker EXCEPT ![cur] = "running"] /\ failed' = failed
      /\ toUpdate' = toUpdate /\ bundled' = bundled /\ live' = live
      /\ stage' = IF Head(errCh) = Nil THEN stage ELSE "error"
      /\ cur \in Functions /\ worker[cur] = "new" /\ worker \in [Functions -> FunctionQueue!Status]
    <2>1. pc = "put" /\ stage = "upload"
        BY DEF BulkInv, BulkInQueue, Bulk!PutDone, Bulk!Queue!Put
    <2>2. cur \in Functions /\ worker[cur] = "new" /\ worker \in [Functions -> FunctionQueue!Status]
        BY <2>1 DEF BulkInv, FunctionQueue!Inv, FunctionQueue!PutFresh, FunctionQueue!TypeOK
    <2>3. live = {}
        BY <2>2 DEF BulkInv, BulkStages, Whole
    <2> QED BY <2>1, <2>2, <2>3 DEF Bulk!PutDone, Bulk!Queue!Put
<1>2. Filled'
    BY <1>1 DEF BulkInv, Filled
<1>3. BulkInQueue'
    BY <1>1 DEF BulkInQueue
<1>4. ASSUME NEW f \in Functions, stage' = "upload" PROVE delivered'[f] = 0
    <2>1. Head(errCh) = Nil
        BY <1>1, <1>4
    <2>2. delivered'[f] = delivered[f] + FunctionQueue!Times(<<Nil>>, f)
        BY <2>1, BulkTimes DEF Bulk!PutDone, Bulk!Queue!Put, Bulk!Queue!Return
    <2>3. FunctionQueue!Times(<<Nil>>, f) = 0
        BY LibraryOfBulk, FunctionQueue!TimesSingleton
    <2> QED BY <1>1, <2>2, <2>3 DEF BulkInv, BulkStages
<1>5. BulkStages'
    BY <1>1, <1>4 DEF BulkStages
<1> QED BY <1>2, <1>3, <1>5

\* After the last function, or the first error, the queue is collected.
LEMMA BulkCallCollect ==
    ASSUME BulkInv, Bulk!CallCollect
    PROVE  Filled' /\ BulkInQueue' /\ BulkStages'
BY DEF BulkInv, Bulk!CallCollect, Bulk!Queue!CallCollect, Bulk!ownVars, Filled, BulkInQueue, BulkStages, Whole

\* The steps of Collect: whatever it returns decides how the upload goes on.
LEMMA BulkInCollect ==
    ASSUME Bulk!Assumptions, BulkInv, Bulk!InCollect
    PROVE  Filled' /\ BulkInQueue' /\ BulkStages'
<1>1. CASE (Bulk!Queue!Wait \/ Bulk!Queue!CollectReceive \/ Bulk!Queue!CollectRefill) /\ UNCHANGED Bulk!ownVars
    BY <1>1 DEF BulkInv, Bulk!Queue!Wait, Bulk!Queue!CollectReceive, Bulk!Queue!CollectRefill, Bulk!ownVars,
                Filled, BulkInQueue, BulkStages, Whole
<1>2. CASE /\ Bulk!Queue!CollectReturn
           /\ stage' = IF \A n \in DOMAIN collected : collected[n] = Nil
                       THEN "update" ELSE "error"
           /\ UNCHANGED <<toUpdate, bundled, live>>
    <2>1. /\ pc' = "idle" /\ worker' = worker /\ failed' = failed /\ stage' # "upload"
          /\ toUpdate' = toUpdate /\ bundled' = bundled /\ live' = live /\ stage' # "ok"
        BY <1>2 DEF Bulk!Queue!CollectReturn
    <2>2. stage' = "update" => Whole
        BY <1>2, BulkSteps, BulkCollected
    <2>3. Filled' /\ BulkInQueue'
        BY <2>1 DEF BulkInv, Filled, BulkInQueue
    <2>4. BulkStages'
        BY <2>1, <2>2 DEF BulkInv, BulkStages, Whole
    <2> QED BY <2>3, <2>4
<1> QED BY <1>1, <1>2 DEF Bulk!InCollect

\* The update of all functions in one request.
LEMMA BulkUpdateKeeps ==
    ASSUME BulkInv, Bulk!BulkUpdate
    PROVE  Filled' /\ BulkInQueue' /\ BulkStages'
BY DEF BulkInv, Bulk!BulkUpdate, Bulk!queueVars, Filled, BulkInQueue, BulkStages, Whole

\* A goroutine that still works is one more reason why nothing is served.
LEMMA BulkGoroutine ==
    ASSUME BulkInv, NEW f \in Functions, Bulk!Goroutine(f)
    PROVE  Filled' /\ BulkInQueue' /\ BulkStages'
<1>1. worker \in [Functions -> FunctionQueue!Status] /\ failed \subseteq Functions
    BY DEF BulkInv, FunctionQueue!Inv, FunctionQueue!TypeOK
<1>2. /\ worker[f] \in {"running", "sending", "sent"}
      /\ worker' \in {[worker EXCEPT ![f] = s] : s \in {"sending", "sent", "done"}}
      /\ pc' = pc /\ delivered' = delivered /\ stage' = stage /\ live' = live
    BY DEF Bulk!Goroutine, Bulk!RunBundle, Bulk!ReportBundle, Bulk!Queue!RunJob, Bulk!Queue!SendResult, Bulk!Queue!Done, Bulk!ownVars
<1>3. ~Whole /\ live = {} /\ stage \notin {"update", "ok"}
    BY <1>2 DEF BulkInv, BulkStages, Whole
<1>4. BulkInQueue' /\ BulkStages'
    BY <1>1, <1>2, <1>3 DEF BulkInv, BulkInQueue, BulkStages
<1>5. CASE Bulk!RunBundle(f)
    <2>1. /\ worker[f] = "running" /\ worker' = [worker EXCEPT ![f] = "sending"]
          /\ failed' \in {failed, failed \union {f}}
        BY <1>5 DEF Bulk!RunBundle, Bulk!Queue!RunJob
    <2>2. f \notin failed
        BY <2>1 DEF BulkInv, FunctionQueue!Inv, FunctionQueue!FailedRan
    <2>3. Filled'
        BY <1>1, <1>5, <2>1, <2>2 DEF Bulk!RunBundle, BulkInv, Filled
    <2> QED BY <1>4, <2>3
<1>6. CASE Bulk!ReportBundle(f)
    <2>1. Filled'
        BY <1>1, <1>6 DEF Bulk!ReportBundle, Bulk!Queue!SendResult, Bulk!Queue!Done, Bulk!ownVars, BulkInv, Filled
    <2> QED BY <1>4, <2>1
<1> QED BY <1>5, <1>6 DEF Bulk!Goroutine

\* Every step keeps the invariant.
LEMMA BulkStep ==
    ASSUME Bulk!Assumptions, BulkInv, Bulk!Next \/ UNCHANGED Bulk!vars
    PROVE  BulkInv'
<1>1. FunctionQueue!Inv'
    BY BulkQueueInv DEF BulkInv
<1>2. BulkType'
    <2>1. CASE UNCHANGED Bulk!vars
        BY <2>1 DEF Bulk!vars, Bulk!ownVars, BulkInv, BulkType
    <2>2. CASE \E f \in Functions : Bulk!CallPut(f)
        BY <2>2 DEF BulkInv, BulkType, Bulk!CallPut, Bulk!ownVars
    <2>3. CASE Bulk!PutDone \/ Bulk!CallCollect \/ Bulk!InCollect
        BY <2>3 DEF BulkInv, BulkType, Bulk!PutDone, Bulk!CallCollect, Bulk!InCollect, Bulk!ownVars
    <2>4. CASE Bulk!BulkUpdate
        BY <2>4 DEF BulkInv, BulkType, Filled, Bulk!BulkUpdate
    <2>5. CASE \E f \in Functions : Bulk!Goroutine(f)
        BY <2>5 DEF BulkInv, BulkType, Bulk!Goroutine, Bulk!RunBundle, Bulk!ReportBundle,
             Bulk!ownVars
    <2> QED BY <2>1, <2>2, <2>3, <2>4, <2>5 DEF Bulk!Next, Bulk!Caller
<1>3. CASE UNCHANGED Bulk!vars
    BY <1>1, <1>2, <1>3 DEF Bulk!vars, Bulk!queueVars, Bulk!ownVars, BulkInv, Filled, BulkInQueue,
         BulkStages, Whole
<1>4. CASE Bulk!Next
    BY <1>1, <1>2, <1>4, BulkCallPut, BulkPut, BulkCallCollect, BulkInCollect, BulkUpdateKeeps,
         BulkGoroutine DEF Bulk!Next, Bulk!Caller, BulkInv
<1> QED BY <1>3, <1>4

\* The invariant holds at first.
LEMMA BulkInvInit == ASSUME Bulk!Assumptions PROVE Bulk!Init => BulkInv
BY InitBulkInv

\* The invariant is inductive.
LEMMA BulkInvNext == ASSUME Bulk!Assumptions PROVE BulkInv /\ [Bulk!Next]_(Bulk!vars) => BulkInv'
BY BulkStep

\* A bulk upload is updated at once or not at all.
LEMMA BulkInvSays == BulkInv => Bulk!TypeOK /\ Bulk!BulkIsAtomic
<1> SUFFICES ASSUME BulkInv PROVE Bulk!TypeOK /\ Bulk!BulkIsAtomic
    OBVIOUS
<1>1. Bulk!Queue!TypeOK
    BY DEF BulkInv, FunctionQueue!Inv, FunctionQueue!TypeOK, Bulk!Queue!TypeOK, FunctionQueue!Results, Bulk!Queue!Results,
         FunctionQueue!Status, Bulk!Queue!Status, FunctionQueue!Places, Bulk!Queue!Places
<1>2. Bulk!TypeOK
    BY <1>1 DEF BulkInv, BulkType, Filled, Bulk!TypeOK
<1>3. Bulk!BulkIsAtomic
    BY DEF BulkInv, Filled, BulkStages, Whole, Bulk!BulkIsAtomic, Bulk!UpdateSeesWholeSlice,
         Bulk!FailedUploadChangesNothing
<1> QED BY <1>2, <1>3

-----------------------------------------------------------------------------
(* The uploads of storage cp *)

\* The queue of the copy, with the theorems about it.
FileQueue == INSTANCE JobQueueProofs WITH Jobs <- Files, Workers <- MaxJobs

UploadType ==
    /\ attempt \in [Files -> {"upload", "create", "retry"}] /\ bucket \in BOOLEAN
    /\ stored \subseteq Files /\ walkErr \in Files \union {Nil}
    /\ result \in {"none", "ok", "error"}

\* A job that has not failed has stored its file.
JobsStore ==
    \A f \in Files : worker[f] \in {"sending", "sent", "done"} /\ f \notin failed => f \in stored

\* The command is in the queue only until it returns, and in a Put only while
\* the walk goes on; it calls Collect when the walk has ended, and until then
\* knows every error it was given.
UploadInQueue ==
    /\ pc \in {"put", "wait", "drain", "refill"} => result = "none"
    /\ pc = "put" => walkErr = Nil
    /\ pc \in {"wait", "drain", "refill"} => walkErr # Nil \/ \A f \in Files : worker[f] # "new"
    /\ result = "none" /\ walkErr = Nil => \A f \in Files : delivered[f] = 0

\* When it has returned, nobody works for it.
UploadReturned ==
    /\ result # "none" => \A f \in Files : worker[f] \in {"new", "done"}
    /\ result = "ok" => stored = Files

UploadInv == FileQueue!Inv /\ UploadType /\ JobsStore /\ UploadInQueue /\ UploadReturned

\* What the theorems of JobQueue assume of its constants, for the files.
LEMMA LibraryOfUpload ==
    ASSUME Storage!Assumptions
    PROVE  FileQueue!IsFiniteSet(Files) /\ Nil \notin Files /\ MaxJobs \in Nat
BY DEF Storage!Assumptions, Storage!IsFiniteSet, FileQueue!IsFiniteSet

\* Both instances of JobQueue count alike.
LEMMA UploadTimes == \A s, e : Storage!Queue!Times(s, e) = FileQueue!Times(s, e)
<1>1. \A S : Storage!Queue!Cardinality(S) = FileQueue!Cardinality(S)
    BY DEF Storage!Queue!Cardinality, FileQueue!Cardinality, Storage!Queue!IsFiniteSet, FileQueue!IsFiniteSet
<1> QED BY <1>1 DEF Storage!Queue!Times, FileQueue!Times

\* A step of the queue in one instance is that step in the other.
LEMMA UploadSteps ==
    /\ Storage!Queue!QueueInit => FileQueue!QueueInit
    /\ \A f \in Files : Storage!Queue!CallPut(f) => FileQueue!CallPut(f)
    /\ Storage!Queue!Put => FileQueue!Put
    /\ Storage!Queue!CallCollect => FileQueue!CallCollect
    /\ Storage!Queue!Wait => FileQueue!Wait
    /\ Storage!Queue!CollectReceive => FileQueue!CollectReceive
    /\ Storage!Queue!CollectRefill => FileQueue!CollectRefill
    /\ Storage!Queue!CollectReturn => FileQueue!CollectReturn
    /\ \A f \in Files : Storage!Queue!RunJob(f) => FileQueue!RunJob(f)
    /\ \A f \in Files : Storage!Queue!SendResult(f) => FileQueue!SendResult(f)
    /\ \A f \in Files : Storage!Queue!Done(f) => FileQueue!Done(f)
<1>1. Storage!Queue!QueueInit => FileQueue!QueueInit
    BY DEF Storage!Queue!QueueInit, FileQueue!QueueInit
<1>2. \A f \in Files : Storage!Queue!CallPut(f) => FileQueue!CallPut(f)
    BY DEF Storage!Queue!CallPut, FileQueue!CallPut
<1>3. Storage!Queue!Put => FileQueue!Put
    BY UploadTimes DEF Storage!Queue!Put, FileQueue!Put, Storage!Queue!Return, FileQueue!Return
<1>4. Storage!Queue!CallCollect => FileQueue!CallCollect
    BY DEF Storage!Queue!CallCollect, FileQueue!CallCollect
<1>5. Storage!Queue!Wait => FileQueue!Wait
    BY DEF Storage!Queue!Wait, FileQueue!Wait
<1>6. Storage!Queue!CollectReceive => FileQueue!CollectReceive
    BY DEF Storage!Queue!CollectReceive, FileQueue!CollectReceive
<1>7. Storage!Queue!CollectRefill => FileQueue!CollectRefill
    BY DEF Storage!Queue!CollectRefill, FileQueue!CollectRefill
<1>8. Storage!Queue!CollectReturn => FileQueue!CollectReturn
    BY UploadTimes DEF Storage!Queue!CollectReturn, FileQueue!CollectReturn, Storage!Queue!Return, FileQueue!Return
<1>9. \A f \in Files : Storage!Queue!RunJob(f) => FileQueue!RunJob(f)
    BY DEF Storage!Queue!RunJob, FileQueue!RunJob
<1>10. \A f \in Files : Storage!Queue!SendResult(f) => FileQueue!SendResult(f)
    BY DEF Storage!Queue!SendResult, FileQueue!SendResult
<1>11. \A f \in Files : Storage!Queue!Done(f) => FileQueue!Done(f)
    BY DEF Storage!Queue!Done, FileQueue!Done
<1> QED BY <1>1, <1>2, <1>3, <1>4, <1>5, <1>6, <1>7, <1>8, <1>9, <1>10, <1>11

\* The steps of a job are steps of its goroutine, or leave the queue alone.
LEMMA UploadJobSteps ==
    ASSUME NEW f \in Files, Storage!Goroutine(f)
    PROVE  FileQueue!Goroutine(f) \/ UNCHANGED FileQueue!queueVars
<1>1. CASE Storage!UploadObject(f) \/ Storage!CreateBucket(f) \/ Storage!Outage(f)
    <2>1. Storage!Queue!RunJob(f) \/ UNCHANGED FileQueue!queueVars
        BY <1>1 DEF Storage!UploadObject, Storage!CreateBucket, Storage!Outage, Storage!JobEnds,
             Storage!Goes, Storage!queueVars, FileQueue!queueVars
    <2> QED BY <2>1, UploadSteps DEF FileQueue!Goroutine
<1>2. CASE Storage!ReportJob(f)
    BY <1>2, UploadSteps DEF Storage!ReportJob, FileQueue!Goroutine
<1> QED BY <1>1, <1>2 DEF Storage!Goroutine

\* The invariant of the queue is kept by every step of the command.
LEMMA UploadQueueInv ==
    ASSUME Storage!Assumptions, FileQueue!Inv, Storage!Next \/ UNCHANGED Storage!vars
    PROVE  FileQueue!Inv'
<1>1. CASE \E f \in Files : Storage!CallPut(f)
    BY <1>1, LibraryOfUpload, UploadSteps, FileQueue!CallInv DEF Storage!CallPut
<1>2. CASE Storage!PutDone
    BY <1>2, LibraryOfUpload, UploadSteps, FileQueue!PutInv DEF Storage!PutDone
<1>3. CASE Storage!CallCollect
    BY <1>3, LibraryOfUpload, UploadSteps, FileQueue!CallInv DEF Storage!CallCollect
<1>4. CASE Storage!InCollect \/ Storage!UploadReturns
    BY <1>4, LibraryOfUpload, UploadSteps, FileQueue!WaitInv, FileQueue!CollectReceiveInv,
       FileQueue!CollectRefillInv, FileQueue!CollectReturnInv DEF Storage!InCollect, Storage!UploadReturns
<1>5. CASE UNCHANGED Storage!vars
    <2>1. UNCHANGED FileQueue!queueVars
        BY <1>5 DEF Storage!vars, Storage!queueVars, FileQueue!queueVars
    <2> QED BY <2>1, LibraryOfUpload, FileQueue!StutterInv
<1>6. CASE \E f \in Files : Storage!Goroutine(f)
    <2>1. PICK f \in Files : Storage!Goroutine(f)
        BY <1>6
    <2>2. FileQueue!Goroutine(f) \/ UNCHANGED FileQueue!queueVars
        BY <2>1, UploadJobSteps
    <2> QED BY <2>2, LibraryOfUpload, FileQueue!GoroutineInv, FileQueue!StutterInv
<1> QED BY <1>1, <1>2, <1>3, <1>4, <1>5, <1>6 DEF Storage!Next, Storage!Caller, Storage!Ended

\* At first nothing is stored.
LEMMA UploadInvInit == ASSUME Storage!Assumptions PROVE Storage!Init => UploadInv
<1> SUFFICES ASSUME Storage!Init PROVE UploadInv
    OBVIOUS
<1>1. FileQueue!Inv
    BY LibraryOfUpload, UploadSteps, FileQueue!InitInv DEF Storage!Init
<1>2. pc = "idle" /\ worker = [f \in Files |-> "new"] /\ delivered = [f \in Files |-> 0]
    BY DEF Storage!Init, Storage!Queue!QueueInit
<1> QED BY <1>1, <1>2 DEF Storage!Init, UploadInv, UploadType, JobsStore, UploadInQueue,
             UploadReturned

\* Put has returned: the walk goes on, or ends with the error it got.
LEMMA UploadPut ==
    ASSUME Storage!Assumptions, UploadInv, Storage!PutDone
    PROVE  UploadType' /\ JobsStore' /\ UploadInQueue' /\ UploadReturned'
<1>1. /\ pc = "put" /\ pc' = "idle" /\ result = "none" /\ result' = "none" /\ walkErr = Nil
      /\ worker' = [worker EXCEPT ![cur] = "running"] /\ failed' = failed
      /\ UNCHANGED <<attempt, bucket, stored>>
      /\ walkErr' = Head(errCh) /\ errCh # <<>>
    BY DEF UploadInv, UploadInQueue, UploadReturned, UploadType, Storage!PutDone, Storage!Queue!Put
<1>2. /\ cur \in Files /\ worker[cur] = "new" /\ worker \in [Files -> FileQueue!Status]
      /\ errCh \in Seq(Files \union {Nil})
    BY <1>1 DEF UploadInv, FileQueue!Inv, FileQueue!PutFresh, FileQueue!TypeOK, FileQueue!Results
<1>3. UploadType'
    BY <1>1, <1>2 DEF UploadInv, UploadType
<1>4. JobsStore'
    BY <1>1, <1>2 DEF UploadInv, JobsStore
<1>5. ASSUME NEW f \in Files, walkErr' = Nil PROVE delivered'[f] = 0
    <2>1. delivered'[f] = delivered[f] + FileQueue!Times(<<Nil>>, f)
        BY <1>1, <1>5, UploadTimes DEF Storage!PutDone, Storage!Queue!Put, Storage!Queue!Return
    <2>2. FileQueue!Times(<<Nil>>, f) = 0
        BY LibraryOfUpload, FileQueue!TimesSingleton
    <2>3. delivered[f] = 0
        BY <1>1 DEF UploadInv, UploadInQueue
    <2> QED BY <2>1, <2>2, <2>3
<1>6. UploadInQueue' /\ UploadReturned'
    BY <1>1, <1>5 DEF UploadInQueue, UploadReturned
<1> QED BY <1>3, <1>4, <1>6

\* The steps of the caller that neither start a job nor end the command.
LEMMA UploadCalls ==
    ASSUME UploadInv,
           Storage!CallCollect \/ Storage!InCollect \/ \E f \in Files : Storage!CallPut(f)
    PROVE  UploadType' /\ JobsStore' /\ UploadInQueue' /\ UploadReturned'
<1>1. UNCHANGED <<worker, failed, delivered, attempt, bucket, stored, walkErr, result>>
    BY DEF Storage!CallCollect, Storage!InCollect, Storage!CallPut, Storage!Queue!CallCollect,
         Storage!Queue!CallPut, Storage!Queue!Wait, Storage!Queue!CollectReceive,
         Storage!Queue!CollectRefill, Storage!ownVars
<1>2. UploadType' /\ JobsStore' /\ UploadReturned'
    BY <1>1 DEF UploadInv, UploadType, JobsStore, UploadReturned
<1>3. UploadInQueue'
    BY <1>1 DEF UploadInv, UploadInQueue, Storage!CallCollect, Storage!InCollect, Storage!CallPut,
         Storage!Queue!CallCollect, Storage!Queue!CallPut, Storage!Queue!Wait,
         Storage!Queue!CollectReceive, Storage!Queue!CollectRefill
<1> QED BY <1>2, <1>3

\* A Collect that returns has waited for every job, and knows of every failure.
LEMMA UploadReturnsTrue ==
    ASSUME Storage!Assumptions, UploadInv, Storage!UploadReturns
    PROVE  UploadType' /\ JobsStore' /\ UploadInQueue' /\ UploadReturned'
<1>1. /\ pc = "drain" /\ i = MaxJobs /\ pc' = "idle"
      /\ UNCHANGED <<worker, failed, attempt, bucket, stored, walkErr>>
      /\ result' = IF walkErr = Nil /\ \A n \in DOMAIN collected : collected[n] = Nil
                   THEN "ok" ELSE "error"
    BY DEF Storage!UploadReturns, Storage!Queue!CollectReturn
<1>2. /\ \A f \in Files : worker[f] \in {"new", "done"}
      /\ \A f \in Files :
            delivered[f] + FileQueue!Times(collected, f) = IF f \in failed THEN 1 ELSE 0
    BY <1>1, LibraryOfUpload, FileQueue!AllExchanged DEF UploadInv
<1>3. ASSUME result' = "ok" PROVE stored = Files
    <2>1. walkErr = Nil /\ \A n \in DOMAIN collected : collected[n] = Nil
        BY <1>1, <1>3
    <2>2. ASSUME NEW f \in Files PROVE f \in stored
        <3>1. {n \in DOMAIN collected : collected[n] = f} = {}
            BY <2>1, LibraryOfUpload
        <3>2. FileQueue!Times(collected, f) = 0
            BY <3>1, LibraryOfUpload, FileQueue!FS_EmptySet DEF FileQueue!Times
        <3>3. delivered[f] = 0 /\ worker[f] # "new"
            BY <1>1, <2>1 DEF UploadInv, UploadInQueue
        <3>4. f \notin failed /\ worker[f] = "done"
            BY <1>2, <3>2, <3>3
        <3> QED BY <3>4 DEF UploadInv, JobsStore
    <2> QED BY <2>2 DEF UploadInv, UploadType
<1>4. UploadType' /\ JobsStore'
    BY <1>1 DEF UploadInv, UploadType, JobsStore
<1>5. UploadInQueue' /\ UploadReturned'
    BY <1>1, <1>2, <1>3 DEF UploadInv, UploadInQueue, UploadReturned
<1> QED BY <1>4, <1>5

\* A job works only before the command returns.
LEMMA UploadJob ==
    ASSUME UploadInv, NEW f \in Files, Storage!Goroutine(f)
    PROVE  result = "none" /\ UploadType' /\ JobsStore' /\ UploadInQueue' /\ UploadReturned'
<1>1. /\ worker \in [Files -> FileQueue!Status] /\ failed \subseteq Files
      /\ worker[f] = "running" => f \notin failed
    BY DEF UploadInv, FileQueue!Inv, FileQueue!TypeOK, FileQueue!FailedRan
<1>2. /\ worker[f] \in {"running", "sending", "sent"}
      /\ UNCHANGED <<pc, delivered, walkErr, result>>
      /\ worker' = worker \/ \E s \in {"sending", "sent", "done"} :
                                worker' = [worker EXCEPT ![f] = s]
    BY DEF Storage!Goroutine, Storage!UploadObject, Storage!CreateBucket, Storage!Outage,
         Storage!JobEnds, Storage!Goes, Storage!ReportJob, Storage!Queue!RunJob,
         Storage!Queue!SendResult, Storage!Queue!Done, Storage!ownVars, Storage!queueVars
<1>3. result = "none"
    BY <1>2 DEF UploadInv, UploadReturned, UploadType
<1>4. UploadInQueue' /\ UploadReturned'
    BY <1>1, <1>2, <1>3 DEF UploadInv, UploadInQueue, UploadReturned
<1>5. CASE Storage!ReportJob(f)
    <2>1. UNCHANGED <<attempt, bucket, stored, failed>>
        BY <1>5 DEF Storage!ReportJob, Storage!ownVars, Storage!Queue!SendResult, Storage!Queue!Done
    <2>2. UploadType'
        BY <1>2, <2>1 DEF UploadInv, UploadType
    <2>3. \A g \in Files : worker'[g] \in {"sending", "sent", "done"} =>
                            worker[g] \in {"sending", "sent", "done"}
        BY <1>1, <1>2, <1>5 DEF Storage!ReportJob, Storage!Queue!SendResult, Storage!Queue!Done
    <2> QED BY <1>3, <1>4, <2>1, <2>2, <2>3 DEF UploadInv, JobsStore
<1>6. CASE Storage!UploadObject(f) \/ Storage!CreateBucket(f) \/ Storage!Outage(f)
    <2>1. /\ worker[f] = "running" /\ stored' \in {stored, stored \union {f}}
          /\ bucket' \in BOOLEAN
          /\ attempt' = attempt \/ \E s \in {"create", "retry"} :
                                      attempt' = [attempt EXCEPT ![f] = s]
        BY <1>6 DEF Storage!UploadObject, Storage!CreateBucket, Storage!Outage, Storage!JobEnds,
             Storage!Goes, UploadInv, UploadType
    <2>2. UploadType'
        BY <1>2, <2>1 DEF UploadInv, UploadType
    <2>3. \/ worker' = worker /\ failed' = failed
          \/ /\ worker' = [worker EXCEPT ![f] = "sending"]
             /\ failed' \in {failed, failed \union {f}} /\ (f \in failed' \/ f \in stored')
        BY <1>6 DEF Storage!UploadObject, Storage!CreateBucket, Storage!Outage, Storage!JobEnds,
             Storage!Goes, Storage!queueVars, Storage!Queue!RunJob
    <2> QED BY <1>1, <1>3, <1>4, <2>1, <2>2, <2>3 DEF UploadInv, JobsStore
<1> QED BY <1>5, <1>6 DEF Storage!Goroutine

\* The invariant is inductive.
LEMMA UploadInvNext ==
    ASSUME Storage!Assumptions
    PROVE  UploadInv /\ [Storage!Next]_(Storage!vars) => UploadInv'
<1> SUFFICES ASSUME UploadInv, [Storage!Next]_(Storage!vars) PROVE UploadInv'
    OBVIOUS
<1>1. FileQueue!Inv'
    BY UploadQueueInv DEF UploadInv
<1>2. CASE UNCHANGED Storage!vars
    BY <1>1, <1>2 DEF Storage!vars, Storage!queueVars, Storage!ownVars, UploadInv, UploadType,
         JobsStore, UploadInQueue, UploadReturned
<1>3. CASE Storage!Next
    BY <1>1, <1>2, <1>3, UploadPut, UploadCalls, UploadReturnsTrue, UploadJob
       DEF Storage!Next, Storage!Caller, Storage!Ended, UploadInv
<1> QED BY <1>2, <1>3

\* An upload that reports success has stored every file.
LEMMA UploadInvSays == UploadInv => Storage!TypeOK /\ Storage!SuccessMeansStored
<1> SUFFICES ASSUME UploadInv PROVE Storage!TypeOK /\ Storage!SuccessMeansStored
    OBVIOUS
<1>1. Storage!Queue!TypeOK
    BY DEF UploadInv, FileQueue!Inv, FileQueue!TypeOK, Storage!Queue!TypeOK, FileQueue!Results,
         Storage!Queue!Results, FileQueue!Status, Storage!Queue!Status, FileQueue!Places,
         Storage!Queue!Places
<1>2. Storage!TypeOK
    BY <1>1 DEF UploadInv, UploadType, Storage!TypeOK
<1>3. Storage!SuccessMeansStored
    BY DEF UploadInv, UploadReturned, Storage!SuccessMeansStored
<1> QED BY <1>2, <1>3

\* Nothing that can still write to the bucket is left when the copy returns.
LEMMA UploadStepAfter ==
    UploadInv /\ [Storage!Next]_(Storage!vars) => Storage!NothingAfterReturnStep
<1> SUFFICES ASSUME UploadInv, [Storage!Next]_(Storage!vars), result # "none"
             PROVE  stored' = stored /\ bucket' = bucket
    BY DEF Storage!NothingAfterReturnStep
<1>1. CASE UNCHANGED Storage!vars
    BY <1>1 DEF Storage!vars, Storage!ownVars
<1>2. CASE \E f \in Files : Storage!Goroutine(f)
    BY <1>2, UploadJob
<1>3. CASE Storage!Caller
    BY <1>3 DEF Storage!Caller, Storage!CallCollect, Storage!PutDone, Storage!InCollect,
         Storage!UploadReturns, Storage!CallPut, Storage!ownVars
<1> QED BY <1>1, <1>2, <1>3 DEF Storage!Next, Storage!Ended

\* A copy that reports success has stored every file, also when several jobs
\* found the bucket missing and one of them created it.
THEOREM SuccessMeansStoredAlways ==
    ASSUME Storage!Assumptions
    PROVE  Storage!Spec => []Storage!SuccessMeansStored
BY UploadInvInit, UploadInvNext, UploadInvSays, PTL DEF Storage!Spec

-----------------------------------------------------------------------------
(* seed buckets *)

\* The bucket of a file.
Home(f) == HomeOf[f]

SeedType ==
    /\ mode \in {"workspace", "solo"} /\ declared \in {{}, Buckets}
    /\ buckets \subseteq Buckets /\ removed \subseteq Buckets
    /\ exists \subseteq Buckets /\ unvisited \subseteq Buckets
    /\ seeded \subseteq Files /\ strangers \in 0..Others
    /\ seeding \in {"begin", "list", "buckets", "objects", "ok", "error"}

\* A bucket that was found or made has not gone unless others removed it.
BucketsInv ==
    /\ exists \subseteq buckets \union removed
    /\ seeding = "buckets" => declared \ unvisited \subseteq buckets \union removed
    /\ seeding \in {"objects", "ok"} => declared \subseteq buckets \union removed

\* A job that has not failed has stored its file, which only others remove.
SeedsStore ==
    \A f \in Files :
       worker[f] \in {"sending", "sent", "done"} /\ f \notin failed =>
          f \in seeded \/ Home(f) \in removed

\* No job before the last bucket was made, no call of the queue but in
\* UpsertObjects, no Collect before the end of the walk, and every error that is
\* handed over ends the command.
SeedInQueue ==
    /\ seeding \in {"begin", "list", "buckets"} => \A f \in Files : worker[f] = "new"
    /\ pc \in {"put", "wait", "drain", "refill"} => seeding = "objects"
    /\ pc \in {"wait", "drain", "refill"} =>
          \A f \in Files : Home(f) \in declared => worker[f] # "new"
    /\ seeding \notin {"ok", "error"} => \A f \in Files : delivered[f] = 0

SeedDone ==
    seeding = "ok" =>
       \A f \in Files : Home(f) \in declared => f \in seeded \/ Home(f) \in removed

SeedInv == FileQueue!Inv /\ SeedType /\ BucketsInv /\ SeedsStore /\ SeedInQueue /\ SeedDone

\* What the theorems of JobQueue assume of its constants, for the files of the buckets.
LEMMA LibraryOfSeed ==
    ASSUME Serving!Seed!Assumptions
    PROVE  FileQueue!IsFiniteSet(Files) /\ Nil \notin Files /\ MaxJobs \in Nat
BY DEF Serving!Seed!Assumptions, Serving!Seed!IsFiniteSet, FileQueue!IsFiniteSet

\* Both instances of JobQueue count alike.
LEMMA SeedTimes == \A s, e : Serving!Seed!Queue!Times(s, e) = FileQueue!Times(s, e)
<1>1. \A S : Serving!Seed!Queue!Cardinality(S) = FileQueue!Cardinality(S)
    BY DEF Serving!Seed!Queue!Cardinality, FileQueue!Cardinality, Serving!Seed!Queue!IsFiniteSet,
         FileQueue!IsFiniteSet
<1> QED BY <1>1 DEF Serving!Seed!Queue!Times, FileQueue!Times

\* A step of the queue in one instance is that step in the other.
LEMMA SeedQueueSteps ==
    /\ Serving!Seed!Queue!QueueInit => FileQueue!QueueInit
    /\ \A f \in Files : Serving!Seed!Queue!CallPut(f) => FileQueue!CallPut(f)
    /\ Serving!Seed!Queue!Put => FileQueue!Put
    /\ Serving!Seed!Queue!CallCollect => FileQueue!CallCollect
    /\ Serving!Seed!Queue!Wait => FileQueue!Wait
    /\ Serving!Seed!Queue!CollectReceive => FileQueue!CollectReceive
    /\ Serving!Seed!Queue!CollectRefill => FileQueue!CollectRefill
    /\ Serving!Seed!Queue!CollectReturn => FileQueue!CollectReturn
    /\ \A f \in Files : Serving!Seed!Queue!RunJob(f) => FileQueue!RunJob(f)
    /\ \A f \in Files : Serving!Seed!Queue!SendResult(f) => FileQueue!SendResult(f)
    /\ \A f \in Files : Serving!Seed!Queue!Done(f) => FileQueue!Done(f)
<1>1. Serving!Seed!Queue!QueueInit => FileQueue!QueueInit
    BY DEF Serving!Seed!Queue!QueueInit, FileQueue!QueueInit
<1>2. \A f \in Files : Serving!Seed!Queue!CallPut(f) => FileQueue!CallPut(f)
    BY DEF Serving!Seed!Queue!CallPut, FileQueue!CallPut
<1>3. Serving!Seed!Queue!Put => FileQueue!Put
    BY SeedTimes DEF Serving!Seed!Queue!Put, FileQueue!Put, Serving!Seed!Queue!Return, FileQueue!Return
<1>4. Serving!Seed!Queue!CallCollect => FileQueue!CallCollect
    BY DEF Serving!Seed!Queue!CallCollect, FileQueue!CallCollect
<1>5. Serving!Seed!Queue!Wait => FileQueue!Wait
    BY DEF Serving!Seed!Queue!Wait, FileQueue!Wait
<1>6. Serving!Seed!Queue!CollectReceive => FileQueue!CollectReceive
    BY DEF Serving!Seed!Queue!CollectReceive, FileQueue!CollectReceive
<1>7. Serving!Seed!Queue!CollectRefill => FileQueue!CollectRefill
    BY DEF Serving!Seed!Queue!CollectRefill, FileQueue!CollectRefill
<1>8. Serving!Seed!Queue!CollectReturn => FileQueue!CollectReturn
    BY SeedTimes DEF Serving!Seed!Queue!CollectReturn, FileQueue!CollectReturn,
         Serving!Seed!Queue!Return, FileQueue!Return
<1>9. \A f \in Files : Serving!Seed!Queue!RunJob(f) => FileQueue!RunJob(f)
    BY DEF Serving!Seed!Queue!RunJob, FileQueue!RunJob
<1>10. \A f \in Files : Serving!Seed!Queue!SendResult(f) => FileQueue!SendResult(f)
    BY DEF Serving!Seed!Queue!SendResult, FileQueue!SendResult
<1>11. \A f \in Files : Serving!Seed!Queue!Done(f) => FileQueue!Done(f)
    BY DEF Serving!Seed!Queue!Done, FileQueue!Done
<1> QED BY <1>1, <1>2, <1>3, <1>4, <1>5, <1>6, <1>7, <1>8, <1>9, <1>10, <1>11

\* The steps before the queue, and those of others, leave it alone.
LEMMA SeedQueueStutters ==
    ASSUME \/ Serving!Seed!Begin \/ Serving!Seed!ListBuckets \/ Serving!Seed!BucketsDone
           \/ Serving!Seed!WalkFails \/ UNCHANGED Serving!Seed!vars
           \/ \E b \in Buckets : Serving!Seed!UpsertBucket(b) \/ Serving!Seed!Other(b)
    PROVE  UNCHANGED FileQueue!queueVars
BY DEF Serving!Seed!Begin, Serving!Seed!ListBuckets, Serving!Seed!BucketsDone,
     Serving!Seed!WalkFails, Serving!Seed!UpsertBucket, Serving!Seed!Other, Serving!Seed!vars,
     Serving!Seed!queueVars, FileQueue!queueVars

\* Every step of the seeding keeps the invariant of the queue.
LEMMA SeedQueueInv ==
    ASSUME Serving!Seed!Assumptions, FileQueue!Inv, Serving!Seed!Next \/ UNCHANGED Serving!Seed!vars
    PROVE  FileQueue!Inv'
<1>1. CASE \E f \in Files : Serving!Seed!CallPut(f)
    BY <1>1, LibraryOfSeed, SeedQueueSteps, FileQueue!CallInv DEF Serving!Seed!CallPut
<1>2. CASE Serving!Seed!PutDone
    BY <1>2, LibraryOfSeed, SeedQueueSteps, FileQueue!PutInv DEF Serving!Seed!PutDone
<1>3. CASE Serving!Seed!CallCollect
    BY <1>3, LibraryOfSeed, SeedQueueSteps, FileQueue!CallInv DEF Serving!Seed!CallCollect
<1>4. CASE Serving!Seed!InCollect
    BY <1>4, LibraryOfSeed, SeedQueueSteps, FileQueue!WaitInv, FileQueue!CollectReceiveInv,
       FileQueue!CollectRefillInv, FileQueue!CollectReturnInv DEF Serving!Seed!InCollect
<1>5. CASE UNCHANGED FileQueue!queueVars
    BY <1>5, LibraryOfSeed, FileQueue!StutterInv
<1>6. CASE \E f \in Files : Serving!Seed!Goroutine(f)
    <2>1. PICK f \in Files : Serving!Seed!Goroutine(f)
        BY <1>6
    <2>2. FileQueue!Goroutine(f)
        BY <2>1, SeedQueueSteps DEF Serving!Seed!Goroutine, Serving!Seed!UploadObject,
             Serving!Seed!ReportJob, FileQueue!Goroutine
    <2> QED BY <2>2, LibraryOfSeed, FileQueue!GoroutineInv
<1> QED BY <1>1, <1>2, <1>3, <1>4, <1>5, <1>6, SeedQueueStutters
       DEF Serving!Seed!Next, Serving!Seed!Caller

\* The seeding begins with an empty queue and no bucket.
LEMMA SeedInvInit == ASSUME Serving!Seed!Assumptions PROVE Serving!Seed!Init => SeedInv
<1> SUFFICES ASSUME Serving!Seed!Init PROVE SeedInv
    OBVIOUS
<1>1. FileQueue!Inv
    BY LibraryOfSeed, SeedQueueSteps, FileQueue!InitInv DEF Serving!Seed!Init
<1>2. pc = "idle" /\ worker = [f \in Files |-> "new"] /\ delivered = [f \in Files |-> 0]
    BY DEF Serving!Seed!Init, Serving!Seed!Queue!QueueInit
<1> QED BY <1>1, <1>2 DEF Serving!Seed!Init, SeedInv, SeedType, BucketsInv, SeedsStore,
             SeedInQueue, SeedDone, Serving!Seed!Assumptions

\* The buckets: nothing runs yet.
LEMMA SeedBucketSteps ==
    ASSUME Serving!Seed!Assumptions, SeedInv, UNCHANGED FileQueue!queueVars,
           \/ Serving!Seed!Begin \/ Serving!Seed!ListBuckets \/ Serving!Seed!BucketsDone
           \/ Serving!Seed!WalkFails \/ UNCHANGED Serving!Seed!vars
           \/ \E b \in Buckets : Serving!Seed!UpsertBucket(b) \/ Serving!Seed!Other(b)
    PROVE  SeedType' /\ BucketsInv' /\ SeedsStore' /\ SeedInQueue' /\ SeedDone'
<1> USE DEF FileQueue!queueVars
<1>0. FileQueue!TypeOK
    BY DEF SeedInv, FileQueue!Inv
<1>1. CASE Serving!Seed!Begin
    <2>1. seeding = "begin" /\ seeding' # "objects" /\ seeding' # "buckets"
        BY <1>1 DEF Serving!Seed!Begin, Serving!Seed!Return
    <2>2. /\ UNCHANGED <<buckets, seeded, strangers, removed, mode, exists, unvisited>>
          /\ declared' \in {declared, {}, Buckets}
          /\ seeding' \in {"ok", "list", "error"} /\ (seeding' = "ok" => declared' = {})
        BY <1>1 DEF Serving!Seed!Begin, Serving!Seed!Return, Serving!Seed!serverVars, SeedInv, SeedType
    <2> QED BY <2>1, <2>2 DEF SeedInv, SeedType, BucketsInv, SeedsStore, SeedInQueue, SeedDone
<1>2. CASE Serving!Seed!ListBuckets
    BY <1>2 DEF Serving!Seed!ListBuckets, Serving!Seed!Return, Serving!Seed!serverVars, SeedInv,
         SeedType, BucketsInv, SeedsStore, SeedInQueue, SeedDone
<1>3. CASE Serving!Seed!BucketsDone
    BY <1>3 DEF Serving!Seed!BucketsDone, Serving!Seed!Return, Serving!Seed!serverVars, SeedInv,
         SeedType, BucketsInv, SeedsStore, SeedInQueue, SeedDone
<1>4. CASE Serving!Seed!WalkFails
    BY <1>4 DEF Serving!Seed!WalkFails, Serving!Seed!Return, Serving!Seed!serverVars, SeedInv,
         SeedType, BucketsInv, SeedsStore, SeedInQueue, SeedDone
<1>5. CASE UNCHANGED Serving!Seed!vars
    BY <1>5 DEF Serving!Seed!vars, Serving!Seed!ownVars, Serving!Seed!serverVars, SeedInv,
         SeedType, BucketsInv, SeedsStore, SeedInQueue, SeedDone
<1>6. ASSUME NEW b \in Buckets, Serving!Seed!UpsertBucket(b)
      PROVE  SeedType' /\ BucketsInv' /\ SeedsStore' /\ SeedInQueue' /\ SeedDone'
    <2>1. /\ seeding = "buckets" /\ seeding' \in {"buckets", "error"}
          /\ UNCHANGED <<seeded, strangers, mode, declared, exists>>
          /\ unvisited' \in {unvisited, unvisited \ {b}}
          /\ buckets' \in {buckets, buckets \union {b}}
          /\ removed' \in {removed, removed \ {b}}
          /\ b \in exists => removed' = removed
          /\ buckets \union removed \subseteq buckets' \union removed'
          /\ seeding' = "buckets" /\ b \notin exists => b \in buckets'
          /\ seeding' = "error" => removed' = removed
        BY <1>6 DEF Serving!Seed!UpsertBucket, Serving!Seed!Return
    <2>2. SeedType' /\ SeedInQueue' /\ SeedDone'
        BY <2>1 DEF SeedInv, SeedType, SeedInQueue, SeedDone
    <2>3. SeedsStore'
        BY <2>1 DEF SeedInv, SeedsStore, SeedInQueue
    <2>4. b \in buckets' \union removed' \/ seeding' = "error"
        BY <2>1 DEF SeedInv, BucketsInv
    <2>5. BucketsInv'
        BY <2>1, <2>4 DEF SeedInv, BucketsInv
    <2> QED BY <2>2, <2>3, <2>5
<1>7. ASSUME NEW b \in Buckets, Serving!Seed!Other(b)
      PROVE  SeedType' /\ BucketsInv' /\ SeedsStore' /\ SeedInQueue' /\ SeedDone'
    <2>1. /\ seeding \notin {"ok", "error"} /\ strangers > 0 /\ strangers' = strangers - 1
          /\ UNCHANGED <<mode, declared, exists, unvisited, seeding>>
        BY <1>7 DEF Serving!Seed!Other, Serving!Seed!Answers, Serving!Seed!ownVars
    <2>2. \/ buckets' = buckets \union {b} /\ seeded' = seeded /\ removed' = removed
          \/ /\ buckets' = buckets \ {b} /\ removed' = removed \union {b} /\ seeded' \subseteq seeded
             /\ \A f \in seeded : f \in Files => f \in seeded' \/ Home(f) = b
        BY <1>7 DEF Serving!Seed!Other, Home
    <2>3. SeedInQueue' /\ SeedDone'
        BY <2>1 DEF SeedInv, SeedInQueue, SeedDone
    <2>4. strangers' \in 0..Others
        BY <2>1 DEF SeedInv, SeedType, Serving!Seed!Assumptions
    <2>8. /\ buckets' \subseteq Buckets /\ removed' \subseteq Buckets
          /\ seeded' \subseteq Files
        BY <2>2 DEF SeedInv, SeedType
    <2>5. SeedType'
        BY <2>1, <2>4, <2>8 DEF SeedInv, SeedType
    <2>6. buckets \union removed \subseteq buckets' \union removed'
        BY <2>2
    <2>7. BucketsInv'
        BY <2>1, <2>6 DEF SeedInv, BucketsInv
    <2>9. SeedsStore'
        BY <2>1, <2>2 DEF SeedInv, SeedsStore
    <2> QED BY <2>3, <2>9, <2>5, <2>7
<1> QED BY <1>1, <1>2, <1>3, <1>4, <1>5, <1>6, <1>7

\* Put has returned: the walk goes on, or ends with the error it got.
LEMMA SeedPut ==
    ASSUME Serving!Seed!Assumptions, SeedInv, Serving!Seed!PutDone
    PROVE  SeedType' /\ BucketsInv' /\ SeedsStore' /\ SeedInQueue' /\ SeedDone'
<1>1. /\ pc = "put" /\ pc' = "idle" /\ seeding = "objects" /\ seeding' \in {"objects", "error"}
      /\ worker' = [worker EXCEPT ![cur] = "running"] /\ failed' = failed
      /\ UNCHANGED <<buckets, seeded, strangers, removed, mode, declared, exists, unvisited>>
      /\ seeding' = "objects" <=> Head(errCh) = Nil
    BY DEF SeedInv, SeedInQueue, Serving!Seed!PutDone, Serving!Seed!Queue!Put,
         Serving!Seed!serverVars, Serving!Seed!Return
<1>2. cur \in Files /\ worker[cur] = "new" /\ worker \in [Files -> FileQueue!Status]
    BY <1>1 DEF SeedInv, FileQueue!Inv, FileQueue!PutFresh, FileQueue!TypeOK
<1>3. SeedType' /\ BucketsInv' /\ SeedDone'
    BY <1>1 DEF SeedInv, SeedType, BucketsInv, SeedDone
<1>4. SeedsStore'
    BY <1>1, <1>2 DEF SeedInv, SeedsStore
<1>5. ASSUME NEW f \in Files, seeding' = "objects" PROVE delivered'[f] = 0
    <2>1. delivered'[f] = delivered[f] + FileQueue!Times(<<Nil>>, f)
        BY <1>1, <1>5, SeedTimes DEF Serving!Seed!PutDone, Serving!Seed!Queue!Put,
             Serving!Seed!Queue!Return
    <2>2. FileQueue!Times(<<Nil>>, f) = 0
        BY LibraryOfSeed, FileQueue!TimesSingleton
    <2>3. delivered[f] = 0
        BY <1>1 DEF SeedInv, SeedInQueue
    <2> QED BY <2>1, <2>2, <2>3
<1>6. SeedInQueue'
    BY <1>1, <1>5 DEF SeedInQueue
<1> QED BY <1>3, <1>4, <1>6

\* The steps of the caller that neither start a job nor end the command.
LEMMA SeedCalls ==
    ASSUME SeedInv,
           \/ Serving!Seed!CallCollect \/ \E f \in Files : Serving!Seed!CallPut(f)
           \/ Serving!Seed!InCollect /\ ~Serving!Seed!Queue!CollectReturn
    PROVE  SeedType' /\ BucketsInv' /\ SeedsStore' /\ SeedInQueue' /\ SeedDone'
<1>1. /\ UNCHANGED <<worker, failed, delivered, mode, declared, buckets, seeded, strangers>>
      /\ UNCHANGED <<removed, exists, unvisited, seeding>>
    BY DEF Serving!Seed!CallCollect, Serving!Seed!InCollect, Serving!Seed!CallPut,
         Serving!Seed!Queue!CallCollect, Serving!Seed!Queue!CallPut, Serving!Seed!Queue!Wait,
         Serving!Seed!Queue!CollectReceive, Serving!Seed!Queue!CollectRefill,
         Serving!Seed!ownVars, Serving!Seed!serverVars
<1>2. SeedType' /\ BucketsInv' /\ SeedsStore' /\ SeedDone'
    BY <1>1 DEF SeedInv, SeedType, BucketsInv, SeedsStore, SeedDone
<1>3. /\ pc' \in {"put", "wait", "drain", "refill"} => seeding = "objects"
      /\ \/ pc' = "put"
         \/ \A f \in Files : Home(f) \in declared => worker[f] # "new"
    BY DEF SeedInv, SeedInQueue, Serving!Seed!CallCollect, Serving!Seed!InCollect,
         Serving!Seed!CallPut, Serving!Seed!Due, Home,
         Serving!Seed!Queue!CallCollect, Serving!Seed!Queue!CallPut, Serving!Seed!Queue!Wait,
         Serving!Seed!Queue!CollectReceive, Serving!Seed!Queue!CollectRefill
<1>4. SeedInQueue'
    BY <1>1, <1>3 DEF SeedInv, SeedInQueue
<1> QED BY <1>2, <1>4

\* A Collect that returns has waited for every job, and knows of every failure.
LEMMA SeedReturnsTrue ==
    ASSUME Serving!Seed!Assumptions, SeedInv, Serving!Seed!InCollect,
           Serving!Seed!Queue!CollectReturn
    PROVE  SeedType' /\ BucketsInv' /\ SeedsStore' /\ SeedInQueue' /\ SeedDone'
<1>1. /\ pc = "drain" /\ i = MaxJobs /\ pc' = "idle" /\ UNCHANGED <<worker, failed>>
      /\ UNCHANGED <<mode, declared, buckets, seeded, strangers, removed, exists, unvisited>>
      /\ seeding' = IF \A n \in DOMAIN collected : collected[n] = Nil THEN "ok" ELSE "error"
    BY DEF Serving!Seed!InCollect, Serving!Seed!Queue!CollectReturn, Serving!Seed!Return,
         Serving!Seed!serverVars, Serving!Seed!Queue!Wait, Serving!Seed!Queue!CollectReceive,
         Serving!Seed!Queue!CollectRefill
<1>2. \A f \in Files : worker[f] \in {"new", "done"}
    BY <1>1, LibraryOfSeed, FileQueue!AllExchanged DEF SeedInv
<1>3. \A f \in Files : delivered[f] + FileQueue!Times(collected, f) = IF f \in failed THEN 1 ELSE 0
    BY <1>1, LibraryOfSeed, FileQueue!AllExchanged DEF SeedInv
<1>4. ASSUME seeding' = "ok", NEW f \in Files, Home(f) \in declared
      PROVE  f \in seeded \/ Home(f) \in removed
    <2>1. \A n \in DOMAIN collected : collected[n] = Nil
        BY <1>1, <1>4
    <2>2. {n \in DOMAIN collected : collected[n] = f} = {}
        BY <2>1, LibraryOfSeed
    <2>3. FileQueue!Times(collected, f) = 0
        BY <2>2, LibraryOfSeed, FileQueue!FS_EmptySet DEF FileQueue!Times
    <2>4. delivered[f] = 0 /\ worker[f] # "new" /\ seeding = "objects"
        BY <1>1, <1>4 DEF SeedInv, SeedInQueue
    <2>5. f \notin failed /\ worker[f] = "done"
        BY <1>2, <1>3, <2>3, <2>4
    <2> QED BY <2>5 DEF SeedInv, SeedsStore
<1>5. seeding = "objects"
    BY <1>1 DEF SeedInv, SeedInQueue
<1>6. SeedType' /\ BucketsInv' /\ SeedsStore'
    BY <1>1, <1>5 DEF SeedInv, SeedType, BucketsInv, SeedsStore
<1>7. SeedInQueue'
    BY <1>1, <1>5 DEF SeedInv, SeedInQueue
<1>8. SeedDone'
    BY <1>1, <1>4 DEF SeedDone
<1> QED BY <1>6, <1>7, <1>8

\* A job, which may work on after the command has returned with an error.
LEMMA SeedJob ==
    ASSUME SeedInv, NEW f \in Files, Serving!Seed!Goroutine(f)
    PROVE  SeedType' /\ BucketsInv' /\ SeedsStore' /\ SeedInQueue' /\ SeedDone'
<1>1. /\ worker \in [Files -> FileQueue!Status] /\ failed \subseteq Files
      /\ worker[f] = "running" => f \notin failed
    BY DEF SeedInv, FileQueue!Inv, FileQueue!TypeOK, FileQueue!FailedRan
<1>2. /\ worker[f] \in {"running", "sending", "sent"}
      /\ UNCHANGED <<pc, delivered, mode, declared, buckets, strangers, removed, exists>>
      /\ UNCHANGED <<unvisited, seeding>>
      /\ \E s \in {"sending", "sent", "done"} : worker' = [worker EXCEPT ![f] = s]
      /\ seeded' \in {seeded, seeded \union {f}}
    BY DEF Serving!Seed!Goroutine, Serving!Seed!UploadObject, Serving!Seed!ReportJob,
         Serving!Seed!Queue!RunJob, Serving!Seed!Queue!SendResult, Serving!Seed!Queue!Done,
         Serving!Seed!ownVars, Serving!Seed!serverVars
<1>3. SeedType' /\ BucketsInv' /\ SeedDone'
    BY <1>2 DEF SeedInv, SeedType, BucketsInv, SeedDone
<1>4. SeedInQueue'
    BY <1>1, <1>2 DEF SeedInv, SeedInQueue
<1>5. CASE Serving!Seed!ReportJob(f)
    <2>1. seeded' = seeded /\ failed' = failed /\ worker[f] \in {"sending", "sent"}
        BY <1>5 DEF Serving!Seed!ReportJob, Serving!Seed!serverVars, Serving!Seed!Queue!SendResult,
             Serving!Seed!Queue!Done
    <2>2. SeedsStore'
        BY <1>1, <1>2, <2>1 DEF SeedInv, SeedsStore
    <2> QED BY <1>3, <1>4, <2>2
<1>6. CASE Serving!Seed!UploadObject(f)
    <2>1. failed' \in {failed, failed \union {f}} /\ (f \in failed' \/ f \in seeded')
        BY <1>6 DEF Serving!Seed!UploadObject, Serving!Seed!Queue!RunJob
    <2>2. SeedsStore'
        BY <1>1, <1>2, <2>1 DEF SeedInv, SeedsStore
    <2> QED BY <1>3, <1>4, <2>2
<1> QED BY <1>5, <1>6 DEF Serving!Seed!Goroutine

\* The invariant is inductive.
LEMMA SeedInvNext ==
    ASSUME Serving!Seed!Assumptions
    PROVE  SeedInv /\ [Serving!Seed!Next]_(Serving!Seed!vars) => SeedInv'
<1> SUFFICES ASSUME SeedInv, [Serving!Seed!Next]_(Serving!Seed!vars) PROVE SeedInv'
    OBVIOUS
<1>1. FileQueue!Inv'
    BY SeedQueueInv DEF SeedInv
<1>2. SeedType' /\ BucketsInv' /\ SeedsStore' /\ SeedInQueue' /\ SeedDone'
    BY SeedQueueStutters, SeedBucketSteps, SeedPut, SeedCalls, SeedReturnsTrue, SeedJob
       DEF Serving!Seed!Next, Serving!Seed!Caller
<1> QED BY <1>1, <1>2 DEF SeedInv

\* A seeding that reports success has stored every file of every bucket.
LEMMA SeedInvSays == SeedInv => Serving!Seed!TypeOK /\ Serving!Seed!SuccessMeansSeeded
<1> SUFFICES ASSUME SeedInv PROVE Serving!Seed!TypeOK /\ Serving!Seed!SuccessMeansSeeded
    OBVIOUS
<1>1. Serving!Seed!Queue!TypeOK
    BY DEF SeedInv, FileQueue!Inv, FileQueue!TypeOK, Serving!Seed!Queue!TypeOK, FileQueue!Results,
         Serving!Seed!Queue!Results, FileQueue!Status, Serving!Seed!Queue!Status, FileQueue!Places,
         Serving!Seed!Queue!Places
<1>2. Serving!Seed!TypeOK
    BY <1>1 DEF SeedInv, SeedType, Serving!Seed!TypeOK, Serving!Seed!Answers
<1>3. Serving!Seed!SuccessMeansSeeded
    BY DEF SeedInv, SeedDone, BucketsInv, Serving!Seed!SuccessMeansSeeded, Serving!Seed!Due, Home
<1> QED BY <1>2, <1>3

\* A seed that reports success has made every declared bucket and stored every
\* file of it, except where others have removed the bucket.
THEOREM SuccessMeansSeededAlways ==
    ASSUME Serving!Seed!Assumptions
    PROVE  Serving!Seed!Spec => []Serving!Seed!SuccessMeansSeeded
BY SeedInvInit, SeedInvNext, SeedInvSays, PTL DEF Serving!Seed!Spec

-----------------------------------------------------------------------------
(* functions deploy one by one *)

UpsertDone(s) ==
    server[s].bundle = Upsert!Wanted.bundle /\ server[s].jwt = Upsert!Wanted.jwt

\* What the list showed of a function still to come is what the server runs; the
\* functions that were visited run what was wanted of them.
ServerInv ==
    /\ at \in {"loop", "upsert"} => \A s \in left : slugToIndex[s] = "listed" =>
                                      server[s] = listed[s] /\ server[s] # Upsert!NotDeployed
    /\ at \in {"loop", "upsert", "bulk", "ok"} =>
          \A s \in Slugs \ (Disabled \union Undeployable) :
              s \in left \/ (at = "upsert" /\ s = slug) \/ UpsertDone(s)
    /\ at = "list" => left = Slugs
    /\ at \in {"bulk", "ok"} => left = {}

\* A refused create is the one attempt that is not an outage.
Attempts ==
    /\ at \in {"list", "loop", "bulk"} => tries = outages
    /\ at = "loop" => tries = 0
    /\ at = "upsert" =>
          /\ slug \in Slugs \ left
          /\ slugToIndex[slug] = "duplicate" => tries = outages + 1
          /\ slugToIndex[slug] # "duplicate" => tries = outages
    /\ \A s \in left : slugToIndex[s] # "duplicate"
    /\ at \notin {"upsert", "error"} => slug = Upsert!NoSlug

UpsertInv == Upsert!TypeOK /\ ServerInv /\ Attempts /\ Upsert!GivesUpOnlyOnOutages

\* No function has been tried at first.
LEMMA UpsertInvInit == ASSUME Upsert!Assumptions PROVE Upsert!Init => UpsertInv
<1> SUFFICES ASSUME Upsert!Init PROVE UpsertInv
    OBVIOUS
<1>1. server \in [Slugs -> Upsert!Deployed \union {Upsert!NotDeployed}]
    BY DEF Upsert!Init
<1>2. 0 \in 0..MaxRetries /\ 0 \in 0..MaxRetries + 1
    BY DEF Upsert!Assumptions
<1>3. Upsert!TypeOK
    BY <1>1, <1>2 DEF Upsert!Init, Upsert!TypeOK
<1>4. ServerInv /\ Attempts /\ Upsert!GivesUpOnlyOnOutages
    BY DEF Upsert!Init, ServerInv, Attempts, Upsert!GivesUpOnlyOnOutages
<1> QED BY <1>3, <1>4 DEF UpsertInv

\* One more attempt, or the end.
LEMMA OutageCounts ==
    ASSUME Upsert!Assumptions, UpsertInv, Upsert!Outage, at \in {"list", "upsert", "bulk"}
    PROVE  /\ tries' \in 0..MaxRetries /\ outages' \in 0..MaxRetries + 1
           /\ outages' = outages + 1
           /\ \/ at' = at /\ tries' = tries + 1
              \/ at' = "error" /\ tries' = tries /\ outages' >= MaxRetries
<1>1. tries \in 0..MaxRetries /\ outages \in 0..MaxRetries + 1 /\ MaxRetries \in Nat
    BY DEF UpsertInv, Upsert!TypeOK, Upsert!Assumptions
<1>2. tries = outages \/ tries = outages + 1
    BY DEF UpsertInv, Attempts
<1>3. outages' = outages + 1
    BY DEF Upsert!Outage
<1>4. CASE tries < MaxRetries
    BY <1>1, <1>2, <1>3, <1>4 DEF Upsert!Outage, Upsert!RetryOrReturn
<1>5. CASE ~(tries < MaxRetries)
    BY <1>1, <1>2, <1>3, <1>5 DEF Upsert!Outage, Upsert!RetryOrReturn
<1> QED BY <1>4, <1>5

\* The list of the functions there are, or an error.
LEMMA ListKeeps ==
    ASSUME Upsert!Assumptions, UpsertInv, Upsert!List \/ Upsert!ListFails
    PROVE  UpsertInv'
<1>1. CASE Upsert!List
    <2>1. Upsert!TypeOK'
        BY <1>1 DEF Upsert!List, Upsert!Reset, UpsertInv, Upsert!TypeOK, Upsert!Assumptions
    <2>2. ServerInv'
        <3>1. /\ at' = "loop" /\ left' = Slugs /\ server' = server /\ listed' = server
              /\ slugToIndex' = [s \in Slugs |-> IF server[s] = Upsert!NotDeployed
                                                THEN "missing" ELSE "listed"]
            BY <1>1 DEF Upsert!List, UpsertInv, ServerInv
        <3>2. \A s \in Slugs : slugToIndex'[s] = "listed" => server[s] # Upsert!NotDeployed
            BY <3>1
        <3> QED BY <3>1, <3>2 DEF ServerInv
    <2>3. Attempts'
        BY <1>1 DEF Upsert!List, Upsert!Reset, UpsertInv, Attempts, Upsert!TypeOK
    <2> QED BY <1>1, <2>1, <2>2, <2>3 DEF UpsertInv, Upsert!List, Upsert!GivesUpOnlyOnOutages
<1>2. CASE Upsert!ListFails
    <2>1. at = "list" /\ slug = Upsert!NoSlug /\ tries = outages
        BY <1>2 DEF Upsert!ListFails, UpsertInv, Attempts
    <2>2. UNCHANGED <<server, listed, slugToIndex, left, slug, confirm>>
        BY <1>2 DEF Upsert!ListFails
    <2>3. /\ tries' \in 0..MaxRetries /\ outages' \in 0..MaxRetries + 1
          /\ at' \in {"list", "error"} /\ (at' = "list" => tries' = outages')
        <3>1. CASE Upsert!Outage
            BY <2>1, <3>1, OutageCounts
        <3>2. CASE at' = "error" /\ outages' = outages + 1 /\ tries' = tries
            BY <2>1, <3>2 DEF UpsertInv, Upsert!TypeOK, Upsert!Assumptions
        <3> QED BY <1>2, <3>1, <3>2 DEF Upsert!ListFails
    <2>4. Upsert!TypeOK'
        BY <2>2, <2>3 DEF UpsertInv, Upsert!TypeOK
    <2>5. ServerInv'
        BY <2>1, <2>2, <2>3 DEF UpsertInv, ServerInv
    <2>6. Attempts' /\ Upsert!GivesUpOnlyOnOutages'
        BY <2>1, <2>2, <2>3 DEF UpsertInv, Attempts, Upsert!GivesUpOnlyOnOutages
    <2> QED BY <2>4, <2>5, <2>6 DEF UpsertInv
<1> QED BY <1>1, <1>2

\* The next function of the loop: a create or an update, or nothing to do.
LEMMA NextFunctionKeeps ==
    ASSUME UpsertInv, NEW s \in Slugs, Upsert!NextFunction(s)
    PROVE  UpsertInv'
<1>1. /\ at = "loop" /\ s \in left /\ left' = left \ {s} /\ slug = Upsert!NoSlug
      /\ UNCHANGED <<server, listed, slugToIndex, tries, outages, confirm>>
    BY DEF Upsert!NextFunction, UpsertInv, Attempts
<1>2. \/ at' = "loop" /\ slug' = slug /\ (s \in Disabled \union Undeployable \/ Upsert!Unchanged(s))
      \/ at' = "upsert" /\ slug' = s
      \/ at' = "error" /\ slug' = slug
    BY <1>1 DEF Upsert!NextFunction
<1>3. Upsert!TypeOK'
    BY <1>1, <1>2 DEF UpsertInv, Upsert!TypeOK
<1>4. ServerInv'
    <2>1. Upsert!Unchanged(s) => UpsertDone(s)
        BY <1>1 DEF Upsert!Unchanged, UpsertDone, UpsertInv, ServerInv
    <2>2. \A t \in Slugs : UpsertDone(t)' <=> UpsertDone(t)
        BY <1>1 DEF UpsertDone
    <2> QED BY <1>1, <1>2, <2>1, <2>2 DEF UpsertInv, ServerInv
<1>5. Attempts'
    BY <1>1, <1>2 DEF UpsertInv, Attempts
<1>6. Upsert!GivesUpOnlyOnOutages'
    BY <1>1, <1>2 DEF Upsert!GivesUpOnlyOnOutages
<1> QED BY <1>3, <1>4, <1>5, <1>6 DEF UpsertInv

\* A request on a function that is not to come any more.
LEMMA ServerKeeps ==
    ASSUME UpsertInv, at = "upsert",
           server' \in {server, [server EXCEPT ![slug] = Upsert!Wanted]}
    PROVE  /\ server' \in [Slugs -> Upsert!Deployed \union {Upsert!NotDeployed}]
           /\ \A s \in Slugs : s # slug => server'[s] = server[s]
           /\ \A s \in left : server'[s] = server[s]
<1>1. slug \in Slugs \ left /\ server \in [Slugs -> Upsert!Deployed \union {Upsert!NotDeployed}]
    BY DEF UpsertInv, Attempts, Upsert!TypeOK
<1>2. Upsert!Wanted \in Upsert!Deployed
    BY DEF Upsert!Wanted, Upsert!Deployed
<1> QED BY <1>1, <1>2 DEF UpsertInv, Upsert!TypeOK

\* The service has taken a function.
LEMMA UpsertSucceedsKeeps ==
    ASSUME Upsert!Assumptions, UpsertInv, Upsert!UpsertSucceeds
    PROVE  UpsertInv'
<1>1. /\ at = "upsert" /\ at' = "loop" /\ slug' = Upsert!NoSlug /\ tries' = 0 /\ outages' = 0
      /\ UNCHANGED <<listed, slugToIndex, left>> /\ confirm' = confirm \union {slug}
      /\ server' = [server EXCEPT ![slug] = Upsert!Wanted]
    BY DEF Upsert!UpsertSucceeds, Upsert!Reset, Upsert!Note
<1>2. /\ slug \in Slugs \ left
      /\ server' \in [Slugs -> Upsert!Deployed \union {Upsert!NotDeployed}]
      /\ \A s \in Slugs : s # slug => server'[s] = server[s]
      /\ \A s \in left : server'[s] = server[s]
    BY <1>1, ServerKeeps DEF UpsertInv, Attempts
<1>3. Upsert!TypeOK'
    BY <1>1, <1>2 DEF UpsertInv, Upsert!TypeOK, Upsert!Assumptions
<1>4. ServerInv'
    <2>1. \A x : x = slug => UpsertDone(x)'
        <3>1. server'[slug] = Upsert!Wanted
            BY <1>1, <1>2 DEF UpsertInv, Upsert!TypeOK
        <3> QED BY <3>1 DEF UpsertDone, Upsert!Wanted
    <2>2. \A t \in Slugs : t # slug => (UpsertDone(t)' <=> UpsertDone(t))
        BY <1>2 DEF UpsertDone
    <2> QED BY <1>1, <1>2, <2>1, <2>2 DEF UpsertInv, ServerInv
<1>5. Attempts' /\ Upsert!GivesUpOnlyOnOutages'
    BY <1>1 DEF UpsertInv, Attempts, Upsert!GivesUpOnlyOnOutages
<1> QED BY <1>3, <1>4, <1>5 DEF UpsertInv

\* The service has refused a function: another attempt, or the end.
LEMMA UpsertFailsKeeps ==
    ASSUME Upsert!Assumptions, UpsertInv, Upsert!UpsertFails
    PROVE  UpsertInv'
<1>1. /\ at = "upsert" /\ UNCHANGED <<listed, slugToIndex, left, slug, confirm>>
      /\ server' \in {server, [server EXCEPT ![slug] = Upsert!Wanted]} /\ Upsert!Outage
    BY DEF Upsert!UpsertFails
<1>2. /\ slug \in Slugs \ left
      /\ server' \in [Slugs -> Upsert!Deployed \union {Upsert!NotDeployed}]
      /\ \A s \in Slugs : s # slug => server'[s] = server[s]
      /\ \A s \in left : server'[s] = server[s]
    BY <1>1, ServerKeeps DEF UpsertInv, Attempts
<1>3. /\ tries' \in 0..MaxRetries /\ outages' \in 0..MaxRetries + 1
      /\ outages' = outages + 1
      /\ \/ at' = at /\ tries' = tries + 1
         \/ at' = "error" /\ tries' = tries /\ outages' >= MaxRetries
    BY <1>1, OutageCounts
<1>4. Upsert!TypeOK'
    BY <1>1, <1>2, <1>3 DEF UpsertInv, Upsert!TypeOK
<1>5. ServerInv'
    <2>1. \A t \in Slugs : t # slug => (UpsertDone(t)' <=> UpsertDone(t))
        BY <1>2 DEF UpsertDone
    <2>2. at' \in {"upsert", "error"}
        BY <1>1, <1>3
    <2> QED BY <1>1, <1>2, <2>1, <2>2 DEF UpsertInv, ServerInv
<1>6. Attempts'
    <2>1. tries \in Nat /\ outages \in Nat
        BY DEF UpsertInv, Upsert!TypeOK, Upsert!Assumptions
    <2> QED BY <1>1, <1>2, <1>3, <2>1 DEF UpsertInv, Attempts
<1>7. Upsert!GivesUpOnlyOnOutages'
    BY <1>1, <1>3 DEF Upsert!GivesUpOnlyOnOutages
<1> QED BY <1>4, <1>5, <1>6, <1>7 DEF UpsertInv

\* The second refusal of a create is never met: the next attempt is an update.
LEMMA CreateRefusedKeeps ==
    ASSUME Upsert!Assumptions, UpsertInv, Upsert!CreateRefused
    PROVE  UpsertInv'
<1>1. /\ at = "upsert" /\ slugToIndex[slug] = "missing"
      /\ UNCHANGED <<server, listed, left, slug, outages, confirm>>
      /\ slug \in Slugs \ left /\ tries = outages
    BY DEF Upsert!CreateRefused, UpsertInv, Attempts
<1>2. tries \in 0..MaxRetries /\ MaxRetries \in Nat /\ outages \in Nat
    BY DEF UpsertInv, Upsert!TypeOK, Upsert!Assumptions
<1>3. \/ /\ at' = at /\ tries' = tries + 1 /\ tries' \in 0..MaxRetries
         /\ slugToIndex' = [slugToIndex EXCEPT ![slug] = "duplicate"]
      \/ at' = "error" /\ tries' = tries /\ slugToIndex' = slugToIndex /\ outages >= MaxRetries
    <2>1. CASE tries < MaxRetries
        BY <1>2, <2>1 DEF Upsert!CreateRefused, Upsert!RetryOrReturn, Upsert!Notified
    <2>2. CASE ~(tries < MaxRetries)
        BY <1>1, <1>2, <2>2 DEF Upsert!CreateRefused, Upsert!RetryOrReturn, Upsert!Notified
    <2> QED BY <2>1, <2>2
<1>4. /\ slugToIndex' \in [Slugs -> {"missing", "listed", "duplicate"}]
      /\ \A s \in left : slugToIndex'[s] = slugToIndex[s]
      /\ at' = at => slugToIndex'[slug] = "duplicate"
      /\ at' \in {"upsert", "error"} /\ tries' \in 0..MaxRetries
    BY <1>1, <1>2, <1>3 DEF UpsertInv, Upsert!TypeOK
<1>5. Upsert!TypeOK'
    BY <1>1, <1>4 DEF UpsertInv, Upsert!TypeOK
<1>6. ServerInv'
    <2>1. \A t \in Slugs : UpsertDone(t)' <=> UpsertDone(t)
        BY <1>1 DEF UpsertDone
    <2> QED BY <1>1, <1>4, <2>1 DEF UpsertInv, ServerInv
<1>7. Attempts'
    BY <1>1, <1>2, <1>3, <1>4 DEF UpsertInv, Attempts
<1>8. Upsert!GivesUpOnlyOnOutages'
    BY <1>1, <1>3 DEF Upsert!GivesUpOnlyOnOutages
<1> QED BY <1>5, <1>6, <1>7, <1>8 DEF UpsertInv

\* The end of the loop and the bulk update.
LEMMA BulkKeeps ==
    ASSUME Upsert!Assumptions, UpsertInv, Upsert!EndOfLoop \/ Upsert!BulkUpdate
    PROVE  UpsertInv'
<1>1. /\ UNCHANGED <<server, listed, slugToIndex, left, slug, confirm>> /\ slug = Upsert!NoSlug
      /\ left = {} /\ at \in {"loop", "bulk"} /\ tries = outages
    BY DEF Upsert!EndOfLoop, Upsert!BulkUpdate, UpsertInv, ServerInv, Attempts
<1>2. /\ at' \in {"bulk", "ok", "error"} /\ tries' \in 0..MaxRetries
      /\ outages' \in 0..MaxRetries + 1 /\ (at' = "bulk" => tries' = outages')
    <2>1. CASE Upsert!EndOfLoop
        BY <1>1, <2>1 DEF Upsert!EndOfLoop, UpsertInv, Upsert!TypeOK
    <2>2. CASE Upsert!BulkUpdate /\ Upsert!Outage
        BY <1>1, <2>2, OutageCounts DEF Upsert!BulkUpdate
    <2>3. CASE at' = "ok" /\ Upsert!Reset
        BY <2>3 DEF Upsert!Reset, Upsert!Assumptions
    <2> QED BY <2>1, <2>2, <2>3 DEF Upsert!BulkUpdate
<1>3. Upsert!TypeOK'
    BY <1>1, <1>2 DEF UpsertInv, Upsert!TypeOK
<1>4. ServerInv'
    <2>1. \A t \in Slugs : UpsertDone(t)' <=> UpsertDone(t)
        BY <1>1 DEF UpsertDone
    <2> QED BY <1>1, <1>2, <2>1 DEF UpsertInv, ServerInv
<1>5. Attempts' /\ Upsert!GivesUpOnlyOnOutages'
    BY <1>1, <1>2 DEF UpsertInv, Attempts, Upsert!GivesUpOnlyOnOutages
<1> QED BY <1>3, <1>4, <1>5 DEF UpsertInv

\* Another client creates only what is not there, and so not what was deployed.
LEMMA OtherClientKeeps ==
    ASSUME UpsertInv, NEW s \in Slugs, Upsert!OtherClient(s)
    PROVE  UpsertInv'
<1>1. /\ server[s] = Upsert!NotDeployed
      /\ server' = [server EXCEPT ![s] = [Upsert!Wanted EXCEPT !.bundle = "old"]]
      /\ UNCHANGED <<listed, slugToIndex, left, slug, tries, outages, confirm, at>>
    BY DEF Upsert!OtherClient
<1>2. [Upsert!Wanted EXCEPT !.bundle = "old"] \in Upsert!Deployed
    BY DEF Upsert!Wanted, Upsert!Deployed
<1>3. Upsert!TypeOK'
    BY <1>1, <1>2 DEF UpsertInv, Upsert!TypeOK
<1>4. \A t \in Slugs : t # s => server'[t] = server[t]
    BY <1>1 DEF UpsertInv, Upsert!TypeOK
<1>5. ~UpsertDone(s)
    BY <1>1 DEF UpsertDone, Upsert!NotDeployed, Upsert!Wanted
<1>6. ServerInv'
    <2>1. \A t \in Slugs : UpsertDone(t) => UpsertDone(t)'
        BY <1>4, <1>5 DEF UpsertDone
    <2>2. left \subseteq Slugs
        BY DEF UpsertInv, Upsert!TypeOK
    <2>3. \A t \in left : slugToIndex[t] = "listed" /\ at \in {"loop", "upsert"} => t # s
        BY <1>1 DEF UpsertInv, ServerInv
    <2> QED BY <1>1, <1>4, <2>1, <2>2, <2>3 DEF UpsertInv, ServerInv
<1>7. Attempts' /\ Upsert!GivesUpOnlyOnOutages'
    BY <1>1 DEF UpsertInv, Attempts, Upsert!GivesUpOnlyOnOutages
<1> QED BY <1>3, <1>6, <1>7 DEF UpsertInv

\* The invariant is inductive.
LEMMA UpsertInvNext ==
    ASSUME Upsert!Assumptions
    PROVE  UpsertInv /\ [Upsert!Next]_(Upsert!vars) => UpsertInv'
<1> SUFFICES ASSUME UpsertInv, [Upsert!Next]_(Upsert!vars) PROVE UpsertInv'
    OBVIOUS
<1>1. CASE UNCHANGED Upsert!vars
    BY <1>1 DEF Upsert!vars, UpsertInv, Upsert!TypeOK, ServerInv, UpsertDone, Attempts,
         Upsert!GivesUpOnlyOnOutages
<1>2. CASE Upsert!Next
    BY <1>1, <1>2, ListKeeps, NextFunctionKeeps, OtherClientKeeps, UpsertSucceedsKeeps,
       UpsertFailsKeeps, CreateRefusedKeeps, BulkKeeps DEF Upsert!Next, Upsert!Ended
<1> QED BY <1>1, <1>2

\* Success means that each function that was to be deployed is.
LEMMA UpsertInvSays == UpsertInv => Upsert!SuccessMeansDeployed
BY DEF UpsertInv, ServerInv, UpsertDone, Upsert!SuccessMeansDeployed

\* A deploy that reports success leaves every enabled function with the new
\* bundle and the configured JWT setting.
THEOREM SuccessMeansDeployedAlways ==
    ASSUME Upsert!Assumptions
    PROVE  Upsert!Spec => []Upsert!SuccessMeansDeployed
BY UpsertInvInit, UpsertInvNext, UpsertInvSays, PTL DEF Upsert!Spec

-----------------------------------------------------------------------------
(* Fast create *)

Steps == Create!FilesIn(Migrations) \union Create!FilesIn(Plugins) \union Create!Fixed
Entry == [op : Create!Writes, branch : Branches \union {None}]

\* What a run with these files writes, in its order.
Written(m, f) == <<"upload", "project", "workspace">> \o m \o f \o <<"bind", "deploy">>

\* How many of the first k steps of a plan are writes, where a ask and n are files.
WritesIn(a, n, k) ==
    IF k <= a + 2 THEN 0
    ELSE IF k <= a + 5 THEN k - a - 2
    ELSE IF k = a + 6 THEN 3
    ELSE IF k <= a + n + 8 THEN k - a - 3 ELSE n + 5

\* The run is after k steps of its plan: the rest is left, the writes among them
\* were carried out, the branch was resolved at the wait, the deployment awaited.
After(q, m, f, k) ==
    LET p == Create!Plan(q, m, f)
        n == Len(m) + Len(f)
    IN  /\ k \in 0..Len(p) /\ Len(todo) = Len(p) - k
        /\ \A z \in 1..Len(todo) : todo[z] = p[k + z]
        /\ Len(log) = WritesIn(Len(q), n, k)
        /\ k >= Len(q) + 6 => branch \in ready
        /\ k >= Len(q) + n + 9 => own = "success"

\* What the log says, also when the last answer was lost.
Logged(m, f) ==
    /\ Len(log) <= Len(Written(m, f))
    /\ \A z \in 1..Len(log) : log[z].op = Written(m, f)[z]

LogInv ==
    \A z \in 1..Len(log) : log[z].op \in Create!OnBranch => log[z].branch = branch /\ branch \in ready

Planned ==
    \E q \in {<<>>, <<"ask">>}, m \in {<<>>, Migrations}, f \in {<<>>, Plugins} :
       /\ Logged(m, f)
       /\ outcome = "none" => \E k : After(q, m, f, k)
       /\ outcome = "ok" => own = "success" /\ Len(log) = Len(Written(m, f))

CreateInv ==
    /\ Create!TypeOK /\ todo \in Seq(Steps) /\ log \in Seq(Entry)
    /\ LogInv /\ Planned
    /\ outcome \in {"cancelled", "refused"} => log = <<>>

-----------------------------------------------------------------------------

\* One sequence after another.
LEMMA JoinedIs ==
    ASSUME NEW S, NEW s \in Seq(S), NEW t \in Seq(S)
    PROVE  /\ s \o t \in Seq(S) /\ Len(s) \in Nat /\ Len(t) \in Nat
           /\ Len(s \o t) = Len(s) + Len(t)
           /\ \A z \in 1..Len(s) : (s \o t)[z] = s[z]
           /\ \A z \in 1..Len(t) : (s \o t)[Len(s) + z] = t[z]
OBVIOUS

\* Four sequences, one after the other.
IsFour(p, x, m, f, y) ==
    /\ Len(p) = Len(x) + (Len(m) + Len(f)) + Len(y)
    /\ \A z \in 1..Len(x) : p[z] = x[z]
    /\ \A z \in 1..Len(m) : p[Len(x) + z] = m[z]
    /\ \A z \in 1..Len(f) : p[Len(x) + Len(m) + z] = f[z]
    /\ \A z \in 1..Len(y) : p[Len(x) + (Len(m) + Len(f)) + z] = y[z]

\* Four sequences joined are that.
LEMMA FourJoined ==
    ASSUME NEW S, NEW x \in Seq(S), NEW m \in Seq(S), NEW f \in Seq(S), NEW y \in Seq(S),
           NEW p, p = x \o m \o f \o y
    PROVE  p \in Seq(S) /\ IsFour(p, x, m, f, y)
<1>1. PICK r, s : r = x \o m /\ s = r \o f /\ p = s \o y
    OBVIOUS
<1>0. Len(x) \in Nat /\ Len(m) \in Nat /\ Len(f) \in Nat /\ Len(y) \in Nat
    OBVIOUS
<1>2. /\ r \in Seq(S) /\ Len(r) = Len(x) + Len(m)
      /\ \A z \in 1..Len(x) : r[z] = x[z]
      /\ \A z \in 1..Len(m) : r[Len(x) + z] = m[z]
    BY <1>1, JoinedIs
<1>3. /\ s \in Seq(S) /\ Len(s) = Len(r) + Len(f)
      /\ \A z \in 1..Len(r) : s[z] = r[z]
      /\ \A z \in 1..Len(f) : s[Len(r) + z] = f[z]
    BY <1>1, <1>2, JoinedIs
<1>4. /\ p \in Seq(S) /\ Len(p) = Len(s) + Len(y)
      /\ \A z \in 1..Len(s) : p[z] = s[z]
      /\ \A z \in 1..Len(y) : p[Len(s) + z] = y[z]
    BY <1>1, <1>3, JoinedIs
<1>5. Len(s) = Len(x) + (Len(m) + Len(f))
    BY <1>0, <1>2, <1>3
<1>6. ASSUME NEW z \in 1..Len(x) PROVE p[z] = x[z]
    <2>1. z \in 1..Len(r) /\ z \in 1..Len(s)
        BY <1>0, <1>2, <1>5
    <2> QED BY <1>2, <1>3, <1>4, <2>1
<1>7. ASSUME NEW z \in 1..Len(m) PROVE p[Len(x) + z] = m[z]
    <2>1. Len(x) + z \in 1..Len(r) /\ Len(x) + z \in 1..Len(s)
        BY <1>0, <1>2, <1>5
    <2> QED BY <1>2, <1>3, <1>4, <2>1
<1>8. ASSUME NEW z \in 1..Len(f) PROVE p[Len(x) + Len(m) + z] = f[z]
    <2>1. Len(r) + z \in 1..Len(s)
        BY <1>0, <1>2, <1>3
    <2> QED BY <1>2, <1>3, <1>4, <2>1
<1>9. ASSUME NEW z \in 1..Len(y) PROVE p[Len(x) + (Len(m) + Len(f)) + z] = y[z]
    BY <1>4, <1>5
<1> QED BY <1>4, <1>5, <1>6, <1>7, <1>8, <1>9 DEF IsFour

\* The files are told apart, and are no other steps.
LEMMA FilesAre ==
    ASSUME Create!Assumptions
    PROVE  /\ Migrations \in Seq(Steps) /\ Plugins \in Seq(Steps)
           /\ \A z \in 1..Len(Migrations) :
                 Migrations[z] \in Create!OnBranch /\ Migrations[z] \notin Create!Fixed
           /\ \A z \in 1..Len(Plugins) :
                 Plugins[z] \in Create!OnBranch /\ Plugins[z] \notin Create!Fixed
           /\ \A z, j \in 1..Len(Migrations) : Migrations[z] = Migrations[j] => z = j
           /\ \A z, j \in 1..Len(Plugins) : Plugins[z] = Plugins[j] => z = j
           /\ \A z \in 1..Len(Migrations), j \in 1..Len(Plugins) : Migrations[z] # Plugins[j]
           /\ Create!OnBranch \cap Create!Fixed = {"bind"}
<1> DEFINE M == Create!FilesIn(Migrations)
           F == Create!FilesIn(Plugins)
           c == Migrations \o Plugins
<1>1. /\ Migrations \in Seq(M) /\ Plugins \in Seq(F)
      /\ Create!Distinct(c) /\ Create!FilesIn(c) \cap Create!Fixed = {}
    BY DEF Create!Assumptions
<1>2. /\ DOMAIN Migrations = 1..Len(Migrations) /\ Len(Migrations) \in Nat
      /\ DOMAIN Plugins = 1..Len(Plugins) /\ Len(Plugins) \in Nat
    BY <1>1
<1>3. M \subseteq Steps /\ F \subseteq Steps
    BY DEF Steps
<1>4. Migrations \in Seq(Steps) /\ Plugins \in Seq(Steps)
    BY <1>1, <1>3, SeqMonotonic
<1>5. /\ DOMAIN c = 1..Len(c) /\ Len(c) = Len(Migrations) + Len(Plugins)
      /\ \A z \in 1..Len(Migrations) : c[z] = Migrations[z]
      /\ \A z \in 1..Len(Plugins) : c[Len(Migrations) + z] = Plugins[z]
    BY <1>4, JoinedIs
<1>6. \A z \in 1..Len(Migrations) : Migrations[z] \in M
    BY <1>2 DEF Create!FilesIn
<1>7. \A z \in 1..Len(Plugins) : Plugins[z] \in F
    BY <1>2 DEF Create!FilesIn
<1>8. \A z, j \in 1..Len(c) : c[z] = c[j] => z = j
    BY <1>1, <1>5 DEF Create!Distinct
<1>9. \A z \in 1..Len(c) : c[z] \notin Create!Fixed
    BY <1>1, <1>5 DEF Create!FilesIn
<1> HIDE DEF c
<1>10. ASSUME NEW z \in 1..Len(Migrations)
       PROVE  z \in 1..Len(c) /\ c[z] = Migrations[z] /\ Migrations[z] \notin Create!Fixed
    <2>1. z \in 1..Len(c) /\ c[z] = Migrations[z]
        BY <1>2, <1>5
    <2> QED BY <1>9, <2>1
<1>11. ASSUME NEW z \in 1..Len(Plugins)
       PROVE  /\ Len(Migrations) + z \in 1..Len(c) /\ c[Len(Migrations) + z] = Plugins[z]
              /\ Plugins[z] \notin Create!Fixed
    <2>1. Len(Migrations) + z \in 1..Len(c) /\ c[Len(Migrations) + z] = Plugins[z]
        BY <1>2, <1>5
    <2> QED BY <1>9, <2>1
<1>12. \A z, j \in 1..Len(Migrations) : Migrations[z] = Migrations[j] => z = j
    BY <1>8, <1>10
<1>13. ASSUME NEW z \in 1..Len(Plugins), NEW j \in 1..Len(Plugins), Plugins[z] = Plugins[j]
       PROVE  z = j
    <2>1. Len(Migrations) + z = Len(Migrations) + j
        BY <1>8, <1>11, <1>13
    <2> QED BY <1>2, <2>1
<1>14. ASSUME NEW z \in 1..Len(Migrations), NEW j \in 1..Len(Plugins), Migrations[z] = Plugins[j]
       PROVE  FALSE
    <2>1. z = Len(Migrations) + j
        BY <1>8, <1>10, <1>11, <1>14
    <2> QED BY <1>2, <2>1
<1>15. M \cap Create!Fixed = {} /\ F \cap Create!Fixed = {}
    BY <1>2, <1>10, <1>11 DEF Create!FilesIn
<1>16. Create!OnBranch = M \union F \union {"bind"} /\ "bind" \in Create!Fixed
    BY DEF Create!OnBranch, Create!Fixed
<1>17. Create!OnBranch \cap Create!Fixed = {"bind"}
    BY <1>15, <1>16
<1> HIDE DEF M, F
<1> QED BY <1>4, <1>6, <1>7, <1>10, <1>11, <1>12, <1>13, <1>14, <1>16, <1>17

\* The files of a run: all of a kind, or none.
LEMMA ChosenAre ==
    ASSUME Create!Assumptions, NEW m \in {<<>>, Migrations}, NEW f \in {<<>>, Plugins}
    PROVE  /\ m \in Seq(Steps) /\ f \in Seq(Steps) /\ Len(m) \in Nat /\ Len(f) \in Nat
           /\ \A z \in 1..Len(m) : m[z] \in Create!OnBranch /\ m[z] \notin Create!Fixed
           /\ \A z \in 1..Len(f) : f[z] \in Create!OnBranch /\ f[z] \notin Create!Fixed
           /\ \A z, j \in 1..Len(m) : m[z] = m[j] => z = j
           /\ \A z, j \in 1..Len(f) : f[z] = f[j] => z = j
           /\ \A z \in 1..Len(m), j \in 1..Len(f) : m[z] # f[j]
<1>1. <<>> \in Seq(Steps) /\ Len(<<>>) = 0 /\ 1..0 = {}
    OBVIOUS
<1>2. /\ Migrations \in Seq(Steps) /\ Plugins \in Seq(Steps)
      /\ Len(Migrations) \in Nat /\ Len(Plugins) \in Nat
    BY FilesAre
<1>3. CASE m = <<>> /\ f = <<>>
    BY <1>1, <1>3
<1>4. CASE m = <<>> /\ f = Plugins
    BY <1>1, <1>2, <1>4, FilesAre
<1>5. CASE m = Migrations /\ f = <<>>
    BY <1>1, <1>2, <1>5, FilesAre
<1>6. CASE m = Migrations /\ f = Plugins
    BY <1>2, <1>6, FilesAre
<1> QED BY <1>3, <1>4, <1>5, <1>6

\* What is written, one by one.
IsWritten(u, m, f, n) ==
    /\ Len(u) = n + 5
    /\ u[1] = "upload" /\ u[2] = "project" /\ u[3] = "workspace"
    /\ \A z \in 1..Len(m) : u[3 + z] = m[z]
    /\ \A z \in 1..Len(f) : u[3 + Len(m) + z] = f[z]
    /\ u[n + 4] = "bind" /\ u[n + 5] = "deploy"

NothingTwice(u, n) == \A z, j \in 1..n + 5 : u[z] = u[j] => z = j

\* Nothing is written twice.
LEMMA WrittenIs ==
    ASSUME Create!Assumptions, NEW m \in {<<>>, Migrations}, NEW f \in {<<>>, Plugins},
           NEW u, u = Written(m, f), NEW n, n = Len(m) + Len(f)
    PROVE  u \in Seq(Steps) /\ IsWritten(u, m, f, n) /\ NothingTwice(u, n)
<1>1. PICK x, y : x = <<"upload", "project", "workspace">> /\ y = <<"bind", "deploy">>
    OBVIOUS
<1>2. /\ x \in Seq(Steps) /\ Len(x) = 3 /\ x[1] = "upload" /\ x[2] = "project" /\ x[3] = "workspace"
      /\ y \in Seq(Steps) /\ Len(y) = 2 /\ y[1] = "bind" /\ y[2] = "deploy"
    BY <1>1 DEF Steps, Create!Fixed
<1>0. m \in Seq(Steps) /\ f \in Seq(Steps)
    BY ChosenAre
<1>3. Len(m) \in Nat /\ Len(f) \in Nat /\ n \in Nat
    BY <1>0
<1>4. u = x \o m \o f \o y
    BY <1>1 DEF Written
<1>6. /\ u \in Seq(Steps) /\ Len(u) = 3 + n + 2
      /\ \A z \in 1..3 : u[z] = x[z]
      /\ \A z \in 1..Len(m) : u[3 + z] = m[z]
      /\ \A z \in 1..Len(f) : u[3 + Len(m) + z] = f[z]
      /\ \A z \in 1..2 : u[3 + n + z] = y[z]
    <2>1. u \in Seq(Steps) /\ IsFour(u, x, m, f, y)
        <3>1. x \in Seq(Steps) /\ y \in Seq(Steps)
            BY <1>2
        <3> QED BY <1>0, <1>4, <3>1, FourJoined, Zenon
    <2> QED BY <1>2, <2>1 DEF IsFour
<1>7. u[1] = "upload" /\ u[2] = "project" /\ u[3] = "workspace"
    BY <1>2, <1>6
<1>8. Len(u) = n + 5 /\ u[n + 4] = "bind" /\ u[n + 5] = "deploy"
    <2>1. u[3 + n + 1] = "bind" /\ u[3 + n + 2] = "deploy"
        BY <1>2, <1>6
    <2>2. 3 + n + 1 = n + 4 /\ 3 + n + 2 = n + 5
        BY <1>3
    <2> QED BY <1>6, <2>1, <2>2
<1>9. ASSUME NEW z \in 1..n + 5
      PROVE  \/ z = 1 /\ u[z] = "upload"
             \/ z = 2 /\ u[z] = "project"
             \/ z = 3 /\ u[z] = "workspace"
             \/ z = n + 4 /\ u[z] = "bind"
             \/ z = n + 5 /\ u[z] = "deploy"
             \/ \E k \in 1..Len(m) : z = 3 + k /\ u[z] = m[k]
             \/ \E k \in 1..Len(f) : z = 3 + Len(m) + k /\ u[z] = f[k]
    <2>1. CASE z \in {1, 2, 3, n + 4, n + 5}
        BY <1>7, <1>8, <2>1
    <2>2. CASE z > 3 /\ z <= 3 + Len(m)
        <3>1. PICK k : k = z - 3
            OBVIOUS
        <3>2. k \in 1..Len(m) /\ z = 3 + k
            BY <1>3, <2>2, <3>1
        <3> QED BY <1>6, <3>2
    <2>3. CASE z > 3 + Len(m) /\ z <= 3 + n
        <3>1. PICK k : k = z - 3 - Len(m)
            OBVIOUS
        <3>2. k \in 1..Len(f) /\ z = 3 + Len(m) + k
            BY <1>3, <2>3, <3>1
        <3> QED BY <1>6, <3>2
    <2>4. \/ z \in {1, 2, 3, n + 4, n + 5}
          \/ z > 3 /\ z <= 3 + Len(m)
          \/ z > 3 + Len(m) /\ z <= 3 + n
        BY <1>3
    <2> QED BY <2>1, <2>2, <2>3, <2>4
<1>10. /\ \A k \in 1..Len(m) : m[k] \notin {"upload", "project", "workspace", "bind", "deploy"}
       /\ \A k \in 1..Len(f) : f[k] \notin {"upload", "project", "workspace", "bind", "deploy"}
    BY ChosenAre DEF Create!Fixed
<1>11. ASSUME NEW z \in 1..n + 5, NEW j \in 1..n + 5, u[z] = u[j] PROVE z = j
    <2>1. CASE u[z] \in {"upload", "project", "workspace", "bind", "deploy"}
        BY <1>9, <1>10, <1>11, <2>1
    <2>2. ASSUME NEW k \in 1..Len(m), z = 3 + k, u[z] = m[k] PROVE z = j
        <3>1. \A l \in 1..Len(f) : u[j] # f[l]
            BY <1>11, <2>2, ChosenAre
        <3>2. u[j] \notin {"upload", "project", "workspace", "bind", "deploy"}
            BY <1>10, <1>11, <2>2
        <3>3. PICK l \in 1..Len(m) : j = 3 + l /\ u[j] = m[l]
            BY <1>9, <3>1, <3>2
        <3>4. k = l
            BY <1>11, <2>2, <3>3, ChosenAre
        <3> QED BY <2>2, <3>3, <3>4
    <2>3. ASSUME NEW k \in 1..Len(f), z = 3 + Len(m) + k, u[z] = f[k] PROVE z = j
        <3>1. \A l \in 1..Len(m) : u[j] # m[l]
            BY <1>11, <2>3, ChosenAre
        <3>2. u[j] \notin {"upload", "project", "workspace", "bind", "deploy"}
            BY <1>10, <1>11, <2>3
        <3>3. PICK l \in 1..Len(f) : j = 3 + Len(m) + l /\ u[j] = f[l]
            BY <1>9, <3>1, <3>2
        <3>4. k = l
            BY <1>11, <2>3, <3>3, ChosenAre
        <3> QED BY <2>3, <3>3, <3>4
    <2> QED BY <1>9, <2>1, <2>2, <2>3
<1> QED BY <1>6, <1>7, <1>8, <1>11 DEF IsWritten, NothingTwice

\* The step after k steps of plan p, which writes u.
Comes(p, u, a, n, k) ==
    LET h == p[k + 1]
        w == WritesIn(a, n, k)
        Writes == h = u[w + 1] /\ w < n + 5 /\ WritesIn(a, n, k + 1) = w + 1
        NoWrite == WritesIn(a, n, k + 1) = w
    IN  \/ k < a + 2 /\ h \in {"ask", "aidap", "pages"} /\ NoWrite /\ w = 0
        \/ k \in a + 2..a + 4 /\ h \in {"upload", "project", "workspace"} /\ Writes
        \/ k = a + 5 /\ h = "ready" /\ NoWrite /\ w = 3
        \/ k \in a + 6..a + n + 7 /\ h \in Create!OnBranch \union {"deploy"} /\ Writes
        \/ k = a + n + 8 /\ h = "live" /\ NoWrite /\ w = n + 5
        \/ k = a + n + 9 /\ h = "binding" /\ NoWrite /\ w = n + 5

\* A plan with n files: its steps, one by one.
IsPlan(p, q, m, f, n) ==
    /\ p \in Seq(Steps) /\ n \in Nat /\ Len(q) \in {0, 1} /\ Len(p) = Len(q) + n + 10
    /\ Len(Written(m, f)) = n + 5
    /\ \A k \in 0..Len(p) - 1 : Comes(p, Written(m, f), Len(q), n, k)

\* Every plan is one.
LEMMA PlanIs ==
    ASSUME Create!Assumptions, NEW q \in {<<>>, <<"ask">>},
           NEW m \in {<<>>, Migrations}, NEW f \in {<<>>, Plugins},
           NEW p, p = Create!Plan(q, m, f), NEW n, n = Len(m) + Len(f)
    PROVE  IsPlan(p, q, m, f, n)
<1>1. PICK x, s, y, a, u :
         /\ s = <<"aidap", "pages", "upload", "project", "workspace", "ready">>
         /\ x = q \o s /\ y = <<"bind", "deploy", "live", "binding">> /\ a = Len(q)
         /\ u = Written(m, f)
    OBVIOUS
<1>2. m \in Seq(Steps) /\ f \in Seq(Steps) /\ Len(m) \in Nat /\ Len(f) \in Nat
    BY ChosenAre
<1>3. n \in Nat
    BY <1>2
<1>4. q \in Seq(Steps) /\ a \in {0, 1} /\ \A z \in 1..a : q[z] = "ask"
    <2>1. <<>> \in Seq(Steps) /\ Len(<<>>) = 0
        OBVIOUS
    <2>2. "ask" \in Steps
        BY DEF Steps, Create!Fixed
    <2>3. <<"ask">> \in Seq(Steps) /\ Len(<<"ask">>) = 1 /\ <<"ask">>[1] = "ask"
        BY <2>2
    <2>4. CASE q = <<>>
        BY <1>1, <2>1, <2>4
    <2>5. CASE q = <<"ask">>
        BY <1>1, <2>3, <2>5
    <2> QED BY <2>4, <2>5
<1>5. /\ s \in Seq(Steps) /\ Len(s) = 6 /\ s[1] = "aidap" /\ s[2] = "pages" /\ s[3] = "upload"
      /\ s[4] = "project" /\ s[5] = "workspace" /\ s[6] = "ready"
    BY <1>1 DEF Steps, Create!Fixed
<1>6. /\ y \in Seq(Steps) /\ Len(y) = 4 /\ y[1] = "bind" /\ y[2] = "deploy" /\ y[3] = "live"
      /\ y[4] = "binding"
    BY <1>1 DEF Steps, Create!Fixed
<1>7. /\ x \in Seq(Steps) /\ Len(x) = a + 6
      /\ \A z \in 1..a : x[z] = "ask"
      /\ \A z \in 1..6 : x[a + z] = s[z]
    <2>1. /\ x \in Seq(Steps) /\ Len(x) = Len(q) + Len(s)
          /\ \A z \in 1..Len(q) : x[z] = q[z]
          /\ \A z \in 1..Len(s) : x[Len(q) + z] = s[z]
        BY <1>1, <1>4, <1>5, JoinedIs
    <2> QED BY <1>1, <1>4, <1>5, <2>1
<1>8. p = x \o m \o f \o y
    BY <1>1 DEF Create!Plan
<1>9. p \in Seq(Steps) /\ IsFour(p, x, m, f, y)
    <2>1. x \in Seq(Steps) /\ y \in Seq(Steps)
        BY <1>6, <1>7
    <2> QED BY <1>2, <1>8, <2>1, FourJoined
<1>10. /\ Len(p) = a + n + 10
       /\ \A z \in 1..a + 6 : p[z] = x[z]
       /\ \A z \in 1..Len(m) : p[a + 6 + z] = m[z]
       /\ \A z \in 1..Len(f) : p[a + 6 + Len(m) + z] = f[z]
       /\ \A z \in 1..4 : p[a + 6 + n + z] = y[z]
    BY <1>2, <1>3, <1>4, <1>6, <1>7, <1>9 DEF IsFour
<1>11. /\ u \in Seq(Steps) /\ Len(u) = n + 5
       /\ u[1] = "upload" /\ u[2] = "project" /\ u[3] = "workspace"
       /\ \A z \in 1..Len(m) : u[3 + z] = m[z]
       /\ \A z \in 1..Len(f) : u[3 + Len(m) + z] = f[z]
       /\ u[n + 4] = "bind" /\ u[n + 5] = "deploy"
    <2>1. u \in Seq(Steps) /\ IsWritten(u, m, f, n)
        BY <1>1, WrittenIs
    <2> QED BY <2>1 DEF IsWritten
<1>14. Len(p) = a + n + 10
    BY <1>10
<1>15. Len(m) \in Nat /\ Len(f) \in Nat /\ n = Len(m) + Len(f) /\ n \in Nat /\ a \in Nat
    BY <1>2, <1>3, <1>4
<1>13. /\ \A z \in 1..Len(m) : m[z] \in Create!OnBranch
       /\ \A z \in 1..Len(f) : f[z] \in Create!OnBranch
    BY ChosenAre
<1>12. ASSUME NEW k \in 0..Len(p) - 1 PROVE Comes(p, u, a, n, k)
    <2>0. k \in Nat /\ a \in Nat /\ k <= a + n + 9
        BY <1>14, <1>15
    <2>1. CASE k < a + 2
        <3>0. k + 1 \in 1..a + 6
            BY <2>0, <2>1
        <3>1. p[k + 1] = x[k + 1]
            BY <1>10, <3>0
        <3>2. x[k + 1] \in {"ask", "aidap", "pages"}
            <4>1. k + 1 \in 1..a \/ k + 1 = a + 1 \/ k + 1 = a + 2
                BY <2>0, <2>1
            <4> QED BY <1>5, <1>7, <4>1
        <3>3. WritesIn(a, n, k) = 0 /\ WritesIn(a, n, k + 1) = 0
            BY <2>0, <2>1 DEF WritesIn
        <3> QED BY <2>1, <3>1, <3>2, <3>3 DEF Comes
    <2>2. CASE k \in a + 2..a + 4
        <3>1. WritesIn(a, n, k) = k - a - 2 /\ WritesIn(a, n, k + 1) = k - a - 1
            BY <2>0, <2>2 DEF WritesIn
        <3>2. PICK z \in 1..3 : z = k - a - 1
            BY <2>0, <2>2
        <3>3. k + 1 = a + (z + 2) /\ z + 2 \in 1..6 /\ k + 1 \in 1..a + 6
            BY <2>0, <2>2, <3>2
        <3>4. p[k + 1] = s[z + 2]
            <4>1. p[k + 1] = x[k + 1]
                BY <1>10, <3>3
            <4>2. x[a + (z + 2)] = s[z + 2]
                BY <1>7, <3>3
            <4> QED BY <3>3, <4>1, <4>2
        <3>5. s[z + 2] = u[z] /\ u[z] \in {"upload", "project", "workspace"}
            BY SMTT(60), <1>5, <1>11, <3>2
        <3>6. /\ WritesIn(a, n, k) + 1 = z /\ WritesIn(a, n, k + 1) = WritesIn(a, n, k) + 1
              /\ WritesIn(a, n, k) < n + 5
            BY <1>3, <2>0, <3>1, <3>2
        <3> QED BY <2>2, <3>4, <3>5, <3>6 DEF Comes
    <2>3. CASE k = a + 5
        <3>1. WritesIn(a, n, k) = 3 /\ WritesIn(a, n, k + 1) = 3
            BY <2>0, <2>3 DEF WritesIn
        <3>2. p[k + 1] = "ready"
            BY <1>5, <1>7, <1>10, <2>0, <2>3
        <3> QED BY <2>3, <3>1, <3>2 DEF Comes
    <2>4. CASE k \in a + 6..a + n + 7
        <3>1. PICK z \in Nat : z = k - a - 5
            BY <2>0, <2>4
        <3>2. k + 1 = a + 6 + z /\ z \in 1..n + 2
            BY <1>3, <2>0, <2>4, <3>1
        <3>3. /\ WritesIn(a, n, k) + 1 = 3 + z
              /\ WritesIn(a, n, k + 1) = WritesIn(a, n, k) + 1
              /\ WritesIn(a, n, k) < n + 5
            BY <1>3, <2>0, <3>2 DEF WritesIn
        <3>4. p[k + 1] = u[3 + z] /\ u[3 + z] \in Create!OnBranch \union {"deploy"}
            <4>1. CASE z <= Len(m)
                <5>0. z \in 1..Len(m)
                    BY <1>2, <3>2, <4>1
                <5>1. p[a + 6 + z] = m[z]
                    BY <1>10, <5>0
                <5>3. u[3 + z] = m[z]
                    BY <1>11, <5>0
                <5>2. m[z] \in Create!OnBranch
                    BY <1>13, <5>0
                <5> QED BY <3>2, <5>1, <5>2, <5>3
            <4>2. CASE z > Len(m) /\ z <= n
                <5>0. z - Len(m) \in 1..Len(f)
                    BY <1>15, <3>2, <4>2
                <5>1. PICK j \in 1..Len(f) : j = z - Len(m)
                    BY <5>0
                <5>2. a + 6 + Len(m) + j = k + 1 /\ 3 + Len(m) + j = 3 + z
                    BY <1>15, <2>0, <3>2, <5>1
                <5>3. p[a + 6 + Len(m) + j] = f[j] /\ u[3 + Len(m) + j] = f[j]
                    <6>1. p[a + 6 + Len(m) + j] = f[j]
                        BY <1>10
                    <6>2. u[3 + Len(m) + j] = f[j]
                        BY <1>11
                    <6> QED BY <6>1, <6>2
                <5>4. f[j] \in Create!OnBranch
                    BY <1>13
                <5> QED BY <5>2, <5>3, <5>4
            <4>3. CASE z = n + 1
                <5>1. p[a + 6 + n + 1] = "bind" /\ u[n + 4] = "bind"
                    BY <1>6, <1>10, <1>11
                <5>2. a + 6 + n + 1 = k + 1 /\ n + 4 = 3 + z
                    BY <1>3, <2>0, <3>2, <4>3
                <5> QED BY <5>1, <5>2 DEF Create!OnBranch
            <4>4. CASE z = n + 2
                <5>1. p[a + 6 + n + 2] = "deploy" /\ u[n + 5] = "deploy"
                    BY <1>6, <1>10, <1>11
                <5>2. a + 6 + n + 2 = k + 1 /\ n + 5 = 3 + z
                    BY <1>3, <2>0, <3>2, <4>4
                <5> QED BY <5>1, <5>2
            <4> QED BY <1>2, <1>3, <3>2, <4>1, <4>2, <4>3, <4>4
        <3> QED BY <2>4, <3>3, <3>4 DEF Comes
    <2>5. CASE k = a + n + 8
        <3>1. WritesIn(a, n, k) = n + 5 /\ WritesIn(a, n, k + 1) = n + 5
            BY <1>3, <2>0, <2>5 DEF WritesIn
        <3>2. a + 6 + n + 3 = k + 1
            BY <1>3, <2>0, <2>5
        <3>3. p[k + 1] = "live"
            BY <1>6, <1>10, <3>2
        <3> QED BY <2>5, <3>1, <3>3 DEF Comes
    <2>6. CASE k = a + n + 9
        <3>1. WritesIn(a, n, k) = n + 5 /\ WritesIn(a, n, k + 1) = n + 5
            BY <1>3, <2>0, <2>6 DEF WritesIn
        <3>2. a + 6 + n + 4 = k + 1
            BY <1>3, <2>0, <2>6
        <3>3. p[k + 1] = "binding"
            BY <1>6, <1>10, <3>2
        <3> QED BY <2>6, <3>1, <3>3 DEF Comes
    <2> QED BY <1>3, <2>0, <2>1, <2>2, <2>3, <2>4, <2>5, <2>6
<1> QED BY <1>1, <1>3, <1>4, <1>9, <1>10, <1>11, <1>12 DEF IsPlan

\* Which steps write, and which are on the branch.
LEMMA StepsAre ==
    ASSUME Create!Assumptions
    PROVE  /\ {"upload", "project", "workspace"} \cap Create!OnBranch = {}
           /\ {"ask", "aidap", "pages", "ready", "live", "binding"} \cap Create!Writes = {}
           /\ Create!OnBranch \union {"deploy"} \subseteq Create!Writes
           /\ {"upload", "project", "workspace"} \subseteq Create!Writes
<1>1. Create!OnBranch \cap Create!Fixed = {"bind"}
    BY FilesAre
<1> QED BY <1>1 DEF Create!Fixed, Create!Writes

\* The first step of what is left of a plan, and the rest.
IsNext(p, u, a, n, k, t) ==
    /\ k \in 0..Len(p) - 1 /\ Head(todo) = p[k + 1] /\ Comes(p, u, a, n, k)
    /\ t \in Seq(Steps) /\ k + 1 \in 0..Len(p) /\ Len(t) = Len(p) - (k + 1)
    /\ \A z \in 1..Len(t) : t[z] = p[(k + 1) + z]

\* There is one as long as anything is left.
LEMMA NextComes ==
    ASSUME Create!Assumptions, NEW q \in {<<>>, <<"ask">>},
           NEW m \in {<<>>, Migrations}, NEW f \in {<<>>, Plugins}, NEW k,
           NEW p, p = Create!Plan(q, m, f), NEW n, n = Len(m) + Len(f), NEW t, t = Tail(todo),
           After(q, m, f, k), todo \in Seq(Steps), todo # <<>>
    PROVE  IsNext(p, Written(m, f), Len(q), n, k, t)
<1>1. /\ p \in Seq(Steps) /\ Len(p) \in Nat
      /\ \A z \in 0..Len(p) - 1 : Comes(p, Written(m, f), Len(q), n, z)
    <2>1. IsPlan(p, q, m, f, n)
        BY PlanIs
    <2> QED BY <2>1 DEF IsPlan
<1>2. k \in 0..Len(p) /\ Len(todo) = Len(p) - k /\ \A z \in 1..Len(todo) : todo[z] = p[k + z]
    BY DEF After
<1>3. /\ Head(todo) = todo[1] /\ Len(todo) \in Nat /\ Len(todo) > 0 /\ t \in Seq(Steps)
      /\ Len(t) = Len(todo) - 1 /\ \A z \in 1..Len(t) : t[z] = todo[z + 1]
    OBVIOUS
<1>4. k \in 0..Len(p) - 1 /\ k + 1 \in 0..Len(p) /\ Len(t) = Len(p) - (k + 1)
    BY <1>1, <1>2, <1>3
<1>5. Head(todo) = p[k + 1]
    BY <1>2, <1>3
<1>6. ASSUME NEW z \in 1..Len(t) PROVE t[z] = p[(k + 1) + z]
    <2>1. z + 1 \in 1..Len(todo)
        BY <1>3
    <2>2. k + (z + 1) = (k + 1) + z
        BY <1>4
    <2>3. t[z] = todo[z + 1] /\ todo[z + 1] = p[k + (z + 1)]
        BY <1>2, <1>3, <2>1
    <2> QED BY <2>2, <2>3
<1> QED BY <1>1, <1>3, <1>4, <1>5, <1>6 DEF IsNext

\* A plan that is over has written all.
LEMMA PlanIsOver ==
    ASSUME Create!Assumptions, NEW q \in {<<>>, <<"ask">>},
           NEW m \in {<<>>, Migrations}, NEW f \in {<<>>, Plugins}, NEW k,
           After(q, m, f, k), todo = <<>>
    PROVE  own = "success" /\ Len(log) = Len(Written(m, f))
<1>1. PICK p, n : p = Create!Plan(q, m, f) /\ n = Len(m) + Len(f)
    OBVIOUS
<1>2. /\ n \in Nat /\ Len(q) \in {0, 1} /\ Len(p) = Len(q) + n + 10 /\ Len(Written(m, f)) = n + 5
    <2>1. IsPlan(p, q, m, f, n)
        BY <1>1, PlanIs
    <2> QED BY <2>1 DEF IsPlan
<1>3. /\ k \in 0..Len(p) /\ Len(todo) = Len(p) - k /\ Len(log) = WritesIn(Len(q), n, k)
      /\ k >= Len(q) + n + 9 => own = "success"
    BY <1>1 DEF After
<1>4. Len(todo) = 0
    OBVIOUS
<1>5. k = Len(q) + n + 10
    BY <1>2, <1>3, <1>4
<1>6. WritesIn(Len(q), n, k) = n + 5
    BY <1>2, <1>5 DEF WritesIn
<1> QED BY <1>2, <1>3, <1>5, <1>6

\* A run begins with its plan.
LEMMA CreateInvInit == ASSUME Create!Assumptions PROVE Create!Init => CreateInv
<1> SUFFICES ASSUME Create!Init PROVE CreateInv
    OBVIOUS
<1>1. PICK q \in {<<>>, <<"ask">>}, m \in {<<>>, Migrations}, f \in {<<>>, Plugins} :
          todo = Create!Plan(q, m, f)
    BY DEF Create!Init
<1>2. PICK p, n : p = todo /\ n = Len(m) + Len(f)
    OBVIOUS
<1>3. /\ p \in Seq(Steps) /\ n \in Nat /\ Len(q) \in {0, 1} /\ Len(p) \in Nat
      /\ Len(p) = Len(q) + n + 10 /\ Len(Written(m, f)) = n + 5
    <2>1. IsPlan(p, q, m, f, n)
        BY <1>1, <1>2, PlanIs
    <2> QED BY <2>1 DEF IsPlan
<1>4. log = <<>> /\ branch = None /\ outcome = "none" /\ tick = 0 /\ newer = 0
    BY DEF Create!Init
<1>5. Create!TypeOK
    <2>1. tick \in 0..Ticks /\ newer \in 0..Window
        BY <1>4 DEF Create!Assumptions
    <2>2. roles \subseteq Create!Roles /\ running \in BOOLEAN /\ default \in Branches /\ ready = {}
          /\ own = "none"
        BY DEF Create!Init
    <2>3. DOMAIN log = {}
        BY <1>4
    <2> QED BY <1>4, <2>1, <2>2, <2>3 DEF Create!TypeOK
<1>6. Len(log) = 0 /\ log \in Seq(Entry)
    BY <1>4
<1>7. After(q, m, f, 0)
    <2>1. WritesIn(Len(q), n, 0) = 0 /\ ~(0 >= Len(q) + 6) /\ ~(0 >= Len(q) + n + 9)
        BY <1>3 DEF WritesIn
    <2>2. 0 \in 0..Len(p) /\ Len(todo) = Len(p) - 0 /\ \A z \in 1..Len(todo) : todo[z] = p[0 + z]
        BY <1>2, <1>3
    <2> QED BY <1>1, <1>2, <1>6, <2>1, <2>2 DEF After
<1>8. Logged(m, f)
    BY <1>3, <1>6 DEF Logged
<1>9. Planned
    BY <1>4, <1>7, <1>8 DEF Planned
<1>10. LogInv
    BY <1>6 DEF LogInv
<1> QED BY <1>2, <1>3, <1>4, <1>5, <1>6, <1>9, <1>10 DEF CreateInv

\* A step that writes nothing.
LEMMA QuietKeeps ==
    ASSUME Create!Assumptions, CreateInv, outcome = "none", todo # <<>>,
           Head(todo) \in {"ask", "aidap", "pages", "ready", "live", "binding"},
           todo' = Tail(todo), outcome' = outcome, log' = log, ready' = ready, own' = own,
           IF Head(todo) = "ready" THEN branch' \in ready ELSE branch' = branch,
           Head(todo) = "live" => own = "success",
           Create!TypeOK'
    PROVE  CreateInv'
<1>1a. PICK q \in {<<>>, <<"ask">>}, m \in {<<>>, Migrations}, f \in {<<>>, Plugins} :
         Logged(m, f) /\ \E k : After(q, m, f, k)
    BY DEF CreateInv, Planned
<1>1. PICK k : Logged(m, f) /\ After(q, m, f, k)
    BY <1>1a
<1>2. PICK p, n, a, u, t :
         /\ p = Create!Plan(q, m, f) /\ n = Len(m) + Len(f) /\ a = Len(q) /\ u = Written(m, f)
         /\ t = Tail(todo)
    OBVIOUS
<1>3. todo \in Seq(Steps) /\ log \in Seq(Entry) /\ LogInv /\ Create!TypeOK
    BY DEF CreateInv
<1>4. /\ k \in 0..Len(p) - 1 /\ Head(todo) = p[k + 1] /\ Comes(p, u, a, n, k)
      /\ t \in Seq(Steps) /\ k + 1 \in 0..Len(p) /\ Len(t) = Len(p) - (k + 1)
      /\ \A z \in 1..Len(t) : t[z] = p[(k + 1) + z]
    <2>1. IsNext(p, Written(m, f), Len(q), n, k, t)
        BY <1>1, <1>2, <1>3, NextComes
    <2> QED BY <1>2, <2>1 DEF IsNext
<1>5. p \in Seq(Steps) /\ n \in Nat /\ a \in {0, 1} /\ Len(p) = a + n + 10 /\ Len(u) = n + 5
    <2>1. IsPlan(p, q, m, f, n)
        BY <1>2, PlanIs
    <2> QED BY <1>2, <2>1 DEF IsPlan
<1>6. p[k + 1] \notin Create!OnBranch \union {"deploy", "upload", "project", "workspace"}
    BY <1>4, StepsAre DEF Create!Writes
<1>7. /\ WritesIn(a, n, k + 1) = WritesIn(a, n, k)
      /\ \/ k < a + 2 /\ p[k + 1] \in {"ask", "aidap", "pages"}
         \/ k = a + 5 /\ p[k + 1] = "ready" /\ WritesIn(a, n, k) = 3
         \/ k = a + n + 8 /\ p[k + 1] = "live"
         \/ k = a + n + 9 /\ p[k + 1] = "binding"
    BY <1>4, <1>6 DEF Comes
<1>8. /\ Len(log) = WritesIn(a, n, k) /\ (k >= a + 6 => branch \in ready)
      /\ (k >= a + n + 9 => own = "success")
    BY <1>1, <1>2 DEF After
<1>9. k + 1 >= a + 6 => branch' \in ready
    <2>1. CASE k = a + 5
        BY <1>4, <1>7, <2>1, <1>5
    <2>2. CASE k # a + 5
        <3>1. p[k + 1] # "ready"
            BY <1>7, <2>2
        <3>2. branch' = branch
            BY <1>4, <3>1
        <3>3. k + 1 >= a + 6 => k >= a + 6
            BY <1>4, <1>5, <2>2
        <3> QED BY <1>8, <3>2, <3>3
    <2> QED BY <2>1, <2>2
<1>10. k + 1 >= a + n + 9 => own = "success"
    <2>1. CASE k = a + n + 8
        <3>1. p[k + 1] = "live"
            BY <1>5, <1>7, <2>1
        <3> QED BY <1>4, <3>1
    <2>2. CASE k # a + n + 8
        <3>1. k + 1 >= a + n + 9 => k >= a + n + 9
            BY <1>4, <1>5, <2>2
        <3> QED BY <1>8, <3>1
    <2> QED BY <2>1, <2>2
<1>11. After(q, m, f, k + 1)'
    <2>1. todo' = t
        BY <1>2
    <2>2. Len(log') = WritesIn(a, n, k + 1)
        BY <1>7, <1>8
    <2> QED BY <1>2, <1>4, <1>9, <1>10, <2>1, <2>2 DEF After
<1>12. Planned'
    BY <1>1, <1>11 DEF Planned, Logged
<1>13. LogInv'
    <2>1. CASE Head(todo) # "ready"
        BY <1>3, <2>1 DEF LogInv
    <2>2. CASE Head(todo) = "ready"
        <3>1. k = a + 5 /\ Len(log) = 3
            BY <1>4, <1>7, <1>8, <2>2
        <3>2. IsWritten(u, m, f, n)
            BY <1>2, WrittenIs
        <3>3. ASSUME NEW z \in 1..Len(log) PROVE log[z].op \notin Create!OnBranch
            <4>1. log[z].op = u[z] /\ z \in {1, 2, 3}
                BY <1>1, <1>2, <3>1 DEF Logged
            <4>2. u[z] \in {"upload", "project", "workspace"}
                BY <3>2, <4>1 DEF IsWritten
            <4> QED BY <4>1, <4>2, StepsAre
        <3> QED BY <3>3 DEF LogInv
    <2> QED BY <2>1, <2>2
<1> QED BY <1>2, <1>3, <1>4, <1>12, <1>13 DEF CreateInv

\* A step that ends the run, or waits.
LEMMA StayKeeps ==
    ASSUME Create!Assumptions, CreateInv, outcome = "none",
           todo' = todo, log' = log, ready' = ready, own' = own, branch' = branch,
           outcome' \in {"cancelled", "refused"} =>
               todo # <<>> /\ Head(todo) \in {"ask", "aidap", "pages"},
           outcome' = "ok" => todo = <<>>,
           Create!TypeOK'
    PROVE  CreateInv'
<1>1a. PICK q \in {<<>>, <<"ask">>}, m \in {<<>>, Migrations}, f \in {<<>>, Plugins} :
         Logged(m, f) /\ \E k : After(q, m, f, k)
    BY DEF CreateInv, Planned
<1>1. PICK k : Logged(m, f) /\ After(q, m, f, k)
    BY <1>1a
<1>2. todo \in Seq(Steps) /\ log \in Seq(Entry) /\ LogInv
    BY DEF CreateInv
<1>3. Planned'
    <2>1. Logged(m, f)' /\ After(q, m, f, k)'
        BY <1>1 DEF Logged, After
    <2>2. outcome' = "ok" => own' = "success" /\ Len(log') = Len(Written(m, f))
        BY <1>1, PlanIsOver
    <2> QED BY <2>1, <2>2 DEF Planned
<1>4. LogInv'
    BY <1>2 DEF LogInv
<1>5. ASSUME outcome' \in {"cancelled", "refused"} PROVE log = <<>>
    <2>1. PICK p, n, t : p = Create!Plan(q, m, f) /\ n = Len(m) + Len(f) /\ t = Tail(todo)
        OBVIOUS
    <2>2. Head(todo) = p[k + 1] /\ Comes(p, Written(m, f), Len(q), n, k)
        <3>1. IsNext(p, Written(m, f), Len(q), n, k, t)
            BY <1>1, <1>2, <1>5, <2>1, NextComes
        <3> QED BY <3>1 DEF IsNext
    <2>3. p[k + 1] \notin Create!OnBranch \union {"deploy", "upload", "project", "workspace"}
        BY <1>5, <2>2, StepsAre DEF Create!Writes
    <2>4. WritesIn(Len(q), n, k) = 0
        BY <1>5, <2>2, <2>3 DEF Comes
    <2>5. Len(log) = 0
        BY <1>1, <2>1, <2>4 DEF After
    <2> QED BY <1>2, <2>5
<1> QED BY <1>2, <1>3, <1>4, <1>5 DEF CreateInv

\* A write of the command reaches the service, is lost, or is refused.
LEMMA WriteKeeps ==
    ASSUME Create!Assumptions, CreateInv, Create!WriteStep
    PROVE  CreateInv'
<1>0. /\ outcome = "none" /\ todo # <<>> /\ Head(todo) \in Create!Writes
      /\ UNCHANGED <<roles, running, default, ready, newer, branch, tick>>
    BY DEF Create!WriteStep
<1>1. todo \in Seq(Steps) /\ log \in Seq(Entry) /\ LogInv /\ Create!TypeOK
    BY DEF CreateInv
<1>2. CASE Create!Stop("error") /\ UNCHANGED <<log, own>>
    <2>1. Create!TypeOK'
        BY <1>0, <1>1, <1>2 DEF Create!TypeOK, Create!Stop
    <2> QED BY <1>0, <1>2, <2>1, StayKeeps DEF Create!Stop
<1>3. ASSUME /\ log' = Append(log, [op |-> Head(todo),
                                   branch |-> IF Head(todo) \in Create!OnBranch
                                              THEN Create!WriteBranch ELSE None])
             /\ own' = IF Head(todo) = "deploy" THEN "pending" ELSE own
             /\ Create!Advance \/ Create!Lost
      PROVE  CreateInv'
    <2>1. PICK e : e = [op |-> Head(todo),
                       branch |-> IF Head(todo) \in Create!OnBranch THEN branch ELSE None]
        OBVIOUS
    <2>2. log' = Append(log, e)
        BY <1>3, <2>1 DEF Create!WriteBranch
    <2>3. e \in Entry /\ e.op = Head(todo) /\ (e.op \in Create!OnBranch => e.branch = branch)
        BY <1>0, <1>1, <2>1 DEF Entry, Create!TypeOK
    <2>4. log' \in Seq(Entry) /\ Len(log) \in Nat /\ Len(log') = Len(log) + 1
          /\ (\A z \in 1..Len(log) : log'[z] = log[z]) /\ log'[Len(log) + 1] = e
        BY <1>1, <2>2, <2>3
    <2>5a. PICK q \in {<<>>, <<"ask">>}, m \in {<<>>, Migrations}, f \in {<<>>, Plugins} :
             Logged(m, f) /\ \E k : After(q, m, f, k)
        BY <1>0 DEF CreateInv, Planned
    <2>5. PICK k : Logged(m, f) /\ After(q, m, f, k)
        BY <2>5a
    <2>6. PICK p, n, a, u, t :
             /\ p = Create!Plan(q, m, f) /\ n = Len(m) + Len(f) /\ a = Len(q) /\ u = Written(m, f)
             /\ t = Tail(todo)
        OBVIOUS
    <2>7. /\ k \in 0..Len(p) - 1 /\ Head(todo) = p[k + 1] /\ Comes(p, u, a, n, k)
          /\ t \in Seq(Steps) /\ k + 1 \in 0..Len(p) /\ Len(t) = Len(p) - (k + 1)
          /\ \A z \in 1..Len(t) : t[z] = p[(k + 1) + z]
        <3>1. IsNext(p, Written(m, f), Len(q), n, k, t)
            BY <1>0, <1>1, <2>5, <2>6, NextComes
        <3> QED BY <2>6, <3>1 DEF IsNext
    <2>8. n \in Nat /\ a \in {0, 1} /\ Len(p) = a + n + 10 /\ Len(u) = n + 5
        <3>1. IsPlan(p, q, m, f, n)
            BY <2>6, PlanIs
        <3> QED BY <2>6, <3>1 DEF IsPlan
    <2>9. p[k + 1] \notin {"ask", "aidap", "pages", "ready", "live", "binding"}
        BY <1>0, <2>7, StepsAre
    <2>10. PICK w : w = WritesIn(a, n, k)
        OBVIOUS
    <2>11. /\ p[k + 1] = u[w + 1] /\ w < n + 5 /\ WritesIn(a, n, k + 1) = w + 1
           /\ \/ k \in a + 2..a + 4 /\ p[k + 1] \in {"upload", "project", "workspace"}
              \/ k \in a + 6..a + n + 7
        BY <2>7, <2>9, <2>10 DEF Comes
    <2>12. Len(log) = w /\ (k >= a + 6 => branch \in ready) /\ (k >= a + n + 9 => own = "success")
        BY <2>5, <2>6, <2>10 DEF After
    <2>13. Logged(m, f)'
        <3>1. Len(log') <= Len(u)
            BY <2>4, <2>8, <2>11, <2>12
        <3>2. ASSUME NEW z \in 1..Len(log') PROVE log'[z].op = u[z]
            <4>1. CASE z \in 1..Len(log)
                BY <2>4, <2>5, <2>6, <4>1 DEF Logged
            <4>2. CASE z = Len(log) + 1
                BY <2>3, <2>4, <2>7, <2>11, <2>12, <4>2
            <4> QED BY <2>4, <4>1, <4>2
        <3> QED BY <2>6, <3>1, <3>2 DEF Logged
    <2>14. LogInv'
        <3>1. e.op \in Create!OnBranch => branch \in ready
            <4>1. k \in a + 2..a + 4 => e.op \notin Create!OnBranch
                BY <2>3, <2>7, <2>8, <2>11, StepsAre
            <4>2. k \in a + 6..a + n + 7 => k >= a + 6
                BY <2>8
            <4> QED BY <2>11, <2>12, <4>1, <4>2
        <3>2. ASSUME NEW z \in 1..Len(log'), log'[z].op \in Create!OnBranch
              PROVE  log'[z].branch = branch /\ branch \in ready
            <4>1. CASE z \in 1..Len(log)
                BY <1>1, <2>4, <3>2, <4>1 DEF LogInv
            <4>2. CASE z = Len(log) + 1
                BY <2>3, <2>4, <3>1, <3>2, <4>2
            <4> QED BY <2>4, <4>1, <4>2
        <3> QED BY <1>0, <3>2 DEF LogInv
    <2>15. outcome' \in {"none", "error"} /\ (outcome' = "none" => todo' = t)
           /\ (todo' = todo \/ todo' = t)
        BY <1>0, <1>3, <2>6 DEF Create!Advance, Create!Lost, Create!Stop
    <2>16. ASSUME outcome' = "none" PROVE After(q, m, f, k + 1)'
        <3>1. k + 1 >= a + 6 => branch \in ready
            <4>1. k + 1 >= a + 6 => k >= a + 6
                BY <2>8, <2>11
            <4> QED BY <2>12, <4>1
        <3>2. ~(k + 1 >= a + n + 9)
            BY <2>7, <2>8, <2>11
        <3>3. todo' = t /\ Len(log') = WritesIn(a, n, k + 1)
            BY <2>4, <2>11, <2>12, <2>15, <2>16
        <3> QED BY <1>0, <2>6, <2>7, <3>1, <3>2, <3>3 DEF After
    <2>17. Planned'
        BY <2>13, <2>15, <2>16 DEF Planned
    <2>18. Create!TypeOK'
        <3>1. own' \in {"none", "pending", "success", "failed"}
            BY <1>1, <1>3 DEF Create!TypeOK
        <3>2. \A z \in DOMAIN log' : log'[z] \in Entry
            BY <2>4
        <3> QED BY <1>0, <1>1, <2>15, <3>1, <3>2 DEF Create!TypeOK, Entry
    <2> QED BY <1>1, <2>4, <2>7, <2>14, <2>15, <2>17, <2>18 DEF CreateInv
<1> QED BY <1>2, <1>3 DEF Create!WriteStep

\* The other steps of the command.
LEMMA RunKeeps ==
    ASSUME Create!Assumptions, CreateInv, Create!Run
    PROVE  CreateInv'
<1>0. Create!TypeOK
    BY DEF CreateInv
<1>1. CASE Create!Ask
    <2>1. /\ outcome = "none" /\ todo # <<>> /\ Head(todo) = "ask"
          /\ UNCHANGED <<roles, running, default, ready, own, newer, branch, tick, log>>
          /\ \/ todo' = Tail(todo) /\ outcome' = outcome
             \/ todo' = todo /\ outcome' = "cancelled"
        BY <1>1 DEF Create!Ask, Create!At, Create!Advance, Create!Stop, Create!service
    <2>2. Create!TypeOK'
        BY <1>0, <2>1 DEF Create!TypeOK
    <2> QED BY <2>1, <2>2, QuietKeeps, StayKeeps
<1>2. CASE Create!CheckRole
    <2>1. /\ outcome = "none" /\ todo # <<>> /\ Head(todo) \in {"aidap", "pages"}
          /\ UNCHANGED <<roles, running, default, ready, own, newer, branch, tick, log>>
          /\ \/ todo' = Tail(todo) /\ outcome' = outcome
             \/ todo' = todo /\ outcome' = "refused"
        BY <1>2 DEF Create!CheckRole, Create!At, Create!Advance, Create!Stop, Create!service,
             Create!Roles
    <2>2. Create!TypeOK'
        BY <1>0, <2>1 DEF Create!TypeOK
    <2> QED BY <2>1, <2>2, QuietKeeps, StayKeeps
<1>3. CASE Create!WaitReady
    <2>1. /\ outcome = "none" /\ todo # <<>> /\ Head(todo) = "ready"
          /\ UNCHANGED <<roles, running, default, ready, own, newer, log>>
          /\ \/ /\ todo' = Tail(todo) /\ outcome' = outcome
                /\ branch' = default /\ default \in ready /\ tick' = 0
             \/ /\ todo' = todo /\ outcome' \in {"none", "error"} /\ branch' = branch
                /\ tick' \in {tick, tick + 1} /\ (tick' = tick + 1 => tick' = tick \/ tick < Ticks)
        BY <1>3 DEF Create!WaitReady, Create!At, Create!Advance, Create!Stop, Create!service,
             Create!Tick
    <2>2. tick' \in 0..Ticks
        BY <1>0, <2>1 DEF Create!TypeOK, Create!Assumptions
    <2>3. Create!TypeOK'
        BY <1>0, <2>1, <2>2 DEF Create!TypeOK
    <2> QED BY <2>1, <2>3, QuietKeeps, StayKeeps
<1>4. CASE Create!WaitLive
    <2>1. /\ outcome = "none" /\ todo # <<>> /\ Head(todo) = "live"
          /\ UNCHANGED <<roles, running, default, ready, own, newer, branch, log>>
          /\ \/ todo' = Tail(todo) /\ outcome' = outcome /\ tick' = 0 /\ own = "success"
             \/ /\ todo' = todo /\ outcome' \in {"none", "error"}
                /\ tick' \in {tick, tick + 1} /\ (tick' = tick + 1 => tick' = tick \/ tick < Ticks)
        BY <1>4 DEF Create!WaitLive, Create!At, Create!Advance, Create!Stop, Create!service,
             Create!Tick, Create!Live
    <2>2. tick' \in 0..Ticks
        BY <1>0, <2>1 DEF Create!TypeOK, Create!Assumptions
    <2>3. Create!TypeOK'
        BY <1>0, <2>1, <2>2 DEF Create!TypeOK
    <2> QED BY <2>1, <2>3, QuietKeeps, StayKeeps
<1>5. CASE Create!Binding
    <2>1. /\ outcome = "none" /\ todo # <<>> /\ Head(todo) = "binding"
          /\ UNCHANGED <<roles, running, default, ready, own, newer, branch, tick, log>>
          /\ \/ todo' = Tail(todo) /\ outcome' = outcome
             \/ todo' = todo /\ outcome' = "error"
        BY <1>5 DEF Create!Binding, Create!At, Create!Advance, Create!Stop, Create!service
    <2>2. Create!TypeOK'
        BY <1>0, <2>1 DEF Create!TypeOK
    <2> QED BY <2>1, <2>2, QuietKeeps, StayKeeps
<1>6. CASE Create!Return
    <2>1. /\ outcome = "none" /\ todo = <<>> /\ todo' = todo /\ outcome' = "ok"
          /\ UNCHANGED <<roles, running, default, ready, own, newer, branch, tick, log>>
        BY <1>6 DEF Create!Return, Create!Stop, Create!service
    <2>2. Create!TypeOK'
        BY <1>0, <2>1 DEF Create!TypeOK
    <2> QED BY <2>1, <2>2, StayKeeps
<1> QED BY <1>1, <1>2, <1>3, <1>4, <1>5, <1>6, WriteKeeps DEF Create!Run

\* The service becomes ready on its own, and a success stays one.
LEMMA ServiceKeeps ==
    ASSUME Create!Assumptions, CreateInv, Create!Service
    PROVE  CreateInv'
<1>1. UNCHANGED <<roles, todo, branch, tick, log, outcome>>
    BY DEF Create!Service
<1>2. ready \subseteq ready' /\ ready' \subseteq Branches /\ default' \in Branches
      /\ running' \in BOOLEAN /\ own' \in {"none", "pending", "success", "failed"}
    BY DEF Create!Service, CreateInv, Create!TypeOK
<1>3. newer' \in 0..Window
    <2>1. newer' = newer \/ (newer < Window /\ newer' = newer + 1)
        BY DEF Create!Service
    <2>2. newer \in 0..Window
        BY DEF CreateInv, Create!TypeOK
    <2> QED BY <2>1, <2>2 DEF Create!Assumptions
<1>4. own = "success" => own' = "success"
    BY DEF Create!Service
<1>5. Create!TypeOK'
    BY <1>1, <1>2, <1>3 DEF CreateInv, Create!TypeOK
<1>6. LogInv'
    BY <1>1, <1>2 DEF CreateInv, LogInv
<1>7. Planned'
    <2>1. PICK q \in {<<>>, <<"ask">>}, m \in {<<>>, Migrations}, f \in {<<>>, Plugins} :
             /\ Logged(m, f)
             /\ outcome = "none" => \E k : After(q, m, f, k)
             /\ outcome = "ok" => own = "success" /\ Len(log) = Len(Written(m, f))
        BY DEF CreateInv, Planned
    <2>2. \A k : After(q, m, f, k) => After(q, m, f, k)'
        BY <1>1, <1>2, <1>4 DEF After
    <2>3. Logged(m, f)'
        BY <1>1, <2>1 DEF Logged
    <2>4. outcome' = "none" => \E k : After(q, m, f, k)'
        BY <1>1, <2>1, <2>2
    <2> QED BY <1>1, <1>4, <2>1, <2>3, <2>4 DEF Planned
<1> QED BY <1>1, <1>5, <1>6, <1>7 DEF CreateInv

\* The invariant is inductive.
LEMMA CreateInvNext ==
    ASSUME Create!Assumptions
    PROVE  CreateInv /\ [Create!Next]_(Create!vars) => CreateInv'
<1> SUFFICES ASSUME CreateInv, [Create!Next]_(Create!vars) PROVE CreateInv'
    OBVIOUS
<1>1. CASE UNCHANGED Create!vars
    <2>1. UNCHANGED <<roles, running, default, ready, own, newer, todo, branch, tick, log, outcome>>
        BY <1>1 DEF Create!vars, Create!service
    <2>2. LogInv' /\ Create!TypeOK'
        BY <2>1 DEF CreateInv, LogInv, Create!TypeOK
    <2>3. Planned'
        <3>1. PICK q \in {<<>>, <<"ask">>}, m \in {<<>>, Migrations}, f \in {<<>>, Plugins} :
                 /\ Logged(m, f)
                 /\ outcome = "none" => \E k : After(q, m, f, k)
                 /\ outcome = "ok" => own = "success" /\ Len(log) = Len(Written(m, f))
            BY DEF CreateInv, Planned
        <3>2. \A k : After(q, m, f, k) => After(q, m, f, k)'
            BY <2>1 DEF After
        <3>3. Logged(m, f)'
            BY <2>1, <3>1 DEF Logged
        <3>4. outcome' = "none" => \E k : After(q, m, f, k)'
            BY <2>1, <3>1, <3>2
        <3> QED BY <2>1, <3>1, <3>3, <3>4 DEF Planned
    <2> QED BY <2>1, <2>2, <2>3 DEF CreateInv
<1>2. CASE Create!Next
    BY <1>2, RunKeeps, ServiceKeeps DEF Create!Next
<1> QED BY <1>1, <1>2

\* A create writes each thing once, and for one branch; its success is one of
\* all it planned.
LEMMA CreateInvSays ==
    ASSUME Create!Assumptions, CreateInv
    PROVE  Create!TypeOK /\ Create!OneBranchOnce /\ Create!SuccessMeansLive
<1>1. log \in Seq(Entry) /\ LogInv /\ DOMAIN log = 1..Len(log) /\ Len(log) \in Nat
    BY DEF CreateInv
<1>2. PICK q \in {<<>>, <<"ask">>}, m \in {<<>>, Migrations}, f \in {<<>>, Plugins} :
         /\ Logged(m, f)
         /\ outcome = "ok" => own = "success" /\ Len(log) = Len(Written(m, f))
    BY DEF CreateInv, Planned
<1>3. PICK u, n : u = Written(m, f) /\ n = Len(m) + Len(f)
    OBVIOUS
<1>4. /\ u \in Seq(Steps) /\ IsWritten(u, m, f, n) /\ Len(u) = n + 5
      /\ \A z, j \in 1..n + 5 : u[z] = u[j] => z = j
    <2>1. u \in Seq(Steps) /\ IsWritten(u, m, f, n) /\ NothingTwice(u, n)
        BY <1>3, WrittenIs
    <2> QED BY <2>1 DEF IsWritten, NothingTwice
<1>5. ASSUME NEW j \in 1..Len(log), NEW k \in 1..Len(log), log[j].op = log[k].op PROVE j = k
    <2>1. log[j].op = u[j] /\ log[k].op = u[k] /\ Len(log) <= Len(u)
        BY <1>2, <1>3 DEF Logged
    <2>2. j \in 1..n + 5 /\ k \in 1..n + 5
        <3>1. Len(u) \in Nat
            BY <1>4
        <3> QED BY <1>1, <1>4, <2>1, <3>1
    <2> QED BY <1>4, <1>5, <2>1, <2>2
<1>6. Create!OneBranchOnce
    BY <1>1, <1>5 DEF CreateInv, LogInv, Create!OneBranchOnce
<1>7. ASSUME outcome = "ok"
      PROVE  [z \in DOMAIN log |-> log[z].op]
                = <<"upload", "project", "workspace">> \o m \o f \o <<"bind", "deploy">>
    <2>1. u = [z \in 1..Len(u) |-> u[z]]
        BY <1>4
    <2>2. DOMAIN log = 1..Len(u) /\ \A z \in 1..Len(u) : log[z].op = u[z]
        BY <1>1, <1>2, <1>3, <1>7 DEF Logged
    <2>3. [z \in DOMAIN log |-> log[z].op] = [z \in 1..Len(u) |-> u[z]]
        BY <2>2
    <2>4. [z \in DOMAIN log |-> log[z].op] = u
        BY <2>1, <2>3
    <2> QED BY <1>3, <2>4, Zenon DEF Written
<1>8. Create!SuccessMeansLive
    BY <1>2, <1>7, Zenon DEF Create!SuccessMeansLive
<1> QED BY <1>6, <1>8 DEF CreateInv

-----------------------------------------------------------------------------
(* Functions serve *)

ContainerStates == {"none", "running", "exit 0", "exit 1", "exit 137"}

\* TypeOK of FunctionServe in three parts.
DiskOK ==
    /\ uses \subseteq Dirs /\ version \in [Dirs -> 0..Edits] /\ edits \in 0..Edits
    /\ watched \subseteq Dirs /\ noticed \in [Dirs -> 0..Edits]
WatcherOK ==
    /\ events \in Seq({"change", "ignored"})
    /\ watcher \in {"receive", "reset"} /\ timer \in {"idle", "soon", "armed", "fired"}
RuntimeOK ==
    /\ loop \in Serving!Serve!Restarting \union {"wait", "returned"}
    /\ bound \subseteq Dirs /\ seen \in [Dirs -> 0..Edits]
    /\ served \in [Dirs -> 0..Edits]
    /\ container \in [id : Nat, state : ContainerStates]
    /\ crashes \in 0..Crashes
    /\ streamer \in {"new", "fetch", "follow", "inspect", "done"} /\ followed \in Nat
    /\ failure \in {"none", "runtime", "docker"}
    /\ ending \in {"none", "stopped", "error", "runtime", "docker"}

FlagsOK == overflown \in BOOLEAN /\ crashed \in BOOLEAN

\* No directory has changed more often than changes were made; an exit code 1 is
\* that of a runtime that has failed by itself.
ServeInv ==
    /\ DiskOK /\ WatcherOK /\ RuntimeOK /\ FlagsOK
    /\ \A d \in Dirs : version[d] <= Edits - edits
    /\ container.state = "exit 1" => crashed
    /\ failure = "runtime" => crashed
    /\ ending = "runtime" => crashed

\* The restart of the container is not taken for its failure.
LEMMA ServeInvSays == ServeInv => Serving!Serve!TypeOK /\ Serving!Serve!RestartIsNoFailure
<1> SUFFICES ASSUME ServeInv PROVE Serving!Serve!TypeOK /\ Serving!Serve!RestartIsNoFailure
    OBVIOUS
<1>1. container.id \in Nat /\ container.state \in ContainerStates
    BY DEF ServeInv, RuntimeOK
<1>2. Serving!Serve!TypeOK
    BY <1>1 DEF ServeInv, DiskOK, WatcherOK, RuntimeOK, FlagsOK, Serving!Serve!TypeOK,
         Serving!Serve!Versions, ContainerStates
<1> QED BY <1>2 DEF ServeInv, Serving!Serve!RestartIsNoFailure

\* Nothing is served at first.
LEMMA ServeInvInit == ASSUME Serving!Serve!Assumptions PROVE Serving!Serve!Init => ServeInv
<1> SUFFICES ASSUME Serving!Serve!Init PROVE ServeInv
    OBVIOUS
<1>1. /\ container = [id |-> 0, state |-> "none"] /\ failure = "none" /\ ending = "none"
      /\ crashed = FALSE
    BY DEF Serving!Serve!Init, Serving!Serve!NoContainer
<1>2. /\ version \in [Dirs -> 0..Edits] /\ noticed = version /\ seen = version
      /\ served = version /\ \A d \in Dirs : version[d] = 0
    BY DEF Serving!Serve!Init, Serving!Serve!Assumptions
<1>3. edits = Edits /\ crashes = Crashes
    BY DEF Serving!Serve!Init
<1>4. DiskOK
    BY <1>2, <1>3 DEF Serving!Serve!Init, DiskOK, Serving!Serve!Assumptions
<1>7. FlagsOK
    BY <1>1 DEF Serving!Serve!Init, FlagsOK
<1>5. WatcherOK
    BY DEF Serving!Serve!Init, WatcherOK
<1>6. RuntimeOK
    <2>1. container \in [id : Nat, state : ContainerStates]
        BY <1>1 DEF ContainerStates
    <2>2. loop = "load" /\ bound = {} /\ streamer = "new" /\ followed = 0
        BY DEF Serving!Serve!Init
    <2> QED BY <1>1, <1>2, <1>3, <2>1, <2>2 DEF RuntimeOK, Serving!Serve!Restarting, Serving!Serve!Assumptions
<1> QED BY <1>1, <1>2, <1>3, <1>4, <1>5, <1>6, <1>7 DEF ServeInv, Serving!Serve!Assumptions

\* What the channels of events hold stays typed.
LEMMA QueueOps ==
    ASSUME NEW S, NEW q \in Seq(S)
    PROVE  /\ \A x \in S : Append(q, x) \in Seq(S)
           /\ q # <<>> => Tail(q) \in Seq(S)
           /\ <<>> \in Seq(S)
<1>1. \A x \in S : Append(q, x) \in Seq(S)
    OBVIOUS
<1>2. q # <<>> => Tail(q) \in Seq(S)
    OBVIOUS
<1> QED BY <1>1, <1>2

\* A write by an editor.
LEMMA EditKeeps ==
    ASSUME Serving!Serve!Assumptions, ServeInv, Serving!Serve!EditIgnored \/ \E d \in Dirs : Serving!Serve!Edit(d)
    PROVE  ServeInv'
<1>1. UNCHANGED <<container, served, crashes, crashed, streamer, followed, failure, loop, bound,
                  seen, ending, watched, overflown, watcher, timer>>
    BY DEF Serving!Serve!EditIgnored, Serving!Serve!Edit, Serving!Serve!dockerVars,
       Serving!Serve!streamVars, Serving!Serve!runVars
<1>2. edits \in 0..Edits /\ edits' = edits - 1 /\ edits > 0
    BY DEF Serving!Serve!EditIgnored, Serving!Serve!Edit, ServeInv, DiskOK
<1>3. events' \in {events, Append(events, "change"), Append(events, "ignored")}
    BY DEF Serving!Serve!EditIgnored, Serving!Serve!Edit
<1>4. WatcherOK'
    <2>1. \A x \in {"change", "ignored"} : Append(events, x) \in Seq({"change", "ignored"})
        BY QueueOps DEF ServeInv, WatcherOK
    <2>2. events' \in Seq({"change", "ignored"})
        BY <1>3, <2>1 DEF ServeInv, WatcherOK
    <2> QED BY <1>1, <2>2 DEF ServeInv, WatcherOK
<1>8. FlagsOK' /\ (failure' = "runtime" => crashed') /\ (ending' = "runtime" => crashed')
      /\ (container'.state = "exit 1" => crashed')
    BY <1>1 DEF ServeInv, FlagsOK
<1>5. /\ uses' \subseteq Dirs /\ version' \in [Dirs -> 0..Edits]
      /\ noticed' \in [Dirs -> 0..Edits]
      /\ \A d \in Dirs : version'[d] <= Edits - edits'
    <2>1. CASE Serving!Serve!EditIgnored
        <3>1. UNCHANGED <<uses, version, noticed>>
            BY <2>1 DEF Serving!Serve!EditIgnored
        <3>2. \A x \in Dirs : version[x] \in 0..Edits /\ version[x] <= Edits - edits
            BY DEF ServeInv, DiskOK
        <3>3. \A x \in Dirs : version'[x] <= Edits - edits'
            BY <1>2, <3>1, <3>2 DEF Serving!Serve!Assumptions
        <3> QED BY <3>1, <3>3 DEF ServeInv, DiskOK
    <2>2. ASSUME NEW d \in Dirs, Serving!Serve!Edit(d)
          PROVE  /\ uses' \subseteq Dirs /\ version' \in [Dirs -> 0..Edits]
                 /\ noticed' \in [Dirs -> 0..Edits]
                 /\ \A x \in Dirs : version'[x] <= Edits - edits'
        <3>1. version' = [version EXCEPT ![d] = version[d] + 1] /\ version \in [Dirs -> 0..Edits]
              /\ \A x \in Dirs : version[x] <= Edits - edits
            BY <2>2 DEF Serving!Serve!Edit, ServeInv, DiskOK
        <3>2. version[d] + 1 <= Edits - edits' /\ version[d] + 1 \in 0..Edits
            BY <1>2, <3>1 DEF Serving!Serve!Assumptions
        <3>3. version' \in [Dirs -> 0..Edits] /\ \A x \in Dirs : version'[x] <= Edits - edits'
            BY <1>2, <3>1, <3>2 DEF Serving!Serve!Assumptions
        <3>4. noticed' = noticed \/ noticed' = [noticed EXCEPT ![d] = version'[d]]
            BY <2>2 DEF Serving!Serve!Edit
        <3>5. noticed' \in [Dirs -> 0..Edits]
            BY <3>3, <3>4 DEF ServeInv, DiskOK
        <3>6. uses' \subseteq Dirs
            BY <2>2 DEF Serving!Serve!Edit, ServeInv, DiskOK
        <3> QED BY <3>3, <3>5, <3>6
    <2> QED BY <2>1, <2>2
<1>6. DiskOK'
    <2>1. edits' \in 0..Edits
        BY <1>2 DEF Serving!Serve!Assumptions
    <2> QED BY <1>1, <1>5, <2>1 DEF ServeInv, DiskOK
<1>7. RuntimeOK'
    BY <1>1 DEF ServeInv, RuntimeOK
<1> QED BY <1>4, <1>5, <1>6, <1>7, <1>8 DEF ServeInv

\* What the watcher and its timer do.
LEMMA WatcherKeeps ==
    ASSUME Serving!Serve!Assumptions, ServeInv,
           \/ Serving!Serve!Overflow \/ Serving!Serve!Receive
           \/ Serving!Serve!Debounce \/ Serving!Serve!Fire
    PROVE  ServeInv'
<1>1. UNCHANGED <<container, served, crashes, crashed, streamer, followed, failure, loop, bound,
                  seen, ending, watched, uses, version, edits, noticed>>
    BY DEF Serving!Serve!Overflow, Serving!Serve!Receive, Serving!Serve!Debounce, Serving!Serve!Fire,
       Serving!Serve!dockerVars, Serving!Serve!streamVars, Serving!Serve!runVars,
       Serving!Serve!diskVars
<1>2. FlagsOK'
    BY <1>1 DEF FlagsOK, Serving!Serve!Overflow, Serving!Serve!Receive, Serving!Serve!Debounce, Serving!Serve!Fire,
       ServeInv
<1>3. WatcherOK'
    <2>1. events' \in {events, <<>>} \/ (events # <<>> /\ events' = Tail(events))
        BY DEF Serving!Serve!Overflow, Serving!Serve!Receive, Serving!Serve!Debounce,
           Serving!Serve!Fire
    <2>2. events' \in Seq({"change", "ignored"})
        <3>1. PICK S : S = {"change", "ignored"}
            OBVIOUS
        <3>2. events \in Seq(S)
            BY <3>1 DEF ServeInv, WatcherOK
        <3>3. events' \in Seq(S)
            BY <2>1, <3>2, QueueOps
        <3> QED BY <3>1, <3>3
    <2>3. watcher' \in {"receive", "reset"} /\ timer' \in {"idle", "soon", "armed", "fired"}
        BY DEF Serving!Serve!Overflow, Serving!Serve!Receive, Serving!Serve!Debounce,
           Serving!Serve!Fire, ServeInv, WatcherOK
    <2> QED BY <2>2, <2>3 DEF WatcherOK
<1>4. DiskOK' /\ RuntimeOK'
    BY <1>1 DEF ServeInv, DiskOK, RuntimeOK
<1> QED BY <1>1, <1>2, <1>3, <1>4 DEF ServeInv

\* What Run does, one step after the other.
LEMMA LoopKeeps ==
    ASSUME Serving!Serve!Assumptions, ServeInv, Serving!Serve!Run \/ Serving!Serve!Fail \/ Serving!Serve!Interrupt
    PROVE  ServeInv'
<1> USE DEF Serving!Serve!Goes, Serving!Serve!diskVars, Serving!Serve!watchVars,
            Serving!Serve!dockerVars, Serving!Serve!streamVars
<1>1. UNCHANGED <<uses, version, edits, noticed, events, overflown, watcher, crashes, crashed,
                  followed, failure>>
    BY DEF Serving!Serve!Run, Serving!Serve!Fail, Serving!Serve!Interrupt, Serving!Serve!Load,
       Serving!Serve!Kill, Serving!Serve!Remove, Serving!Serve!Bind, Serving!Serve!Watch,
       Serving!Serve!Unwatch, Serving!Serve!Start, Serving!Serve!Restart,
       Serving!Serve!StreamerFailed
<1>8. crashed' = crashed /\ overflown' = overflown /\ FlagsOK'
    BY <1>1 DEF ServeInv, FlagsOK
<1>2. watched' \in {watched, watched \union bound, bound} /\ timer' \in {timer, "idle"}
      /\ bound' \in {bound, uses} /\ seen' \in {seen, version} /\ served' \in {served, seen}
      /\ streamer' \in {streamer, "fetch"}
    BY DEF Serving!Serve!Run, Serving!Serve!Fail, Serving!Serve!Interrupt, Serving!Serve!Load,
       Serving!Serve!Kill, Serving!Serve!Remove, Serving!Serve!Bind, Serving!Serve!Watch,
       Serving!Serve!Unwatch, Serving!Serve!Start, Serving!Serve!Restart,
       Serving!Serve!StreamerFailed
<1>3. \/ container' = container
      \/ container' = [container EXCEPT !.state = "exit 137"]
      \/ container' = [container EXCEPT !.state = "none"]
      \/ container' = [id |-> container.id + 1, state |-> "running"]
    BY DEF Serving!Serve!Run, Serving!Serve!Fail, Serving!Serve!Interrupt, Serving!Serve!Load,
       Serving!Serve!Kill, Serving!Serve!Remove, Serving!Serve!Bind, Serving!Serve!Watch,
       Serving!Serve!Unwatch, Serving!Serve!Start, Serving!Serve!Restart,
       Serving!Serve!StreamerFailed
<1>4. /\ loop' \in Serving!Serve!Restarting \union {"wait", "returned"}
      /\ ending' \in {ending, "error", "stopped"} \/ ending' = failure
    BY DEF Serving!Serve!Run, Serving!Serve!Fail, Serving!Serve!Interrupt, Serving!Serve!Load,
       Serving!Serve!Kill, Serving!Serve!Remove, Serving!Serve!Bind, Serving!Serve!Watch,
       Serving!Serve!Unwatch, Serving!Serve!Start, Serving!Serve!Restart,
       Serving!Serve!StreamerFailed, Serving!Serve!Restarting
<1>5. container' \in [id : Nat, state : ContainerStates]
      /\ (container'.state = "exit 1" => container.state = "exit 1")
    <2>1. container \in [id : Nat, state : ContainerStates]
        BY DEF ServeInv, RuntimeOK
    <2>2. CASE container' = [id |-> container.id + 1, state |-> "running"]
        <3>1. container.id + 1 \in Nat
            BY <2>1
        <3>2. "running" \in ContainerStates
            BY DEF ContainerStates
        <3>3. container'.state = "running" /\ container' \in [id : Nat, state : ContainerStates]
            BY <2>2, <3>1, <3>2
        <3> QED BY <3>3
    <2>3. ASSUME NEW x \in {"exit 137", "none"}, container' = [container EXCEPT !.state = x]
          PROVE  container' \in [id : Nat, state : ContainerStates] /\ container'.state = x
        BY <2>1, <2>3 DEF ContainerStates
    <2>4. CASE container' = container
        BY <2>1, <2>4
    <2> QED BY <1>3, <2>2, <2>3, <2>4
<1>6. DiskOK' /\ WatcherOK'
    BY <1>1, <1>2 DEF ServeInv, DiskOK, WatcherOK, RuntimeOK
<1>7. RuntimeOK'
    BY ZenonT(90), <1>1, <1>2, <1>4, <1>5 DEF ServeInv, DiskOK, RuntimeOK
<1>9. (ending' = "runtime" => crashed) /\ (failure' = "runtime" => crashed)
      /\ (container'.state = "exit 1" => crashed)
    BY <1>1, <1>4, <1>5 DEF ServeInv
<1>10. \A d \in Dirs : version'[d] <= Edits - edits'
    BY <1>1 DEF ServeInv
<1> QED BY <1>6, <1>7, <1>8, <1>9, <1>10 DEF ServeInv

\* The runtime, and the streamer of its logs.
LEMMA StreamerKeeps ==
    ASSUME Serving!Serve!Assumptions, ServeInv,
           \/ Serving!Serve!Crash \/ Serving!Serve!Fetch \/ Serving!Serve!LogsEnd
           \/ Serving!Serve!Inspect \/ Serving!Serve!DockerFails
    PROVE  ServeInv'
<1> USE DEF Serving!Serve!Stream, Serving!Serve!diskVars, Serving!Serve!watchVars,
            Serving!Serve!dockerVars, Serving!Serve!streamVars, Serving!Serve!runVars
<1>1. UNCHANGED <<uses, version, edits, noticed, events, overflown, watcher, watched, timer, bound,
                  seen, served, loop, ending>>
    BY DEF Serving!Serve!Crash, Serving!Serve!Fetch, Serving!Serve!LogsEnd, Serving!Serve!Inspect,
       Serving!Serve!DockerFails
<1>2. /\ container' \in [id : Nat, state : ContainerStates] /\ crashed' \in BOOLEAN
      /\ crashed => crashed'
      /\ container'.state = "exit 1" => crashed'
    <2>1. CASE Serving!Serve!Crash
        <3>1. PICK s \in {"exit 0", "exit 1", "exit 137"} :
                  container' = [container EXCEPT !.state = s] /\ crashed' = (crashed \/ s = "exit 1")
            BY <2>1 DEF Serving!Serve!Crash
        <3>2. container' \in [id : Nat, state : ContainerStates] /\ container'.state = s
            BY <3>1 DEF ServeInv, RuntimeOK, ContainerStates
        <3>3. crashed' \in BOOLEAN /\ (crashed => crashed') /\ (s = "exit 1" => crashed')
            BY <3>1
        <3> QED BY <3>2, <3>3
    <2>2. CASE ~Serving!Serve!Crash
        <3>1. UNCHANGED <<container, crashed>>
            BY <2>2 DEF Serving!Serve!Fetch, Serving!Serve!LogsEnd, Serving!Serve!Inspect,
               Serving!Serve!DockerFails
        <3> QED BY <3>1 DEF ServeInv, RuntimeOK, FlagsOK
    <2> QED BY <2>1, <2>2
<1>3. crashes' \in 0..Crashes
    <2>1. crashes' = crashes \/ (crashes > 0 /\ crashes' = crashes - 1)
        BY DEF Serving!Serve!Crash, Serving!Serve!Fetch, Serving!Serve!LogsEnd,
           Serving!Serve!Inspect, Serving!Serve!DockerFails
    <2>2. crashes \in 0..Crashes
        BY DEF ServeInv, RuntimeOK
    <2> QED BY <2>1, <2>2 DEF Serving!Serve!Assumptions
<1>4. /\ streamer' \in {"new", "fetch", "follow", "inspect", "done"}
      /\ followed' \in {followed, container.id}
    BY DEF Serving!Serve!Crash, Serving!Serve!Fetch, Serving!Serve!LogsEnd, Serving!Serve!Inspect,
       Serving!Serve!DockerFails, ServeInv, RuntimeOK
<1>5. \/ failure' = failure \/ failure' = "docker"
      \/ failure' = "runtime" /\ container.state = "exit 1"
    <2>1. container.state \in ContainerStates
        BY DEF ServeInv, RuntimeOK
    <2> QED BY <2>1 DEF Serving!Serve!Crash, Serving!Serve!Fetch, Serving!Serve!LogsEnd,
           Serving!Serve!Inspect, Serving!Serve!DockerFails, Serving!Serve!Temporary, ContainerStates
<1>6. DiskOK' /\ WatcherOK'
    BY <1>1 DEF ServeInv, DiskOK, WatcherOK
<1>7. followed' \in Nat
    BY <1>4 DEF ServeInv, RuntimeOK
<1>8. RuntimeOK'
    BY <1>1, <1>2, <1>3, <1>4, <1>5, <1>7 DEF ServeInv, RuntimeOK
<1>9. FlagsOK'
    BY <1>1, <1>2 DEF ServeInv, FlagsOK
<1> QED BY <1>1, <1>2, <1>5, <1>6, <1>8, <1>9 DEF ServeInv

\* The invariant is inductive.
LEMMA ServeInvNext ==
    ASSUME Serving!Serve!Assumptions
    PROVE  ServeInv /\ [Serving!Serve!Next]_(Serving!Serve!vars) => ServeInv'
<1> SUFFICES ASSUME ServeInv, [Serving!Serve!Next]_(Serving!Serve!vars) PROVE ServeInv'
    OBVIOUS
<1>1. CASE UNCHANGED Serving!Serve!vars
    <2>1. UNCHANGED <<uses, version, edits, watched, noticed, events, overflown, watcher, timer,
                      loop, bound, seen, container, served, crashes, crashed, streamer, followed,
                      failure, ending>>
        BY <1>1 DEF Serving!Serve!vars, Serving!Serve!diskVars, Serving!Serve!watchVars,
           Serving!Serve!dockerVars, Serving!Serve!streamVars, Serving!Serve!runVars
    <2>2. DiskOK' /\ WatcherOK' /\ RuntimeOK'
        BY ZenonT(90), <2>1 DEF ServeInv, DiskOK, WatcherOK, RuntimeOK
    <2>3. FlagsOK'
        BY <2>1 DEF ServeInv, FlagsOK
    <2> QED BY <2>1, <2>2, <2>3 DEF ServeInv
<1>2. CASE Serving!Serve!Next
    BY <1>2, EditKeeps, WatcherKeeps, LoopKeeps, StreamerKeeps DEF Serving!Serve!Next
<1> QED BY <1>1, <1>2

-----------------------------------------------------------------------------
(* The branches of a local database *)

Held == BranchNames

\* A database of a branch's name holds its data, part of them, or nothing; one
\* that was cloned in part has no directory.
DataInv ==
    /\ \A n \in Held : dbs[n] \in {n, "none", "partial"}
    /\ \A n \in folders : dbs[n] # "partial"
    /\ dbs["postgres"] = current \/ dbs[current] = current

\* What the command that runs has found or done.
CommandInv ==
    /\ cmd.op = "create" /\ cmd.step \in {"clone", "dump"} => cmd.branch \notin folders
    /\ cmd.op = "create" /\ cmd.step = "mkdir" => dbs[cmd.branch] # "partial"
    /\ cmd.op = "switch" /\ cmd.step \in {"disconnect", "backup", "rename", "rollback"} =>
          cmd.branch \in folders /\ cmd.branch # current
    /\ cmd.op = "switch" /\ cmd.step \in {"rename", "rollback"} =>
          dbs["postgres"] = "none" /\ dbs[current] = current
    /\ cmd.op = "switch" /\ cmd.step = "write" => cmd.branch \in {dbs["postgres"], current}
    /\ cmd.op = "delete" /\ cmd.step = "drop" => cmd.branch # current
    /\ cmd.step \in {"rename", "rollback", "write"} => cmd.op = "switch"

\* Where nothing was cut short, the database that is used is the current branch,
\* but for a switch under way.
UsedInv ==
    ~cut => /\ cmd.step \notin {"rename", "rollback", "write"} => dbs["postgres"] = current
            /\ cmd.step = "write" => dbs["postgres"] = cmd.branch

LocalInv ==
    Serving!Local!TypeOK /\ DataInv /\ CommandInv /\ UsedInv /\ Serving!Local!BranchesAreKept

\* The main branch is there at first.
LEMMA LocalInvInit == ASSUME Serving!Local!Assumptions PROVE Serving!Local!Init => LocalInv
<1> SUFFICES ASSUME Serving!Local!Init PROVE LocalInv
    OBVIOUS
<1>1. /\ dbs \in [Serving!Local!Databases -> Held \union {"none", "partial"}]
      /\ dbs["postgres"] = "main" /\ \A n \in Held : dbs[n] = "none"
    BY DEF Serving!Local!Init, Serving!Local!Databases, Held, Serving!Local!Assumptions
<1>2. cmd = [op |-> "none", branch |-> "main", step |-> "none"]
    BY DEF Serving!Local!Init, Serving!Local!Idle
<1>3. closed = {} /\ folders = {} /\ current = "main" /\ turns = Turns /\ born = {"main"} /\ cut = FALSE
    BY DEF Serving!Local!Init
<1>4. cmd.op = "none" /\ cmd.branch = "main" /\ cmd.step = "none"
    BY <1>2
<1>5. Serving!Local!TypeOK
    <2>1. cmd \in [op : Serving!Local!Operations \union {"none"}, branch : BranchNames,
                   step : {"none", "check", "clone", "dump", "mkdir", "disconnect", "backup",
                           "rename", "rollback", "write", "drop", "done"}]
        BY <1>2 DEF Serving!Local!Operations, Serving!Local!Assumptions
    <2>2. turns \in 0..Turns /\ closed \subseteq Held /\ folders \subseteq Held /\ current \in Held
          /\ born \subseteq Held
        BY <1>3 DEF Held, Serving!Local!Assumptions
    <2>3. cut \in BOOLEAN
        BY <1>3
    <2> QED BY <1>1, <2>1, <2>2, <2>3 DEF Serving!Local!TypeOK, Held
<1>6. Serving!Local!BranchesAreKept
    BY <1>1, <1>3 DEF Serving!Local!BranchesAreKept, Serving!Local!Databases
<1>7. DataInv /\ CommandInv
    BY <1>1, <1>3, <1>4 DEF DataInv, CommandInv
<1>8. UsedInv
    BY <1>1, <1>3, <1>4 DEF UsedInv
<1> QED BY <1>5, <1>6, <1>7, <1>8 DEF LocalInv

\* The types that the steps need.
LEMMA LocalTypes ==
    ASSUME Serving!Local!Assumptions, LocalInv
    PROVE  /\ dbs \in [Held \union {"postgres"} -> Held \union {"none", "partial"}]
           /\ closed \subseteq Held /\ folders \subseteq Held /\ current \in Held
           /\ cmd.branch \in Held /\ born \subseteq Held /\ turns \in 0..Turns
           /\ "postgres" \notin Held /\ "none" \notin Held /\ "partial" \notin Held
BY DEF LocalInv, Serving!Local!TypeOK, Serving!Local!Databases, Serving!Local!Assumptions,
   Held

\* A command that goes on with another step.
LEMMA GoesTo ==
    ASSUME Serving!Local!Assumptions, LocalInv, NEW to, Serving!Local!Goes(to)
    PROVE  cmd' = [cmd EXCEPT !.step = to]
           /\ cmd'.op = cmd.op /\ cmd'.branch = cmd.branch /\ cmd'.step = to
BY DEF LocalInv, Serving!Local!TypeOK, Serving!Local!Goes

\* A command that ends leaves no step behind.
LEMMA EndsAt ==
    ASSUME Serving!Local!Ends
    PROVE  cmd'.op = "none" /\ cmd'.branch = "main" /\ cmd'.step = "none"
BY DEF Serving!Local!Ends, Serving!Local!Idle

\* The types of the state after a step.
LEMMA LocalTypesKept ==
    ASSUME Serving!Local!Assumptions, LocalInv,
           \/ \E to \in {"clone", "dump", "mkdir", "disconnect", "backup", "rename", "rollback",
                           "write", "drop", "done"} : Serving!Local!Goes(to)
           \/ Serving!Local!Ends \/ Serving!Local!Begin,
           dbs' \in [Held \union {"postgres"} -> Held \union {"none", "partial"}],
           closed' \subseteq Held, folders' \subseteq Held, current' \in Held,
           turns' \in 0..Turns, born' \subseteq Held, cut' \in BOOLEAN
    PROVE  Serving!Local!TypeOK'
<1> DEFINE C == [op : Serving!Local!Operations \union {"none"}, branch : BranchNames,
                 step : {"none", "check", "clone", "dump", "mkdir", "disconnect", "backup",
                         "rename", "rollback", "write", "drop", "done"}]
<1>1. cmd \in C
    BY DEF LocalInv, Serving!Local!TypeOK
<1>2. cmd' \in C
    <2>1. ASSUME NEW to \in {"clone", "dump", "mkdir", "disconnect", "backup", "rename",
                               "rollback", "write", "drop", "done"}, Serving!Local!Goes(to)
          PROVE  cmd' \in C
        BY <1>1, <2>1 DEF Serving!Local!Goes
    <2>2. CASE Serving!Local!Ends
        BY <2>2 DEF Serving!Local!Ends, Serving!Local!Idle, Serving!Local!Assumptions
    <2>3. CASE Serving!Local!Begin
        BY <2>3 DEF Serving!Local!Begin
    <2> QED BY <2>1, <2>2, <2>3
<1> QED BY <1>2 DEF Serving!Local!TypeOK, Serving!Local!Databases, Held

\* A step that leaves databases and directories alone.
LEMMA ControlKeeps ==
    ASSUME Serving!Local!Assumptions, LocalInv, UNCHANGED <<dbs, folders, born, current>>, cut => cut',
           Serving!Local!TypeOK', CommandInv', UsedInv'
    PROVE  LocalInv'
<1>1. DataInv'
    BY DEF LocalInv, DataInv
<1>2. Serving!Local!BranchesAreKept'
    BY DEF LocalInv, Serving!Local!BranchesAreKept
<1> QED BY <1>1, <1>2 DEF LocalInv

\* A command begins, or is killed.
LEMMA BeginKeeps ==
    ASSUME Serving!Local!Assumptions, LocalInv, Serving!Local!Begin \/ Serving!Local!Stop
    PROVE  LocalInv'
<1>1. CASE Serving!Local!Begin
    <2>1. UNCHANGED <<dbs, closed, folders, current, born, cut>> /\ turns' \in 0..Turns
        BY <1>1, LocalTypes DEF Serving!Local!Begin, Serving!Local!Assumptions
    <2>2. cmd'.step = "check" /\ cmd.step \in {"none", "done"}
        BY <1>1 DEF Serving!Local!Begin
    <2>3. Serving!Local!TypeOK'
        <3>1. cut \in BOOLEAN
            BY DEF LocalInv, Serving!Local!TypeOK
        <3> QED BY <1>1, <2>1, <3>1, LocalTypes, LocalTypesKept
    <2>4. CommandInv'
        BY <2>2 DEF CommandInv
    <2>5. UsedInv'
        BY <2>1, <2>2 DEF LocalInv, UsedInv
    <2> QED BY <2>1, <2>3, <2>4, <2>5, ControlKeeps
<1>2. CASE Serving!Local!Stop
    <2>1. UNCHANGED <<dbs, closed, folders, current, turns, born>> /\ Serving!Local!Ends
          /\ cut' = (cut \/ cmd.step \in {"rename", "rollback", "write"})
        BY <1>2 DEF Serving!Local!Stop
    <2>2. cmd'.step = "none"
        BY <2>1, EndsAt
    <2>3. Serving!Local!TypeOK'
        BY <2>1, LocalTypes, LocalTypesKept
    <2>4. CommandInv'
        BY <2>2 DEF CommandInv
    <2>5. UsedInv'
        BY <2>1, <2>2 DEF LocalInv, UsedInv
    <2> QED BY <2>1, <2>3, <2>4, <2>5, ControlKeeps
<1> QED BY <1>1, <1>2

\* The steps of branch create.
LEMMA CreateBranchKeeps ==
    ASSUME Serving!Local!Assumptions, LocalInv,
           \/ Serving!Local!CreateCheck \/ Serving!Local!Clone
           \/ Serving!Local!Dump \/ Serving!Local!MakeDir
    PROVE  LocalInv'
<1>0. /\ cmd.op = "create" /\ cut' = cut /\ cut \in BOOLEAN /\ UNCHANGED <<closed, current, turns>>
      /\ cmd.step \in {"check", "clone", "dump", "mkdir"}
    BY DEF Serving!Local!CreateCheck, Serving!Local!Clone, Serving!Local!Dump,
       Serving!Local!MakeDir, Serving!Local!At, LocalInv, Serving!Local!TypeOK
<1>1. CASE Serving!Local!CreateCheck
    <2>1. /\ UNCHANGED <<dbs, closed, folders, current, turns, born, cut>>
          /\ Serving!Local!Ends \/ (Serving!Local!Goes("clone") /\ cmd.branch \notin folders)
        BY <1>1 DEF Serving!Local!CreateCheck
    <2>2. \/ cmd'.step = "none"
          \/ cmd'.step = "clone" /\ cmd'.branch = cmd.branch /\ cmd.branch \notin folders
        BY <2>1, EndsAt, GoesTo
    <2>3. Serving!Local!TypeOK'
        BY <1>0, <2>1, LocalTypes, LocalTypesKept
    <2>4. CommandInv'
        BY <2>1, <2>2 DEF CommandInv
    <2>5. UsedInv'
        BY <1>0, <2>1, <2>2 DEF LocalInv, UsedInv
    <2> QED BY <2>1, <2>3, <2>4, <2>5, ControlKeeps
<1>2. CASE Serving!Local!Clone
    <2>1. /\ dbs[cmd.branch] = "none" /\ dbs' = [dbs EXCEPT ![cmd.branch] = "partial"]
          /\ UNCHANGED <<closed, folders, current, turns, born, cut>> /\ Serving!Local!Goes("dump")
          /\ cmd.branch \notin folders
        BY <1>0, <1>2 DEF Serving!Local!Clone, Serving!Local!At, LocalInv, CommandInv
    <2>2. /\ cmd'.op = "create" /\ cmd'.branch = cmd.branch /\ cmd'.step = "dump"
        BY <1>0, <2>1, GoesTo
    <2>3. /\ dbs' \in [Held \union {"postgres"} -> Held \union {"none", "partial"}]
          /\ dbs'[cmd.branch] = "partial" /\ dbs'["postgres"] = dbs["postgres"]
          /\ \A n \in Held : n # cmd.branch => dbs'[n] = dbs[n]
        BY <2>1, LocalTypes
    <2>4. Serving!Local!TypeOK'
        BY <1>0, <2>1, <2>3, LocalTypes, LocalTypesKept
    <2>5. DataInv'
        BY <2>1, <2>3, LocalTypes DEF LocalInv, DataInv
    <2>6. CommandInv'
        BY <2>1, <2>2 DEF CommandInv
    <2>7. UsedInv'
        BY <1>0, <2>1, <2>2, <2>3 DEF LocalInv, UsedInv
    <2>8. Serving!Local!BranchesAreKept'
        <3>1. ASSUME NEW x \in born PROVE \E n \in Held \union {"postgres"} : dbs'[n] = x
            <4>1. PICK n \in Held \union {"postgres"} : dbs[n] = x
                BY <3>1 DEF LocalInv, Serving!Local!BranchesAreKept, Serving!Local!Databases, Held
            <4>2. n # cmd.branch
                BY <2>1, <4>1, LocalTypes
            <4> QED BY <2>3, <4>1, <4>2
        <3> QED BY <2>1, <3>1 DEF Serving!Local!BranchesAreKept, Serving!Local!Databases, Held
    <2> QED BY <2>4, <2>5, <2>6, <2>7, <2>8 DEF LocalInv
<1>3. CASE Serving!Local!Dump
    <2>1. /\ dbs' = [dbs EXCEPT ![cmd.branch] = cmd.branch] /\ born' = born \union {cmd.branch}
          /\ UNCHANGED <<closed, folders, current, turns, cut>> /\ Serving!Local!Goes("mkdir")
        BY <1>3 DEF Serving!Local!Dump
    <2>2. /\ cmd'.op = "create" /\ cmd'.branch = cmd.branch /\ cmd'.step = "mkdir"
        BY <1>0, <2>1, GoesTo
    <2>3. /\ dbs' \in [Held \union {"postgres"} -> Held \union {"none", "partial"}]
          /\ dbs'[cmd.branch] = cmd.branch /\ dbs'["postgres"] = dbs["postgres"]
          /\ \A n \in Held : n # cmd.branch => dbs'[n] = dbs[n]
        BY <2>1, LocalTypes
    <2>4. Serving!Local!TypeOK'
        BY <1>0, <2>1, <2>3, LocalTypes, LocalTypesKept
    <2>5. DataInv'
        BY <2>1, <2>3, LocalTypes DEF LocalInv, DataInv
    <2>6. CommandInv'
        BY <2>1, <2>2, <2>3, LocalTypes DEF CommandInv
    <2>7. UsedInv'
        BY <1>0, <2>1, <2>2, <2>3 DEF LocalInv, UsedInv
    <2>8. Serving!Local!BranchesAreKept'
        <3>1. ASSUME NEW x \in born' PROVE \E n \in Held \union {"postgres"} : dbs'[n] = x
            <4>1. CASE x = cmd.branch
                BY <2>3, <4>1, LocalTypes
            <4>2. CASE x # cmd.branch
                <5>1. PICK n \in Held \union {"postgres"} : dbs[n] = x
                    BY <2>1, <4>2 DEF LocalInv, Serving!Local!BranchesAreKept,
                       Serving!Local!Databases, Held
                <5>2. x \in Held
                    BY <2>1, <4>2, LocalTypes
                <5>3. n # cmd.branch
                    BY <4>2, <5>1, <5>2, LocalTypes DEF LocalInv, DataInv
                <5> QED BY <2>3, <5>1, <5>3
            <4> QED BY <4>1, <4>2
        <3> QED BY <2>1, <3>1 DEF Serving!Local!BranchesAreKept, Serving!Local!Databases, Held
    <2> QED BY <2>4, <2>5, <2>6, <2>7, <2>8 DEF LocalInv
<1>4. CASE Serving!Local!MakeDir
    <2>1. /\ folders' = folders \union {cmd.branch} /\ dbs[cmd.branch] # "partial"
          /\ UNCHANGED <<dbs, closed, current, turns, born, cut>> /\ Serving!Local!Goes("done")
        BY <1>0, <1>4 DEF Serving!Local!MakeDir, Serving!Local!At, LocalInv, CommandInv
    <2>2. cmd'.step = "done"
        BY <2>1, GoesTo
    <2>3. Serving!Local!TypeOK'
        BY <1>0, <2>1, LocalTypes, LocalTypesKept
    <2>4. DataInv'
        BY <2>1 DEF LocalInv, DataInv
    <2>5. CommandInv'
        BY <2>2 DEF CommandInv
    <2>6. UsedInv'
        BY <1>0, <2>1, <2>2 DEF LocalInv, UsedInv
    <2>7. Serving!Local!BranchesAreKept'
        BY <2>1 DEF LocalInv, Serving!Local!BranchesAreKept
    <2> QED BY <2>3, <2>4, <2>5, <2>6, <2>7 DEF LocalInv
<1> QED BY <1>1, <1>2, <1>3, <1>4

\* A rename moves what a database holds.
LEMMA RenameMoves ==
    ASSUME Serving!Local!Assumptions, LocalInv, NEW from \in Held \union {"postgres"}, NEW to \in Held \union {"postgres"},
           Serving!Local!CanRename(from, to), dbs' = Serving!Local!Renamed(from, to),
           born' = born
    PROVE  /\ dbs' \in [Held \union {"postgres"} -> Held \union {"none", "partial"}]
           /\ from # to /\ dbs'[to] = dbs[from] /\ dbs'[from] = "none"
           /\ \A n \in Held \union {"postgres"} : n \notin {from, to} => dbs'[n] = dbs[n]
           /\ Serving!Local!BranchesAreKept'
<1>1. from # to /\ dbs[from] # "none" /\ dbs[to] = "none"
    BY DEF Serving!Local!CanRename
<1>2. /\ dbs' \in [Held \union {"postgres"} -> Held \union {"none", "partial"}]
      /\ dbs'[to] = dbs[from] /\ dbs'[from] = "none"
      /\ \A n \in Held \union {"postgres"} : n \notin {from, to} => dbs'[n] = dbs[n]
    BY <1>1, LocalTypes DEF Serving!Local!Renamed
<1>3. ASSUME NEW x \in born PROVE \E n \in Held \union {"postgres"} : dbs'[n] = x
    <2>1. PICK n \in Held \union {"postgres"} : dbs[n] = x
        BY <1>3 DEF LocalInv, Serving!Local!BranchesAreKept, Serving!Local!Databases, Held
    <2>2. n # to
        BY <1>1, <2>1, LocalTypes
    <2> QED BY <1>2, <2>1, <2>2
<1>4. Serving!Local!BranchesAreKept'
    BY <1>3 DEF Serving!Local!BranchesAreKept, Serving!Local!Databases, Held
<1> QED BY <1>1, <1>2, <1>4

\* The steps of branch switch.
LEMMA SwitchKeeps ==
    ASSUME Serving!Local!Assumptions, LocalInv,
           \/ Serving!Local!SwitchCheck \/ Serving!Local!Disconnect \/ Serving!Local!Backup
           \/ Serving!Local!Rename \/ Serving!Local!Rollback \/ Serving!Local!Write
    PROVE  LocalInv'
<1>0. /\ cmd.op = "switch" /\ cut' = cut /\ cut \in BOOLEAN /\ UNCHANGED <<folders, turns, born>>
    BY DEF Serving!Local!SwitchCheck, Serving!Local!Disconnect, Serving!Local!Backup,
       Serving!Local!Rename, Serving!Local!Rollback, Serving!Local!Write, Serving!Local!At,
       LocalInv, Serving!Local!TypeOK
<1>1. CASE Serving!Local!SwitchCheck
    <2>1. /\ UNCHANGED <<dbs, closed, folders, current, turns, born, cut>>
          /\ cmd.branch \in folders /\ cmd.step = "check"
          /\ \/ Serving!Local!Goes("write") /\ cmd.branch = current
             \/ Serving!Local!Goes("disconnect") /\ cmd.branch # current
        BY <1>1 DEF Serving!Local!SwitchCheck, Serving!Local!At
    <2>2. /\ cmd'.branch = cmd.branch /\ cmd'.op = "switch"
          /\ \/ cmd'.step = "write" /\ cmd.branch = current
             \/ cmd'.step = "disconnect" /\ cmd.branch # current
        BY <1>0, <2>1, GoesTo
    <2>3. Serving!Local!TypeOK'
        BY <1>0, <2>1, LocalTypes, LocalTypesKept
    <2>4. CommandInv'
        BY <2>1, <2>2 DEF CommandInv
    <2>5. UsedInv'
        BY <1>0, <2>1, <2>2 DEF LocalInv, UsedInv
    <2> QED BY <2>1, <2>3, <2>4, <2>5, ControlKeeps
<1>2. CASE Serving!Local!Disconnect
    <2>1. /\ UNCHANGED <<dbs, folders, current, turns, born, cut>> /\ closed' \subseteq Held
          /\ cmd.step = "disconnect" /\ Serving!Local!Goes("backup")
        BY <1>2, LocalTypes DEF Serving!Local!Disconnect, Serving!Local!At, Held
    <2>2. cmd'.branch = cmd.branch /\ cmd'.op = "switch" /\ cmd'.step = "backup"
        BY <1>0, <2>1, GoesTo
    <2>3. Serving!Local!TypeOK'
        BY <1>0, <2>1, LocalTypes, LocalTypesKept
    <2>4. CommandInv'
        BY <1>0, <2>1, <2>2 DEF LocalInv, CommandInv
    <2>5. UsedInv'
        BY <1>0, <2>1, <2>2 DEF LocalInv, UsedInv
    <2> QED BY <2>1, <2>3, <2>4, <2>5, ControlKeeps
<1>3. CASE Serving!Local!Backup
    <2>1. /\ UNCHANGED <<closed, folders, current, turns, born, cut>> /\ cmd.step = "backup"
          /\ Serving!Local!Goes("rename") /\ Serving!Local!CanRename("postgres", current)
          /\ dbs' = Serving!Local!Renamed("postgres", current)
        BY <1>3 DEF Serving!Local!Backup, Serving!Local!At
    <2>2. cmd'.branch = cmd.branch /\ cmd'.op = "switch" /\ cmd'.step = "rename"
        BY <1>0, <2>1, GoesTo
    <2>3. dbs["postgres"] = current
        BY <2>1, LocalTypes DEF LocalInv, DataInv, Serving!Local!CanRename
    <2>4. /\ dbs' \in [Held \union {"postgres"} -> Held \union {"none", "partial"}]
          /\ dbs'[current] = current /\ dbs'["postgres"] = "none"
          /\ \A n \in Held : n # current => dbs'[n] = dbs[n]
          /\ Serving!Local!BranchesAreKept'
        BY <2>1, <2>3, LocalTypes, RenameMoves
    <2>5. Serving!Local!TypeOK'
        BY <1>0, <2>1, <2>4, LocalTypes, LocalTypesKept
    <2>6. DataInv'
        BY <2>1, <2>4, LocalTypes DEF LocalInv, DataInv
    <2>7. CommandInv'
        BY <1>0, <2>1, <2>2, <2>4 DEF LocalInv, CommandInv
    <2>8. UsedInv'
        BY <2>2 DEF UsedInv
    <2> QED BY <2>4, <2>5, <2>6, <2>7, <2>8 DEF LocalInv
<1>4. CASE Serving!Local!Rename
    <2>1. /\ UNCHANGED <<closed, folders, current, turns, born, cut>> /\ cmd.step = "rename"
          /\ \/ /\ Serving!Local!Goes("write") /\ Serving!Local!CanRename(cmd.branch, "postgres")
                /\ dbs' = Serving!Local!Renamed(cmd.branch, "postgres")
             \/ Serving!Local!Goes("rollback") /\ dbs' = dbs
        BY <1>4 DEF Serving!Local!Rename, Serving!Local!At
    <2>2. /\ cmd.branch \in folders /\ cmd.branch # current
          /\ dbs["postgres"] = "none" /\ dbs[current] = current
        BY <1>0, <2>1 DEF LocalInv, CommandInv
    <2>3. CASE dbs' = dbs /\ Serving!Local!Goes("rollback")
        <3>1. cmd'.branch = cmd.branch /\ cmd'.op = "switch" /\ cmd'.step = "rollback"
            BY <1>0, <2>3, GoesTo
        <3>2. Serving!Local!TypeOK'
            BY <1>0, <2>1, <2>3, LocalTypes, LocalTypesKept
        <3>3. CommandInv'
            BY <2>1, <2>2, <2>3, <3>1 DEF CommandInv
        <3>4. UsedInv'
            BY <3>1 DEF UsedInv
        <3> QED BY <1>0, <2>1, <2>3, <3>2, <3>3, <3>4, ControlKeeps
    <2>4. CASE /\ Serving!Local!Goes("write") /\ Serving!Local!CanRename(cmd.branch, "postgres")
               /\ dbs' = Serving!Local!Renamed(cmd.branch, "postgres")
        <3>1. cmd'.branch = cmd.branch /\ cmd'.op = "switch" /\ cmd'.step = "write"
            BY <1>0, <2>4, GoesTo
        <3>2. dbs[cmd.branch] = cmd.branch
            BY <2>2, <2>4, LocalTypes DEF LocalInv, DataInv, Serving!Local!CanRename
        <3>3. /\ dbs' \in [Held \union {"postgres"} -> Held \union {"none", "partial"}]
              /\ dbs'[cmd.branch] = "none" /\ dbs'["postgres"] = cmd.branch
              /\ \A n \in Held : n # cmd.branch => dbs'[n] = dbs[n]
              /\ Serving!Local!BranchesAreKept'
            BY <2>1, <2>4, <3>2, LocalTypes, RenameMoves
        <3>4. Serving!Local!TypeOK'
            BY <1>0, <2>1, <2>4, <3>3, LocalTypes, LocalTypesKept
        <3>5. DataInv'
            BY <2>1, <2>2, <3>3, LocalTypes DEF LocalInv, DataInv
        <3>6. CommandInv'
            BY <3>1, <3>3 DEF CommandInv
        <3>7. UsedInv'
            BY <3>1, <3>3 DEF UsedInv
        <3> QED BY <3>3, <3>4, <3>5, <3>6, <3>7 DEF LocalInv
    <2> QED BY <2>1, <2>3, <2>4
<1>5. CASE Serving!Local!Rollback
    <2>1. /\ UNCHANGED <<closed, folders, current, turns, born, cut>> /\ cmd.step = "rollback"
          /\ Serving!Local!Ends /\ Serving!Local!CanRename(current, "postgres")
          /\ dbs' = Serving!Local!Renamed(current, "postgres")
        BY <1>5 DEF Serving!Local!Rollback, Serving!Local!At
    <2>2. cmd'.step = "none"
        BY <2>1, EndsAt
    <2>3. dbs[current] = current
        BY <1>0, <2>1 DEF LocalInv, CommandInv
    <2>4. /\ dbs' \in [Held \union {"postgres"} -> Held \union {"none", "partial"}]
          /\ dbs'[current] = "none" /\ dbs'["postgres"] = current
          /\ \A n \in Held : n # current => dbs'[n] = dbs[n]
          /\ Serving!Local!BranchesAreKept'
        BY <2>1, <2>3, LocalTypes, RenameMoves
    <2>5. Serving!Local!TypeOK'
        BY <1>0, <2>1, <2>4, LocalTypes, LocalTypesKept
    <2>6. DataInv'
        BY <2>1, <2>4, LocalTypes DEF LocalInv, DataInv
    <2>7. CommandInv'
        BY <2>2 DEF CommandInv
    <2>8. UsedInv'
        BY <2>1, <2>2, <2>4 DEF UsedInv
    <2> QED BY <2>4, <2>5, <2>6, <2>7, <2>8 DEF LocalInv
<1>6. CASE Serving!Local!Write
    <2>1. /\ UNCHANGED <<dbs, closed, folders, turns, born, cut>> /\ cmd.step = "write"
          /\ Serving!Local!Goes("done") /\ current' = cmd.branch
        BY <1>6 DEF Serving!Local!Write, Serving!Local!At
    <2>2. cmd'.step = "done"
        BY <2>1, GoesTo
    <2>3. cmd.branch = dbs["postgres"] \/ cmd.branch = current
        BY <1>0, <2>1 DEF LocalInv, CommandInv
    <2>4. Serving!Local!TypeOK'
        BY <1>0, <2>1, LocalTypes, LocalTypesKept
    <2>5. DataInv'
        BY <2>1, <2>3 DEF LocalInv, DataInv
    <2>6. CommandInv'
        BY <2>2 DEF CommandInv
    <2>7. UsedInv'
        BY <1>0, <2>1, <2>2 DEF LocalInv, UsedInv
    <2>8. Serving!Local!BranchesAreKept'
        BY <2>1 DEF LocalInv, Serving!Local!BranchesAreKept
    <2> QED BY <2>4, <2>5, <2>6, <2>7, <2>8 DEF LocalInv
<1> QED BY <1>1, <1>2, <1>3, <1>4, <1>5, <1>6

\* The steps of branch delete.
LEMMA DeleteKeeps ==
    ASSUME Serving!Local!Assumptions, LocalInv, Serving!Local!DeleteCheck \/ Serving!Local!Drop
    PROVE  LocalInv'
<1>0. cmd.op = "delete" /\ cut' = cut /\ cut \in BOOLEAN /\ UNCHANGED <<current, turns>>
      /\ cmd.step \in {"check", "drop"}
    BY DEF Serving!Local!DeleteCheck, Serving!Local!Drop, Serving!Local!At, LocalInv,
       Serving!Local!TypeOK
<1>1. CASE Serving!Local!DeleteCheck
    <2>1. /\ UNCHANGED <<dbs, closed, current, turns, born, cut>> /\ cmd.branch # current
          /\ folders' = folders \ {cmd.branch} /\ Serving!Local!Goes("drop")
        BY <1>1 DEF Serving!Local!DeleteCheck
    <2>2. cmd'.branch = cmd.branch /\ cmd'.op = "delete" /\ cmd'.step = "drop"
        BY <1>0, <2>1, GoesTo
    <2>3. Serving!Local!TypeOK'
        BY <1>0, <2>1, LocalTypes, LocalTypesKept
    <2>4. DataInv'
        BY <2>1 DEF LocalInv, DataInv
    <2>5. CommandInv'
        BY <2>1, <2>2 DEF CommandInv
    <2>6. UsedInv'
        BY <1>0, <2>1, <2>2 DEF LocalInv, UsedInv
    <2>7. Serving!Local!BranchesAreKept'
        BY <2>1 DEF LocalInv, Serving!Local!BranchesAreKept
    <2> QED BY <2>3, <2>4, <2>5, <2>6, <2>7 DEF LocalInv
<1>2. CASE Serving!Local!Drop
    <2>1. /\ dbs' = [dbs EXCEPT ![cmd.branch] = "none"] /\ born' = born \ {cmd.branch}
          /\ closed' = closed \ {cmd.branch} /\ UNCHANGED <<folders, current, turns, cut>>
          /\ Serving!Local!Goes("done") /\ cmd.branch # current
        BY <1>0, <1>2 DEF Serving!Local!Drop, Serving!Local!At, LocalInv, CommandInv
    <2>2. cmd'.step = "done"
        BY <2>1, GoesTo
    <2>3. /\ dbs' \in [Held \union {"postgres"} -> Held \union {"none", "partial"}]
          /\ dbs'[cmd.branch] = "none" /\ dbs'["postgres"] = dbs["postgres"]
          /\ \A n \in Held : n # cmd.branch => dbs'[n] = dbs[n]
        BY <2>1, LocalTypes
    <2>4. Serving!Local!TypeOK'
        BY <1>0, <2>1, <2>3, LocalTypes, LocalTypesKept
    <2>5. DataInv'
        BY <2>1, <2>3, LocalTypes DEF LocalInv, DataInv
    <2>6. CommandInv'
        BY <2>2 DEF CommandInv
    <2>7. UsedInv'
        BY <1>0, <2>1, <2>2, <2>3 DEF LocalInv, UsedInv
    <2>8. Serving!Local!BranchesAreKept'
        <3>1. ASSUME NEW x \in born' PROVE \E n \in Held \union {"postgres"} : dbs'[n] = x
            <4>1. PICK n \in Held \union {"postgres"} : dbs[n] = x
                BY <2>1 DEF LocalInv, Serving!Local!BranchesAreKept, Serving!Local!Databases, Held
            <4>2. x \in Held /\ x # cmd.branch
                BY <2>1, LocalTypes
            <4>3. n # cmd.branch
                BY <4>1, <4>2, LocalTypes DEF LocalInv, DataInv
            <4> QED BY <2>3, <4>1, <4>3
        <3> QED BY <3>1 DEF Serving!Local!BranchesAreKept, Serving!Local!Databases, Held
    <2> QED BY <2>4, <2>5, <2>6, <2>7, <2>8 DEF LocalInv
<1> QED BY <1>1, <1>2

\* The invariant is inductive.
LEMMA LocalInvNext ==
    ASSUME Serving!Local!Assumptions
    PROVE  LocalInv /\ [Serving!Local!Next]_(Serving!Local!vars) => LocalInv'
<1> SUFFICES ASSUME LocalInv, [Serving!Local!Next]_(Serving!Local!vars) PROVE LocalInv'
    OBVIOUS
<1>1. CASE UNCHANGED Serving!Local!vars
    <2>1. UNCHANGED <<dbs, closed, folders, current, cmd, turns, born, cut>>
        BY <1>1 DEF Serving!Local!vars
    <2>2. Serving!Local!TypeOK'
        BY <2>1 DEF LocalInv, Serving!Local!TypeOK
    <2>3. CommandInv'
        BY <2>1 DEF LocalInv, CommandInv
    <2>4. UsedInv'
        BY <2>1 DEF LocalInv, UsedInv
    <2> QED BY <2>1, <2>2, <2>3, <2>4, ControlKeeps
<1>2. CASE Serving!Local!Next
    BY <1>2, BeginKeeps, CreateBranchKeeps, SwitchKeeps, DeleteKeeps DEF Serving!Local!Next
<1> QED BY <1>1, <1>2

\* The database in use is that of the current branch.
LEMMA LocalInvSays == LocalInv => Serving!Local!CurrentIsUsed
BY DEF LocalInv, UsedInv, Serving!Local!CurrentIsUsed

\* The current branch of the file is the database that is used, where no switch
\* was cut short.
THEOREM CurrentIsUsedAlways ==
    ASSUME Serving!Local!Assumptions
    PROVE  Serving!Local!Spec => []Serving!Local!CurrentIsUsed
BY LocalInvInit, LocalInvNext, LocalInvSays, PTL DEF Serving!Local!Spec

-----------------------------------------------------------------------------
(* The logins of the MCP server *)

\* A login that waits for its user has no result, and its goroutine wait none
\* to record; a recorded result is that of the login.
OwnResult(l) ==
    /\ login[l] = "waiting" => status[l] = "pending"
    /\ waiter[l] = "locked" => login[l] \in {"succeeded", "failed"}
    /\ status[l] \in {"succeeded", "failed"} => login[l] = status[l]

\* Only the login the manager points to can still be completed in time.
OpenIsPending(l) == login[l] = "waiting" /\ l \notin expired => pending = l

LoginInv == TypeOK /\ \A l \in Logins : OwnResult(l) /\ OpenIsPending(l)

\* At first there is no login.
LEMMA LoginInvInit == Init => LoginInv
<1> SUFFICES ASSUME Init PROVE LoginInv
    OBVIOUS
<1>1. TypeOK
    BY DEF Init, TypeOK
<1>2. \A l \in Logins : OwnResult(l) /\ OpenIsPending(l)
    BY DEF Init, OwnResult, OpenIsPending
<1> QED BY <1>1, <1>2 DEF LoginInv

\* A step of a tool call that touches no login.
LEMMA QuietCall ==
    ASSUME LoginInv, TypeOK', UNCHANGED <<pending, status, login, waiter, expired>>
    PROVE  LoginInv'
BY DEF LoginInv, OwnResult, OpenIsPending

\* A call returns or goes on.
LEMMA CallType ==
    ASSUME TypeOK, NEW c \in Calls
    PROVE  /\ \A p \in {"start", "detect", "lock", "reload", "decide", "returned"} :
                Goto(c, p) =>
                    call' \in [Calls -> {"start", "detect", "lock", "reload", "decide", "returned"}]
           /\ \A a \in {"none", "ok", "error"} \union Logins :
                Answer(c, a) =>
                    /\ answer' \in [Calls -> {"none", "ok", "error"} \union Logins]
                    /\ call' \in [Calls -> {"start", "detect", "lock", "reload", "decide", "returned"}]
BY DEF TypeOK, Goto, Answer

\* The steps before the decision, and loading again under the mutex.
LEMMA QuietHandler ==
    ASSUME LoginInv, NEW c \in Calls, LoadConfig(c) \/ Detect(c) \/ Lock(c) \/ Reload(c)
    PROVE  LoginInv'
<1>1. UNCHANGED <<pending, status, login, waiter, expired>>
    BY DEF LoadConfig, Detect, Lock, Reload
<1>2. TypeOK'
    <2>1. /\ call' \in [Calls -> {"start", "detect", "lock", "reload", "decide", "returned"}]
          /\ answer' \in [Calls -> {"none", "ok", "error"} \union Logins]
        BY DEF LoadConfig, Detect, Lock, Reload, Goto, Answer, LoginInv, TypeOK
    <2>2. profile' = profile /\ cfg' \in [Calls -> {"zero", "complete"}]
        BY DEF LoadConfig, Detect, Lock, Reload, LoginInv, TypeOK
    <2>3. mu' \in Calls \union Logins \union {None}
        BY DEF LoadConfig, Detect, Lock, Reload, LoginInv, TypeOK
    <2> QED BY <1>1, <2>1, <2>2, <2>3 DEF LoginInv, TypeOK
<1> QED BY <1>1, <1>2, QuietCall

\* A login is started only when no other can be completed any more.
LEMMA NoneIsOpen ==
    ASSUME Assumptions, LoginInv, ~(pending # None /\ status[pending] = "succeeded"), ~StillPending
    PROVE  \A l \in Logins : ~(login[l] = "waiting" /\ l \notin expired)
BY DEF Assumptions, LoginInv, TypeOK, OwnResult, OpenIsPending, StillPending

\* requireLogin answers with the open login, or starts one when there is none.
LEMMA RequireLoginKeeps ==
    ASSUME Assumptions, LoginInv, NEW c \in Calls, RequireLogin(c)
    PROVE  LoginInv'
<1>0. UNCHANGED <<profile, expired, cfg>> /\ mu' = None
    BY DEF RequireLogin
<1>1. CASE /\ pending # None /\ status[pending] = "succeeded"
           /\ pending' = None
           /\ Answer(c, "ok")
           /\ UNCHANGED <<login, waiter, status>>
    <2>1. TypeOK'
        BY <1>0, <1>1 DEF LoginInv, TypeOK, Answer, Goto
    <2>2. \A l \in Logins : ~(login[l] = "waiting" /\ l \notin expired)
        BY <1>1 DEF LoginInv, OwnResult, OpenIsPending
    <2> QED BY <1>0, <1>1, <2>1, <2>2 DEF LoginInv, OwnResult, OpenIsPending
<1>2. CASE /\ StillPending
           /\ Answer(c, pending)
           /\ UNCHANGED <<pending, login, waiter, status>>
    <2>1. pending \in Logins
        BY <1>2 DEF StillPending, LoginInv, TypeOK
    <2>2. TypeOK'
        BY <1>0, <1>2, <2>1 DEF LoginInv, TypeOK, Answer, Goto
    <2> QED BY <1>0, <1>2, <2>2, QuietCall
<1>3. ASSUME ~(pending # None /\ status[pending] = "succeeded"), ~StillPending, StartLogin(c)
      PROVE  LoginInv'
    <2>1. \A l \in Logins : ~(login[l] = "waiting" /\ l \notin expired)
        BY <1>3, NoneIsOpen
    <2>2. CASE pending' = None /\ Answer(c, "error") /\ UNCHANGED <<login, waiter, status>>
        <3>1. TypeOK'
            BY <1>0, <2>2 DEF LoginInv, TypeOK, Answer, Goto
        <3> QED BY <1>0, <2>1, <2>2, <3>1 DEF LoginInv, OwnResult, OpenIsPending
    <2>3. ASSUME NEW l \in Logins, login[l] = "new",
                 login' = [login EXCEPT ![l] = "waiting"],
                 waiter' = [waiter EXCEPT ![l] = "waiting"],
                 status' = [status EXCEPT ![l] = "pending"],
                 pending' = l, Answer(c, l)
          PROVE  LoginInv'
        <3>1. TypeOK'
            BY <1>0, <2>3 DEF LoginInv, TypeOK, Answer, Goto
        <3>2. OwnResult(l)' /\ OpenIsPending(l)'
            BY <2>3 DEF LoginInv, TypeOK, OwnResult, OpenIsPending
        <3>3. ASSUME NEW k \in Logins, k # l
              PROVE  OwnResult(k)' /\ OpenIsPending(k)'
            <4>1. login'[k] = login[k] /\ waiter'[k] = waiter[k] /\ status'[k] = status[k]
                BY <2>3, <3>3 DEF LoginInv, TypeOK
            <4> QED BY <1>0, <2>1, <4>1 DEF LoginInv, OwnResult, OpenIsPending
        <3> QED BY <3>1, <3>2, <3>3 DEF LoginInv
    <2> QED BY <1>3, <2>2, <2>3 DEF StartLogin
<1> QED BY <1>1, <1>2, <1>3 DEF RequireLogin

\* A step of one login leaves what is known of the others.
LEMMA OtherLogins ==
    ASSUME LoginInv, NEW l \in Logins, pending' = pending, expired \subseteq expired',
           \A k \in Logins : k # l =>
               login'[k] = login[k] /\ waiter'[k] = waiter[k] /\ status'[k] = status[k]
    PROVE  \A k \in Logins : k # l => OwnResult(k)' /\ OpenIsPending(k)'
BY DEF LoginInv, OwnResult, OpenIsPending

\* The goroutine of a login goes on: it waits for nobody any more.
LEMMA LoginKeeps ==
    ASSUME LoginInv, NEW l \in Logins, Callback(l) \/ LoginFails(l) \/ CompleteLogin(l)
    PROVE  LoginInv'
<1>1. PICK to \in {"exchange", "failed", "succeeded"} :
        login' = [login EXCEPT ![l] = to] /\ login[l] \in {"waiting", "exchange"}
    BY DEF Callback, LoginFails, CompleteLogin
<1>2. UNCHANGED <<pending, status, waiter, expired, mu, call, cfg, answer>>
    BY DEF Callback, LoginFails, CompleteLogin
<1>3. profile' \in {"none", "usable", "dead"}
    BY DEF Callback, LoginFails, CompleteLogin, LoginInv, TypeOK
<1>4. TypeOK'
    BY <1>1, <1>2, <1>3 DEF LoginInv, TypeOK
<1>5. login'[l] = to /\ \A k \in Logins : k # l => login'[k] = login[k]
    BY <1>1 DEF LoginInv, TypeOK
<1>6. OwnResult(l)' /\ OpenIsPending(l)'
    BY <1>1, <1>2, <1>5 DEF LoginInv, TypeOK, OwnResult, OpenIsPending
<1>7. \A k \in Logins : k # l => OwnResult(k)' /\ OpenIsPending(k)'
    BY <1>2, <1>5, OtherLogins
<1> QED BY <1>4, <1>6, <1>7 DEF LoginInv

\* wait takes a result, and records it if the manager still points to its login.
LEMMA WaiterKeeps ==
    ASSUME LoginInv, NEW l \in Logins, Waiter(l)
    PROVE  LoginInv'
<1>1. CASE WaitLock(l)
    <2>1. TypeOK'
        BY <1>1 DEF WaitLock, LoginInv, TypeOK
    <2>2. /\ login' = login /\ status' = status /\ pending' = pending /\ expired' = expired
          /\ \A k \in Logins : k # l => waiter'[k] = waiter[k]
        BY <1>1 DEF WaitLock, LoginInv, TypeOK
    <2>3. OwnResult(l)' /\ OpenIsPending(l)'
        BY <1>1, <2>2 DEF WaitLock, LoginInv, OwnResult, OpenIsPending
    <2>4. \A k \in Logins : k # l => OwnResult(k)' /\ OpenIsPending(k)'
        BY <2>2, OtherLogins
    <2> QED BY <2>1, <2>3, <2>4 DEF LoginInv
<1>2. CASE WaitRecord(l)
    <2>1. login[l] \in {"succeeded", "failed"}
        BY <1>2 DEF WaitRecord, LoginInv, OwnResult
    <2>2. status' = status \/ status' = [status EXCEPT ![l] = login[l]]
        BY <1>2 DEF WaitRecord, Record
    <2>3. UNCHANGED <<profile, pending, login, expired, call, cfg, answer>> /\ mu' = None
        BY <1>2 DEF WaitRecord
    <2>4. waiter' = [waiter EXCEPT ![l] = "done"]
        BY <1>2 DEF WaitRecord
    <2>5. TypeOK'
        BY <2>1, <2>2, <2>3, <2>4 DEF LoginInv, TypeOK
    <2>6. /\ waiter'[l] = "done" /\ status'[l] \in {status[l], login[l]}
          /\ \A k \in Logins : k # l => waiter'[k] = waiter[k] /\ status'[k] = status[k]
        BY <2>2, <2>4 DEF LoginInv, TypeOK
    <2>7. OwnResult(l)' /\ OpenIsPending(l)'
        BY <2>1, <2>3, <2>6 DEF LoginInv, OwnResult, OpenIsPending
    <2>8. \A k \in Logins : k # l => OwnResult(k)' /\ OpenIsPending(k)'
        BY SMTT(60), <2>3, <2>6, OtherLogins
    <2> QED BY <2>5, <2>7, <2>8 DEF LoginInv
<1> QED BY <1>1, <1>2 DEF Waiter

\* Time passes, or another command changes the credential files.
LEMMA WorldKeeps ==
    ASSUME LoginInv, OtherCommand \/ \E l \in Logins : Expire(l)
    PROVE  LoginInv'
<1>1. CASE OtherCommand
    <2>1. TypeOK'
        BY <1>1 DEF OtherCommand, LoginInv, TypeOK
    <2> QED BY <1>1, <2>1, QuietCall DEF OtherCommand
<1>2. ASSUME NEW l \in Logins, Expire(l)
      PROVE  LoginInv'
    <2>1. TypeOK'
        BY <1>2 DEF Expire, LoginInv, TypeOK
    <2>2. \A k \in Logins : OwnResult(k)' /\ OpenIsPending(k)'
        BY <1>2 DEF Expire, LoginInv, OwnResult, OpenIsPending
    <2> QED BY <2>1, <2>2 DEF LoginInv
<1> QED BY <1>1, <1>2

\* Every step keeps the invariant.
LEMMA LoginInvNext == ASSUME Assumptions PROVE LoginInv /\ [Next]_vars => LoginInv'
<1> SUFFICES ASSUME LoginInv, [Next]_vars PROVE LoginInv'
    OBVIOUS
<1>1. ASSUME NEW c \in Calls, Handler(c) PROVE LoginInv'
    BY <1>1, QuietHandler, RequireLoginKeeps DEF Handler
<1>2. ASSUME NEW l \in Logins, Callback(l) \/ LoginFails(l) \/ CompleteLogin(l) PROVE LoginInv'
    BY <1>2, LoginKeeps
<1>3. ASSUME NEW l \in Logins, Waiter(l) PROVE LoginInv'
    BY <1>3, WaiterKeeps
<1>4. CASE OtherCommand \/ \E l \in Logins : Expire(l)
    BY <1>4, WorldKeeps
<1>5. CASE UNCHANGED vars
    BY <1>5 DEF vars, LoginInv, TypeOK, OwnResult, OpenIsPending
<1> QED BY <1>1, <1>2, <1>3, <1>4, <1>5 DEF Next

\* All logins that are open are the one the manager points to.
LEMMA OneIsOpen == ASSUME Assumptions, LoginInv PROVE OneOpenLogin
<1> DEFINE Open == {l \in Logins : login[l] = "waiting" /\ l \notin expired}
<1>1. Open \subseteq {pending}
    BY DEF LoginInv, OpenIsPending
<1>2. IsFiniteSet({pending}) /\ Cardinality({pending}) = 1
    BY FS_Singleton
<1>3. Cardinality(Open) <= 1
    BY <1>1, <1>2, FS_Subset
<1> QED BY <1>3 DEF OneOpenLogin

-----------------------------------------------------------------------------
(* All of them *)

\* The invariant of the command that runs, and that of the logins, which rest
\* while another command runs.
AllInv ==
    /\ LoginInv
    /\ which = "bulk" => BulkInv
    /\ which = "storage" => UploadInv
    /\ which = "upsert" => UpsertInv
    /\ which = "create" => CreateInv
    /\ which = "objects" => ObjInv /\ AllDone
    /\ which = "seed" => SeedInv
    /\ which = "serve" => ServeInv
    /\ which = "branches" => LocalInv

\* The first state is one of the command that runs.
LEMMA AllInvInit == AllInit => AllInv
<1> SUFFICES ASSUME AllInit PROVE AllInv
    OBVIOUS
<1>1. Init
    BY DEF AllInit, LoginRests
<1>2. /\ which = "bulk" => Bulk!Init
      /\ which = "storage" => Storage!Init
      /\ which = "upsert" => Upsert!Init
      /\ which = "create" => Create!Init
      /\ which = "objects" => Objects!Init
      /\ which = "seed" => Serving!Seed!Init
      /\ which = "serve" => Serving!Serve!Init
      /\ which = "branches" => Serving!Local!Init
    BY DEF AllInit, Serving!SeedInit, Serving!ServeInit, Serving!LocalInit
<1>3. LoginInv
    BY <1>1, LoginInvInit
<1>4. which = "bulk" => BulkInv
    BY <1>2, AllAssumptions, BulkInvInit
<1>5. which = "storage" => UploadInv
    BY <1>2, AllAssumptions, UploadInvInit
<1>6. which = "upsert" => UpsertInv
    BY <1>2, AllAssumptions, UpsertInvInit
<1>7. which = "create" => CreateInv
    BY <1>2, AllAssumptions, CreateInvInit
<1>8. which = "objects" => ObjInv /\ AllDone
    BY <1>2, AllAssumptions, ObjInvInit, AllDoneInit
<1>9. which = "seed" => SeedInv
    BY <1>2, AllAssumptions, SeedInvInit DEF Serving!Assumptions
<1>10. which = "serve" => ServeInv
    BY <1>2, AllAssumptions, ServeInvInit DEF Serving!Assumptions
<1>11. which = "branches" => LocalInv
    BY <1>2, AllAssumptions, LocalInvInit DEF Serving!Assumptions
<1> QED BY <1>3, <1>4, <1>5, <1>6, <1>7, <1>8, <1>9, <1>10, <1>11 DEF AllInv

\* A step of all is a step of the command that runs.
LEMMA AllStep ==
    ASSUME [AllNext]_allVars
    PROVE  /\ which' = which
           /\ [Next]_vars
           /\ which = "bulk" => [Bulk!Next]_(Bulk!vars)
           /\ which = "storage" => [Storage!Next]_(Storage!vars)
           /\ which = "upsert" => [Upsert!Next]_(Upsert!vars)
           /\ which = "create" => [Create!Next]_(Create!vars)
           /\ which = "objects" => [Objects!Next]_(Objects!vars)
           /\ which = "seed" => [Serving!Seed!Next]_(Serving!Seed!vars)
           /\ which = "serve" => [Serving!Serve!Next]_(Serving!Serve!vars)
           /\ which = "branches" => [Serving!Local!Next]_(Serving!Local!vars)
<1>1. CASE AllNext
    BY <1>1 DEF AllNext, OthersOfBulk, OthersOfCreate, OthersOfLogin, OthersOfSeed, Single,
         Serving!SeedNext, Serving!OtherNext
<1>2. CASE UNCHANGED allVars
    <2>1. UNCHANGED <<which, vars, queueVars, bulkVars, storageVars, upsertVars, createVars,
                      objectVars, seedVars, serveVars, branchVars>>
        BY <1>2 DEF allVars, servingVars
    <2>2. UNCHANGED Bulk!vars /\ UNCHANGED Storage!vars
        BY <2>1 DEF queueVars, bulkVars, storageVars, Bulk!vars, Storage!vars, Bulk!ownVars,
             Storage!ownVars, Bulk!queueVars, Storage!queueVars
    <2>3. UNCHANGED Upsert!vars /\ UNCHANGED Create!vars
        BY <2>1 DEF upsertVars, createVars, Upsert!vars, Create!vars, Create!service
    <2>4. UNCHANGED Objects!vars
        BY <2>1 DEF objectVars, Objects!vars, Objects!world, Objects!service, Objects!fixed,
             Objects!walk, Objects!download
    <2>5. UNCHANGED Serving!Seed!vars
        BY <2>1 DEF queueVars, seedVars, Serving!Seed!vars, Serving!Seed!queueVars,
             Serving!Seed!serverVars, Serving!Seed!ownVars
    <2>6. UNCHANGED Serving!Serve!vars
        BY <2>1 DEF serveVars, Serving!Serve!vars, Serving!Serve!diskVars, Serving!Serve!watchVars,
             Serving!Serve!dockerVars, Serving!Serve!streamVars, Serving!Serve!runVars
    <2>7. UNCHANGED Serving!Local!vars
        BY <2>1 DEF branchVars, Serving!Local!vars
    <2> QED BY <2>1, <2>2, <2>3, <2>4, <2>5, <2>6, <2>7
<1> QED BY <1>1, <1>2

\* Every step keeps the invariant.
LEMMA AllInvNext == AllInv /\ [AllNext]_allVars => AllInv'
<1> SUFFICES ASSUME AllInv, [AllNext]_allVars PROVE AllInv'
    OBVIOUS
<1>1. LoginInv'
    BY AllAssumptions, AllStep, LoginInvNext DEF AllInv
<1>2. which' = which
    BY AllStep
<1>3. which = "bulk" => BulkInv'
    BY AllAssumptions, AllStep, BulkInvNext DEF AllInv
<1>4. which = "storage" => UploadInv'
    BY AllAssumptions, AllStep, UploadInvNext DEF AllInv
<1>5. which = "upsert" => UpsertInv'
    BY AllAssumptions, AllStep, UpsertInvNext DEF AllInv
<1>6. which = "create" => CreateInv'
    BY AllAssumptions, AllStep, CreateInvNext DEF AllInv
<1>7. which = "objects" => ObjInv' /\ AllDone'
    BY AllAssumptions, AllStep, ObjInvNext, AllDoneNext DEF AllInv
<1>8. which = "seed" => SeedInv'
    BY AllAssumptions, AllStep, SeedInvNext DEF AllInv, Serving!Assumptions
<1>9. which = "serve" => ServeInv'
    BY AllAssumptions, AllStep, ServeInvNext DEF AllInv, Serving!Assumptions
<1>10. which = "branches" => LocalInv'
    BY AllAssumptions, AllStep, LocalInvNext DEF AllInv, Serving!Assumptions
<1> QED BY <1>1, <1>2, <1>3, <1>4, <1>5, <1>6, <1>7, <1>8, <1>9, <1>10 DEF AllInv

\* The invariant holds always.
LEMMA AllInvAlways == AllSpec => []AllInv
BY AllInvInit, AllInvNext, PTL DEF AllSpec

\* Every variable of a command keeps its type.
THEOREM AllTypeOKAlways == AllSpec => []AllTypeOK
<1>1. AllInv => AllTypeOK
    <2> SUFFICES ASSUME AllInv PROVE AllTypeOK
        OBVIOUS
    <2>1. /\ which = "bulk" => Bulk!TypeOK
          /\ which = "storage" => Storage!TypeOK
          /\ which = "create" => Create!TypeOK
          /\ which = "objects" => Objects!TypeOK
        BY AllAssumptions, BulkInvSays, UploadInvSays, CreateInvSays, ObjInvSays DEF AllInv
    <2>2. TypeOK /\ (which = "upsert" => Upsert!TypeOK)
        BY DEF AllInv, LoginInv, UpsertInv
    <2>3. Serving!AnyTypeOK
        BY SeedInvSays, ServeInvSays DEF AllInv, LocalInv, Serving!AnyTypeOK
    <2> QED BY <2>1, <2>2, <2>3 DEF AllTypeOK
<1> QED BY <1>1, AllInvAlways, PTL

\* Deploying several functions is all or nothing: the bulk update names every
\* function, each with a bundle on the server, when no goroutine can write to
\* the slice any more, and no function is served when an upload has failed
\* (deploy.go:93-105).
THEOREM BulkIsAtomicAlways == AllSpec => []BulkIsAtomic
<1>1. AllInv => BulkIsAtomic
    BY BulkInvSays DEF AllInv, BulkIsAtomic
<1> QED BY <1>1, AllInvAlways, PTL

\* storage rm, mv and cp lose nothing that was not named, wherever they stop and
\* whatever others do meanwhile, and the data of a branch are somewhere until
\* it is deleted by its name.
THEOREM ObjectsAreKeptAlways == AllSpec => []ObjectsAreKept
<1>1. AllInv => ObjectsAreKept
    <2>1. AllInv => (which = "objects" => Objects!ObjectsAreKept)
        BY ObjInvSays DEF AllInv
    <2>2. AllInv => (which = "branches" => Serving!Local!BranchesAreKept)
        BY DEF AllInv, LocalInv
    <2> QED BY <2>1, <2>2 DEF ObjectsAreKept
<1> QED BY <1>1, AllInvAlways, PTL

\* A command that says it succeeded did all of what it was asked: every file is
\* stored, the deployment of a function or a page is its own and live, every
\* object of the directory is removed, moved or copied, every bucket is seeded,
\* and the branch that was switched to is the one the next start uses.
THEOREM SuccessMeansDoneAlways == AllSpec => []SuccessMeansDone
<1>1. AllInv => SuccessMeansDone
    <2> SUFFICES ASSUME AllInv PROVE SuccessMeansDone
        OBVIOUS
    <2>1. which = "storage" => Storage!SuccessMeansStored
        BY AllAssumptions, UploadInvSays DEF AllInv
    <2>2. which = "upsert" => Upsert!SuccessMeansDeployed
        BY AllAssumptions, UpsertInvSays DEF AllInv
    <2>3. which = "create" => Create!SuccessMeansLive
        BY AllAssumptions, CreateInvSays DEF AllInv
    <2>4. which = "objects" => Objects!SuccessMeansAll
        BY AllAssumptions, AllDoneSays DEF AllInv
    <2>5. which = "seed" => Serving!Seed!SuccessMeansSeeded
        BY AllAssumptions, SeedInvSays DEF AllInv, Serving!Assumptions
    <2>6. which = "branches" => Serving!Local!CurrentIsUsed
        BY AllAssumptions, LocalInvSays DEF AllInv, Serving!Assumptions
    <2> QED BY <2>1, <2>2, <2>3, <2>4, <2>5, <2>6 DEF SuccessMeansDone
<1> QED BY <1>1, AllInvAlways, PTL

\* When the copy returns, nothing can write to the bucket any more.
THEOREM NothingAfterReturnAlways == AllSpec => NothingAfterReturn
<1>1. AllInv /\ [AllNext]_allVars => [which = "storage" => Storage!NothingAfterReturnStep]_allVars
    <2> SUFFICES ASSUME AllInv, [AllNext]_allVars, which = "storage"
                 PROVE  Storage!NothingAfterReturnStep
        OBVIOUS
    <2>1. UploadInv
        BY DEF AllInv
    <2>2. [Storage!Next]_(Storage!vars)
        BY AllStep
    <2> QED BY <2>1, <2>2, UploadStepAfter
<1> QED BY <1>1, AllInvAlways, PTL DEF AllSpec, NothingAfterReturn

\* A create that was carried out, or forestalled, costs one attempt and no more,
\* and functions serve takes no restart for a failure of the runtime.
THEOREM GivesUpOnlyOnOutagesAlways == AllSpec => []GivesUpOnlyOnOutages
<1>1. AllInv => GivesUpOnlyOnOutages
    <2>1. AllInv => (which = "upsert" => Upsert!GivesUpOnlyOnOutages)
        BY DEF AllInv, UpsertInv
    <2>2. AllInv => (which = "serve" => Serving!Serve!RestartIsNoFailure)
        BY ServeInvSays DEF AllInv
    <2> QED BY <2>1, <2>2 DEF GivesUpOnlyOnOutages
<1> QED BY <1>1, AllInvAlways, PTL

\* Fast create works on one branch that was Ready, and does nothing twice.
THEOREM OneBranchOnceAlways == AllSpec => []OneBranchOnce
<1>1. AllInv => OneBranchOnce
    BY AllAssumptions, CreateInvSays DEF AllInv, OneBranchOnce
<1> QED BY <1>1, AllInvAlways, PTL

\* requireLogin of policy.go hands out the URL of the pending login as long as
\* that can be completed, and starts another only afterwards.
THEOREM OneOpenLoginAlways == AllSpec => []OneOpenLogin
<1>1. AllInv => OneOpenLogin
    BY AllAssumptions, OneIsOpen DEF AllInv
<1> QED BY <1>1, AllInvAlways, PTL

\* manager.wait records a result for the login that has it, and for no other
\* that was started since.
THEOREM StatusIsOwnResultAlways == AllSpec => []StatusIsOwnResult
<1>1. AllInv => StatusIsOwnResult
    BY DEF AllInv, LoginInv, OwnResult, StatusIsOwnResult
<1> QED BY <1>1, AllInvAlways, PTL
=============================================================================
