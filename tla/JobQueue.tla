------------------------------ MODULE JobQueue ------------------------------
(***************************************************************************)
(* pkg/queue: a channel of errors used as a counting semaphore.            *)
(*                                                                         *)
(* NewJobQueue fills a channel of capacity maxConcurrency (Workers) with   *)
(* nil errors.  Put takes one of them out (an error of an earlier job, or  *)
(* nil) before it starts a goroutine for its job; the goroutine puts the   *)
(* job's own result back and then leaves the wait group.  Collect waits    *)
(* for the group and exchanges every result in the channel for a nil.      *)
(* Goroutines run in any order, and one is in the middle of its job, at    *)
(* the send, or between the send and wg.Done.  One goroutine calls the     *)
(* queue, as every user of the package does; which call comes next, and    *)
(* whether any comes, is left open.                                        *)
(***************************************************************************)
EXTENDS FiniteSets, Integers, Sequences

CONSTANTS Jobs,     \* the functions handed to Put
          Workers,  \* maxConcurrency
          Nil       \* the nil error

ASSUME JobsAssumption == IsFiniteSet(Jobs) /\ Nil \notin Jobs
ASSUME WorkersAssumption == Workers \in Nat

VARIABLES errCh,      \* the buffered channel; an error is named by its job
          wg,         \* the wait group's counter
          worker,     \* where the goroutine of each job is
          failed,     \* the jobs that returned an error
          pc,         \* where the calling goroutine is
          cur,        \* the job of the Put in progress
          i,          \* the loop counter of Collect
          collected,  \* the results Collect has taken out so far
          delivered   \* how often the error of each job was returned

queueVars == <<errCh, wg, worker, failed, pc, cur, i, collected, delivered>>

Results == Jobs \union {Nil}
Status == {"new", "running", "sending", "sent", "done"}
Places == {"idle", "put", "wait", "drain", "refill", "gone"}

TypeOK ==
    /\ errCh \in Seq(Results)
    /\ wg \in Nat
    /\ worker \in [Jobs -> Status]
    /\ failed \subseteq Jobs
    /\ pc \in Places
    /\ cur \in Results
    /\ i \in 0..Workers
    /\ collected \in Seq(Results)
    /\ delivered \in [Jobs -> Nat]

\* NewJobQueue: the channel is full of nil.
QueueInit ==
    /\ errCh = [n \in 1..Workers |-> Nil]
    /\ wg = 0
    /\ worker = [j \in Jobs |-> "new"]
    /\ failed = {}
    /\ pc = "idle"
    /\ cur = Nil
    /\ i = 0
    /\ collected = <<>>
    /\ delivered = [j \in Jobs |-> 0]

Times(seq, e) == Cardinality({n \in DOMAIN seq : seq[n] = e})

\* Mutant of Return: the errors are dropped.
ReturnNothing(errs) == UNCHANGED delivered

Return(errs) == delivered' = [j \in Jobs |-> delivered[j] + Times(errs, j)]

-----------------------------------------------------------------------------
(* The calling goroutine *)

CallPut(j) ==
    /\ pc = "idle"
    /\ worker[j] = "new"
    /\ pc' = "put"
    /\ cur' = j
    /\ UNCHANGED <<errCh, wg, worker, failed, i, collected, delivered>>

\* Mutant of Put: it does not wait for a token.
PutAtOnce ==
    /\ pc = "put"
    /\ errCh' = IF errCh = <<>> THEN errCh ELSE Tail(errCh)
    /\ wg' = wg + 1
    /\ worker' = [worker EXCEPT ![cur] = "running"]
    /\ Return(IF errCh = <<>> THEN errCh ELSE <<Head(errCh)>>)
    /\ pc' = "idle"
    /\ cur' = Nil
    /\ UNCHANGED <<failed, i, collected>>

\* Mutant of Put: the token is read but not taken.
PutKeepsToken ==
    /\ pc = "put"
    /\ errCh # <<>>
    /\ wg' = wg + 1
    /\ worker' = [worker EXCEPT ![cur] = "running"]
    /\ Return(<<Head(errCh)>>)
    /\ pc' = "idle"
    /\ cur' = Nil
    /\ UNCHANGED <<errCh, failed, i, collected>>

\* err := <-q.errCh; q.wg.Add(1); go ...; return err
Put ==
    /\ pc = "put"
    /\ errCh # <<>>
    /\ errCh' = Tail(errCh)
    /\ wg' = wg + 1
    /\ worker' = [worker EXCEPT ![cur] = "running"]
    /\ Return(<<Head(errCh)>>)
    /\ pc' = "idle"
    /\ cur' = Nil
    /\ UNCHANGED <<failed, i, collected>>

CallCollect ==
    /\ pc = "idle"
    /\ pc' = "wait"
    /\ UNCHANGED <<errCh, wg, worker, failed, cur, i, collected, delivered>>

\* Mutant of Wait: Collect does not wait for the goroutines.
WaitForNobody ==
    /\ pc = "wait"
    /\ pc' = "drain"
    /\ i' = 0
    /\ collected' = <<>>
    /\ UNCHANGED <<errCh, wg, worker, failed, cur, delivered>>

\* q.wg.Wait()
Wait ==
    /\ pc = "wait"
    /\ wg = 0
    /\ pc' = "drain"
    /\ i' = 0
    /\ collected' = <<>>
    /\ UNCHANGED <<errCh, wg, worker, failed, cur, delivered>>

\* Mutant of CollectReceive: the loop runs once too often.
CollectReceiveExtra ==
    /\ pc = "drain"
    /\ errCh # <<>>
    /\ errCh' = Tail(errCh)
    /\ collected' = Append(collected, Head(errCh))
    /\ pc' = "refill"
    /\ UNCHANGED <<wg, worker, failed, cur, i, delivered>>

\* err = append(err, <-q.errCh)
CollectReceive ==
    /\ pc = "drain"
    /\ i < Workers
    /\ errCh # <<>>
    /\ errCh' = Tail(errCh)
    /\ collected' = Append(collected, Head(errCh))
    /\ pc' = "refill"
    /\ UNCHANGED <<wg, worker, failed, cur, i, delivered>>

\* q.errCh <- nil
CollectRefill ==
    /\ pc = "refill"
    /\ Len(errCh) < Workers
    /\ errCh' = Append(errCh, Nil)
    /\ i' = i + 1
    /\ pc' = "drain"
    /\ UNCHANGED <<wg, worker, failed, cur, collected, delivered>>

\* return errors.Join(err...)
CollectReturn ==
    /\ pc = "drain"
    /\ i = Workers
    /\ Return(collected)
    /\ pc' = "idle"
    /\ i' = 0
    /\ collected' = <<>>
    /\ UNCHANGED <<errCh, wg, worker, failed, cur>>

\* The caller returns without calling Collect again; its goroutines run on.
Leave ==
    /\ pc = "idle"
    /\ pc' = "gone"
    /\ UNCHANGED <<errCh, wg, worker, failed, cur, i, collected, delivered>>

-----------------------------------------------------------------------------
(* The goroutine of a job *)

RunJob(j) ==
    /\ worker[j] = "running"
    /\ worker' = [worker EXCEPT ![j] = "sending"]
    /\ failed' \in {failed, failed \union {j}}
    /\ UNCHANGED <<errCh, wg, pc, cur, i, collected, delivered>>

\* q.errCh <- job(): blocks while the channel is full
SendResult(j) ==
    /\ worker[j] = "sending"
    /\ Len(errCh) < Workers
    /\ errCh' = Append(errCh, IF j \in failed THEN j ELSE Nil)
    /\ worker' = [worker EXCEPT ![j] = "sent"]
    /\ UNCHANGED <<wg, failed, pc, cur, i, collected, delivered>>

\* Mutant of Done: the wait group is never left.
DoneForgotten(j) ==
    /\ worker[j] = "sent"
    /\ worker' = [worker EXCEPT ![j] = "done"]
    /\ UNCHANGED <<errCh, wg, failed, pc, cur, i, collected, delivered>>

\* defer q.wg.Done()
Done(j) ==
    /\ worker[j] = "sent"
    /\ worker' = [worker EXCEPT ![j] = "done"]
    /\ wg' = wg - 1
    /\ UNCHANGED <<errCh, failed, pc, cur, i, collected, delivered>>

Goroutine(j) == RunJob(j) \/ SendResult(j) \/ Done(j)

CallSteps == Put \/ Wait \/ CollectReceive \/ CollectRefill \/ CollectReturn

Next ==
    \/ \E j \in Jobs : CallPut(j) \/ Goroutine(j)
    \/ CallCollect
    \/ CallSteps
    \/ Leave

Spec == QueueInit /\ [][Next]_queueVars

\* The Go scheduler runs every goroutine that can go on, and a job returns.
\* What the user of the queue calls next is no promise of the scheduler.
Fairness ==
    /\ WF_queueVars(CallSteps)
    /\ \A j \in Jobs : WF_queueVars(Goroutine(j))

FairSpec == Spec /\ Fairness

-----------------------------------------------------------------------------
(* Properties *)

Busy == {j \in Jobs : worker[j] \in {"running", "sending"}}
Unfinished == {j \in Jobs : worker[j] \in {"running", "sending", "sent"}}

\* The queue never runs more jobs at once than the concurrency it was made
\* with, whatever the caller does between its calls (queue.go:11-13).
AtMostWorkers == Cardinality(Busy) <= Workers

\* The send of a result never blocks: a goroutine always finds room in the
\* channel, also while Collect refills it, so wg.Done is always reached and
\* Collect cannot wait for a goroutine that waits for Collect.
SendNeverBlocks == \A j \in Jobs : worker[j] = "sending" => Len(errCh) < Workers

\* The error of a failed job is in the channel, in Collect's hands, or was
\* returned to the caller: it is never lost and never returned twice.
ErrorDeliveredOnce ==
    \A j \in Jobs :
       delivered[j] + Times(errCh, j) + Times(collected, j)
          = IF j \in failed /\ worker[j] \in {"sent", "done"} THEN 1 ELSE 0

\* When Collect returns, every job ever put has ended, the caller has been
\* given every error once, and the channel holds Workers nils again, so that
\* the queue can be used for another round.
CollectIsComplete ==
    [][CollectReturn =>
          /\ \A j \in Jobs : worker[j] \in {"new", "done"}
          /\ \A j \in Jobs : delivered'[j] = IF j \in failed THEN 1 ELSE 0
          /\ errCh' = [n \in 1..Workers |-> Nil]]_queueVars

\* Every call returns: Put gets a free worker, and Collect's goroutines end.
CallsReturn == pc \notin {"idle", "gone"} ~> pc = "idle"

-----------------------------------------------------------------------------
(* The inductive invariant behind the safety properties *)

\* The result Collect has received and not yet replaced by a nil.
Held == IF pc = "refill" THEN 1 ELSE 0

\* Every token is in the channel, owed by a goroutine, or held by Collect.
Tokens == Len(errCh) + Cardinality(Busy) + Held = Workers

\* The wait group counts the goroutines that have not called wg.Done.
Group == wg = Cardinality(Unfinished)

\* A Put in progress is for a job no goroutine has been started for.
PutFresh == pc = "put" => cur \in Jobs /\ worker[cur] = "new"

\* No goroutine is left while Collect exchanges the results, and the results
\* it has exchanged are the last ones in the channel.  Outside this loop it
\* has collected nothing.
Draining ==
    IF pc \in {"drain", "refill"}
    THEN /\ wg = 0
         /\ pc = "refill" => i < Workers
         /\ \A n \in DOMAIN errCh : n > Workers - i - Held => errCh[n] = Nil
    ELSE collected = <<>>

\* Only a job that ran has failed.
FailedRan == \A j \in failed : worker[j] \in {"sending", "sent", "done"}

Inv ==
    /\ TypeOK
    /\ Tokens
    /\ Group
    /\ PutFresh
    /\ Draining
    /\ FailedRan
    /\ ErrorDeliveredOnce

-----------------------------------------------------------------------------
(* Refinement: the pool without a channel *)

Pool == INSTANCE WorkPool WITH
    live <- Busy,
    fresh <- {j \in Jobs : worker[j] = "new"},
    reported <- {j \in Jobs : delivered[j] > 0},
    unreported <- {j \in failed : worker[j] \in {"sent", "done"} /\ delivered[j] = 0}

\* The queue implements WorkPool.
ImplementsPool == Pool!Spec
=============================================================================
