------------------------------ MODULE WorkPool ------------------------------
(***************************************************************************)
(* What pkg/queue promises its caller, with no channel and no wait group:  *)
(* at most Workers jobs run at a time, every error a job returns is handed *)
(* to the caller once, and Collect returns when nothing runs, with every   *)
(* error not handed over before.  JobQueue implements this module.         *)
(***************************************************************************)
EXTENDS FiniteSets, Naturals

CONSTANTS Jobs, Workers

VARIABLES live,        \* the jobs that have started and not yet finished
          unreported,  \* the finished jobs whose error the caller has not seen
          reported,    \* the jobs whose error the caller has seen
          fresh        \* the jobs never handed to the pool

vars == <<live, unreported, reported, fresh>>

Init ==
    /\ live = {}
    /\ unreported = {}
    /\ reported = {}
    /\ fresh = Jobs

\* Put: a job starts, and the caller may be given one error of an earlier job.
Start(j) ==
    /\ j \in fresh
    /\ Cardinality(live) < Workers
    /\ live' = live \union {j}
    /\ fresh' = fresh \ {j}
    /\ \E errs \in {{}} \union {{e} : e \in unreported} :
          /\ unreported' = unreported \ errs
          /\ reported' = reported \union errs

\* A job ends, with an error or without.
Finish(j) ==
    /\ j \in live
    /\ live' = live \ {j}
    /\ unreported' \in {unreported, unreported \union {j}}
    /\ UNCHANGED <<reported, fresh>>

\* Collect returns: nothing runs, and every error not yet seen is returned.
Collected ==
    /\ live = {}
    /\ reported' = reported \union unreported
    /\ unreported' = {}
    /\ UNCHANGED <<live, fresh>>

Next ==
    \/ \E j \in Jobs : Start(j) \/ Finish(j)
    \/ Collected

Spec == Init /\ [][Next]_vars
=============================================================================
