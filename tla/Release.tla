------------------------------- MODULE Release -------------------------------
(***************************************************************************)
(* scripts/release.mjs: one version is a package for every platform and a  *)
(* main package that pins them.  They are published one by one, the main   *)
(* package last, to a registry in which nothing can be replaced.  A run    *)
(* that dies, or that was refused, is followed by another, which skips     *)
(* what is there; the tag may have been moved to another commit between,   *)
(* and two hosts may release at once.                                      *)
(***************************************************************************)
EXTENDS Naturals

CONSTANTS
    Hosts,      \* where the script runs
    Commits,    \* what the tag may stand at
    None,       \* not a commit
    Last,       \* the main package: the packages are numbered as they are published
    Runs        \* bound: how often the script is started

Assumptions == None \notin Commits /\ Last \in Nat \ {0} /\ Runs \in Nat

VARIABLES
    registry,   \* the gitHead of every package of the version, None if it is not there
    runs,
    host        \* per host: pc, HEAD, the packages found to exist, the one to publish

vars == <<registry, runs, host>>

Packages == 1..Last
Platforms == Packages \ {Last}

Start(h) ==
    /\ host[h].pc \in {"idle", "failed", "published"} /\ runs > 0
    /\ runs' = runs - 1
    /\ \E head \in Commits :
          host' = [host EXCEPT ![h] = [pc |-> "check", head |-> head, existing |-> {}, next |-> 1]]
    /\ UNCHANGED registry

Goes(h, pc) == host' = [host EXCEPT ![h].pc = pc] /\ UNCHANGED <<registry, runs>>

\* Any of the packages that are there is found; npm view may fail.
Found == SUBSET {p \in Packages : registry[p] # None}

\* Mutant of Resumes: what exists is not looked at.
ResumesUnchecked(h, existing) == Last \notin existing

\* Rail 4: the release is not complete, and what exists was built from HEAD.
Resumes(h, existing) ==
    Last \notin existing /\ \A p \in existing : registry[p] = host[h].head

\* The rails, before anything is published.  What they read does not change
\* any more, so it is one step.
Check(h) ==
    /\ host[h].pc = "check"
    /\ \/ \E existing \in Found :
             /\ Resumes(h, existing)
             /\ host' = [host EXCEPT ![h].pc = "publish", ![h].existing = existing]
             /\ UNCHANGED <<registry, runs>>
       \/ Goes(h, "failed")

\* On to the next package.
Advances(h) ==
    host' = [host EXCEPT ![h].next = @ + 1,
                         ![h].pc = IF host[h].next = Last THEN "published" ELSE "publish"]

Skip(h) ==
    /\ host[h].pc = "publish" /\ host[h].next \in host[h].existing
    /\ Advances(h)
    /\ UNCHANGED <<registry, runs>>

\* npm publish: done, done without an answer, refused because it is there, failed.
Publish(h) ==
    /\ host[h].pc = "publish" /\ host[h].next \notin host[h].existing
    /\ \/ /\ registry[host[h].next] = None
          /\ registry' = [registry EXCEPT ![host[h].next] = host[h].head]
          /\ Advances(h) \/ host' = [host EXCEPT ![h].pc = "verify"]
          /\ UNCHANGED runs
       \/ Goes(h, "verify")

\* The package is there, from HEAD.
Verified(h) == registry[host[h].next] = host[h].head

\* After an error of npm publish.
Verify(h) ==
    /\ host[h].pc = "verify"
    /\ \/ Verified(h) /\ Advances(h) /\ UNCHANGED <<registry, runs>>
       \/ Goes(h, "failed")

\* The script is killed.
Stop(h) == host[h].pc \in {"check", "publish", "verify"} /\ Goes(h, "failed")

Init ==
    /\ registry = [p \in Packages |-> None]
    /\ runs = Runs
    /\ \E head \in Commits :
          host = [h \in Hosts |-> [pc |-> "idle", head |-> head, existing |-> {}, next |-> 1]]

Next ==
    \E h \in Hosts : Start(h) \/ Check(h) \/ Skip(h) \/ Publish(h) \/ Verify(h) \/ Stop(h)

Spec == Init /\ [][Next]_vars

-----------------------------------------------------------------------------
(* Properties *)

TypeOK ==
    /\ registry \in [Packages -> Commits \union {None}]
    /\ runs \in 0..Runs
    /\ host \in [Hosts -> [pc : {"idle", "check", "publish", "verify", "failed", "published"},
                           head : Commits, existing : SUBSET Packages, next : 1..(Last + 1)]]

\* A version that can be installed has every platform, all built from one
\* commit, whatever was interrupted, retagged or released at the same time.
MainIsComplete ==
    registry[Last] # None => \A p \in Packages : registry[p] = registry[Last]

\* A run that reports success has released its own commit.
PublishedIsOwn ==
    \A h \in Hosts : host[h].pc = "published" => \A p \in Packages : registry[p] = host[h].head
=============================================================================
