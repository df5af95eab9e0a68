--------------------------- MODULE UpsertFunctions ---------------------------
(***************************************************************************)
(* pkg/function/batch.go: deploying bundled Edge Functions one by one.     *)
(*                                                                         *)
(* The functions of the project are listed once.  Each function of the     *)
(* configuration is then created, updated, or skipped when the list shows  *)
(* the same bundle and the same JWT setting.  Requests are retried up to   *)
(* MaxRetries times; when a create is answered with "Duplicated function   *)
(* slug" the next attempt is an update.  Several deployed functions are    *)
(* confirmed by one bulk update.  The server is external: a request may    *)
(* fail before or after it was carried out, and another client may create  *)
(* a function of the same name at any time.                                *)
(***************************************************************************)
EXTENDS FiniteSets, Integers

CONSTANTS Slugs,       \* the functions of the configuration
          MaxRetries,  \* 3 in the code
          Disabled,    \* those with enabled = false
          Undeployable \* those whose bundle is ErrNoDeploy

Assumptions ==
    /\ MaxRetries \in Nat
    /\ IsFiniteSet(Slugs) /\ Disabled \subseteq Slugs /\ Undeployable \subseteq Slugs

VARIABLES server,       \* what the server runs for each slug
          listed,       \* the list at the start, as read by the client
          slugToIndex,  \* the slugs taken to exist, and how they are known
          todo,         \* the functions not visited yet
          slug,         \* the function being deployed
          attempt,      \* failed attempts of the request under way
          outages,      \* how many of them the server or the network is to blame for
          toUpdate,     \* the functions to confirm
          pc

vars == <<server, listed, slugToIndex, todo, slug, attempt, outages, toUpdate, pc>>

NoSlug == "none"

\* What is deployed under a slug: bundle and JWT setting, and whether a bulk
\* update has confirmed it.
Deployed == [bundle : {"old", "new"}, jwt : BOOLEAN]
NotDeployed == [bundle |-> "none", jwt |-> FALSE]
Wanted == [bundle |-> "new", jwt |-> TRUE]

TypeOK ==
    /\ server \in [Slugs -> Deployed \union {NotDeployed}]
    /\ listed \in [Slugs -> Deployed \union {NotDeployed}]
    /\ slugToIndex \in [Slugs -> {"missing", "listed", "duplicate"}]
    /\ todo \subseteq Slugs
    /\ slug \in Slugs \union {NoSlug}
    /\ attempt \in 0..MaxRetries
    /\ outages \in 0..MaxRetries + 1
    /\ toUpdate \subseteq Slugs
    /\ pc \in {"list", "loop", "upsert", "bulk", "ok", "error"}

Init ==
    /\ server \in [Slugs -> Deployed \union {NotDeployed}]
    /\ listed = [s \in Slugs |-> NotDeployed]
    /\ slugToIndex = [s \in Slugs |-> "missing"]
    /\ todo = Slugs
    /\ slug = NoSlug
    /\ attempt = 0
    /\ outages = 0
    /\ toUpdate = {}
    /\ pc = "list"

-----------------------------------------------------------------------------
(* Retries *)

\* backoff.Retry: one more attempt, or the error is returned.
RetryOrReturn ==
    IF attempt < MaxRetries
    THEN attempt' = attempt + 1 /\ UNCHANGED pc
    ELSE pc' = "error" /\ UNCHANGED attempt

Outage == outages' = outages + 1 /\ RetryOrReturn

\* policy.Reset()
Reset == attempt' = 0 /\ outages' = 0

-----------------------------------------------------------------------------

List ==
    /\ pc = "list"
    /\ listed' = server
    /\ slugToIndex' = [s \in Slugs |-> IF server[s] = NotDeployed THEN "missing" ELSE "listed"]
    /\ pc' = "loop"
    /\ Reset
    /\ UNCHANGED <<server, todo, slug, toUpdate>>

\* A status below 500 is permanent: no retry.
ListFails ==
    /\ pc = "list"
    /\ Outage \/ (pc' = "error" /\ outages' = outages + 1 /\ UNCHANGED attempt)
    /\ UNCHANGED <<server, listed, slugToIndex, todo, slug, toUpdate>>

\* Mutant of Unchanged: only the bundle is compared.
SameBundle(s) == slugToIndex[s] = "listed" /\ listed[s].bundle = Wanted.bundle

\* The list shows the same bundle and the same JWT setting.
Unchanged(s) ==
    /\ slugToIndex[s] = "listed"
    /\ listed[s].bundle = Wanted.bundle
    /\ listed[s].jwt = Wanted.jwt

\* The next function, in the order of a Go map: skipped, or bundled.  Bundling
\* may fail.
NextFunction(s) ==
    /\ pc = "loop"
    /\ s \in todo
    /\ todo' = todo \ {s}
    /\ \/ /\ s \in Disabled \union Undeployable \/ Unchanged(s)
          /\ UNCHANGED <<slug, pc>>
       \/ /\ s \notin Disabled \union Undeployable /\ ~Unchanged(s)
          /\ slug' = s /\ pc' = "upsert"
       \/ /\ s \notin Disabled
          /\ pc' = "error" /\ UNCHANGED slug
    /\ UNCHANGED <<server, listed, slugToIndex, attempt, outages, toUpdate>>

\* toUpdate = append(toUpdate, result...)
Note(s) == toUpdate' = toUpdate \union {s}

\* updateFunction or createFunction is carried out and answered.
UpsertSucceeds ==
    /\ pc = "upsert"
    /\ (slugToIndex[slug] = "missing") <=> (server[slug] = NotDeployed)
    /\ server' = [server EXCEPT ![slug] = Wanted]
    /\ Note(slug)
    /\ slug' = NoSlug
    /\ pc' = "loop"
    /\ Reset
    /\ UNCHANGED <<listed, slugToIndex, todo>>

\* The request or its answer is lost, or the server fails (5xx).
UpsertFails ==
    /\ pc = "upsert"
    /\ \/ UNCHANGED server
       \/ /\ (slugToIndex[slug] = "missing") <=> (server[slug] = NotDeployed)
          /\ server' = [server EXCEPT ![slug] = Wanted]
    /\ Outage
    /\ UNCHANGED <<listed, slugToIndex, todo, slug, toUpdate>>

\* Mutant of Notified: the slug is not marked.
NotNotified == slugToIndex

\* The notify callback: slugToIndex[slug] = -1, if there is a next attempt.
Notified == IF attempt < MaxRetries THEN [slugToIndex EXCEPT ![slug] = "duplicate"] ELSE slugToIndex

\* "Duplicated function slug"
CreateRefused ==
    /\ pc = "upsert"
    /\ slugToIndex[slug] = "missing"
    /\ server[slug] # NotDeployed
    /\ slugToIndex' = Notified
    /\ RetryOrReturn
    /\ UNCHANGED <<server, listed, todo, slug, outages, toUpdate>>

EndOfLoop ==
    /\ pc = "loop"
    /\ todo = {}
    /\ pc' = IF Cardinality(toUpdate) > 1 THEN "bulk" ELSE "ok"
    /\ UNCHANGED <<server, listed, slugToIndex, todo, slug, attempt, outages, toUpdate>>

\* A bulk update changes no bundle and no JWT setting.
BulkUpdate ==
    /\ pc = "bulk"
    /\ \/ pc' = "ok" /\ Reset
       \/ Outage
    /\ UNCHANGED <<server, listed, slugToIndex, todo, slug, toUpdate>>

\* External: another client creates a function.
OtherClient(s) ==
    /\ pc \in {"list", "loop", "upsert"}
    /\ server[s] = NotDeployed
    /\ server' = [server EXCEPT ![s] = [Wanted EXCEPT !.bundle = "old"]]
    /\ UNCHANGED <<listed, slugToIndex, todo, slug, attempt, outages, toUpdate, pc>>

Ended == pc \in {"ok", "error"} /\ UNCHANGED vars

Next ==
    \/ List \/ ListFails
    \/ \E s \in Slugs : NextFunction(s) \/ OtherClient(s)
    \/ UpsertSucceeds \/ UpsertFails \/ CreateRefused
    \/ EndOfLoop \/ BulkUpdate
    \/ Ended

Spec == Init /\ [][Next]_vars

-----------------------------------------------------------------------------
(* Properties *)

\* A deploy that succeeds leaves every enabled function with the new bundle
\* and the configured JWT setting on the server, whatever was lost on the way
\* and whoever created functions meanwhile.
SuccessMeansDeployed ==
    pc = "ok" => \A s \in Slugs \ (Disabled \union Undeployable) :
                    server[s].bundle = Wanted.bundle /\ server[s].jwt = Wanted.jwt

\* A create whose answer was lost, or that another client forestalled, costs
\* one attempt and no more: an upsert gives up only after the server or the
\* network has failed it at least MaxRetries times.
GivesUpOnlyOnOutages == pc = "error" /\ slug # NoSlug => outages >= MaxRetries

=============================================================================
