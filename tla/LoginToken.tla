------------------------------ MODULE LoginToken ------------------------------
(***************************************************************************)
(* internal/volcengine/console_login.go, EnsureValidLoginToken: using and  *)
(* refreshing the cached token of one console login session.               *)
(*                                                                         *)
(* A command reads the cache file of the session.  When the credentials in *)
(* it are about to expire it exchanges the refresh token for a new grant,  *)
(* retrying answers that tell of a passing error, and writes the cache     *)
(* file.  A failure to write is only a warning.  Any number of commands do *)
(* so at the same time, and `logout` removes the file and the profile.     *)
(* The login service is external: it may issue a new refresh token with    *)
(* each grant, and then accepts the newest one only.                       *)
(***************************************************************************)
EXTENDS FiniteSets, Integers

CONSTANTS Procs,        \* commands that need credentials
          MaxAttempts,  \* 3 in the code
          MaxGrants,    \* a bound on the grants the service issues
          Worlds        \* what service and machine may do: see World

\* Whether the service replaces the refresh token; whether answers get lost,
\* writes fail and processes die.
World == [rotates : BOOLEAN, losses : BOOLEAN]

Assumptions ==
    MaxAttempts \in Nat \ {0} /\ MaxGrants \in Nat \ {0} /\ Worlds \subseteq World

VARIABLES grants,   \* service: how many grants it has issued
          accepts,  \* service: the refresh tokens it accepts, named by grant
          expired,  \* the grants whose credentials are past their margin
          cache,    \* the grant in the cache file, 0 when there is no file
          profile,  \* the profile is in config.json
          proc,     \* each command: where it is, the grant it has read or got
          attempt,  \* its exchanges so far
          world     \* what happens in this behaviour; it never changes

vars == <<grants, accepts, expired, cache, profile, proc, attempt, world>>

Grants == 1..MaxGrants
Places == {"idle", "read", "exchange", "write"}

TypeOK ==
    /\ grants \in Grants
    /\ accepts \subseteq Grants
    /\ expired \subseteq Grants
    /\ cache \in {0} \union Grants
    /\ profile \in BOOLEAN
    /\ proc \in [Procs -> [at : Places, grant : {0} \union Grants]]
    /\ attempt \in [Procs -> 0..MaxAttempts]

\* The user has logged in: grant 1.
Init ==
    /\ grants = 1
    /\ accepts = {1}
    /\ expired = {}
    /\ cache = 1
    /\ profile = TRUE
    /\ proc = [p \in Procs |-> [at |-> "idle", grant |-> 0]]
    /\ attempt = [p \in Procs |-> 0]
    /\ world \in Worlds

\* The command has its credentials, or fails.
Return(p) ==
    /\ proc' = [proc EXCEPT ![p] = [at |-> "idle", grant |-> 0]]
    /\ attempt' = [attempt EXCEPT ![p] = 0]

\* loadConfig: a command with a profile goes on to its token.
Begin(p) ==
    /\ proc[p].at = "idle"
    /\ profile
    /\ proc' = [proc EXCEPT ![p] = [at |-> "read", grant |-> 0]]
    /\ UNCHANGED <<grants, accepts, expired, cache, profile, attempt, world>>

\* time.Now() is more than 60 seconds before the expiration.
Fresh(g) == g \notin expired

\* readLoginCache, and the check of the expiration.
Read(p) ==
    /\ proc[p].at = "read"
    /\ IF cache = 0 \/ Fresh(cache) THEN Return(p)
       ELSE /\ proc' = [proc EXCEPT ![p].at = "exchange", ![p].grant = cache]
            /\ UNCHANGED attempt
    /\ UNCHANGED <<grants, accepts, expired, cache, profile, world>>

\* The service issues a new grant for refresh token g.
Issue(g) ==
    /\ g \in accepts
    /\ grants < MaxGrants
    /\ grants' = grants + 1
    /\ accepts' = (IF world.rotates THEN accepts \ {g} ELSE accepts) \union {grants + 1}

\* The exchange is carried out and answered.
Exchange(p) ==
    /\ proc[p].at = "exchange"
    /\ Issue(proc[p].grant)
    /\ proc' = [proc EXCEPT ![p].at = "write", ![p].grant = grants']
    /\ attempt' = [attempt EXCEPT ![p] = 0]
    /\ UNCHANGED <<expired, cache, profile, world>>

\* An unknown refresh token, or an answer that never came: no retry.
Rejected(p) ==
    /\ proc[p].at = "exchange"
    /\ \/ proc[p].grant \notin accepts /\ UNCHANGED <<grants, accepts>>
       \/ world.losses /\ UNCHANGED <<grants, accepts>>
       \/ world.losses /\ Issue(proc[p].grant)
    /\ Return(p)
    /\ UNCHANGED <<expired, cache, profile, world>>

\* 429, 408 or 5xx, which may hide that the exchange was carried out: another
\* attempt, up to MaxAttempts.
PassingError(p) ==
    /\ proc[p].at = "exchange"
    /\ UNCHANGED <<grants, accepts>> \/ (world.losses /\ Issue(proc[p].grant))
    /\ IF attempt[p] + 1 < MaxAttempts
       THEN attempt' = [attempt EXCEPT ![p] = @ + 1] /\ UNCHANGED proc
       ELSE Return(p)
    /\ UNCHANGED <<expired, cache, profile, world>>

\* Mutant of Write: the answer is used and not kept.
WriteForgotten(p) ==
    /\ proc[p].at = "write"
    /\ Return(p)
    /\ UNCHANGED <<grants, accepts, expired, cache, profile, world>>

\* writeLoginCache: a temporary file and a rename.
Write(p) ==
    /\ proc[p].at = "write"
    /\ cache' = proc[p].grant \/ (world.losses /\ UNCHANGED cache)
    /\ Return(p)
    /\ UNCHANGED <<grants, accepts, expired, profile, world>>

Die(p) ==
    /\ world.losses
    /\ proc[p].at # "idle"
    /\ Return(p)
    /\ UNCHANGED <<grants, accepts, expired, cache, profile, world>>

\* Time passes.
Expire(g) ==
    /\ g \notin expired
    /\ g <= grants
    /\ expired' = expired \union {g}
    /\ UNCHANGED <<grants, accepts, cache, profile, proc, attempt, world>>

\* RunConsoleLogout, and completeConsoleLogin with the same identity.
Logout ==
    /\ profile
    /\ cache' = 0
    /\ profile' = FALSE
    /\ UNCHANGED <<grants, accepts, expired, proc, attempt, world>>

Login ==
    /\ grants < MaxGrants
    /\ grants' = grants + 1
    /\ accepts' = accepts \union {grants + 1}
    /\ cache' = grants + 1
    /\ profile' = TRUE
    /\ UNCHANGED <<expired, proc, attempt, world>>

Command(p) == Read(p) \/ Exchange(p) \/ Rejected(p) \/ PassingError(p) \/ Write(p)

Next ==
    \/ \E p \in Procs : Begin(p) \/ Command(p) \/ Die(p)
    \/ \E g \in Grants : Expire(g)
    \/ Logout \/ Login

Spec == Init /\ [][Next]_vars

-----------------------------------------------------------------------------
(* Properties *)

Resting == \A p \in Procs : proc[p].at = "idle"

\* The session survives any number of commands that refresh it at the same
\* time, and a logout and a new login in between: when none is running, the
\* cache of a profile holds a refresh token the service accepts.  With a
\* service that replaces the refresh token this needs that no answer is lost
\* and no command dies; with one that does not, nothing.
SessionSurvives ==
    ~(world.rotates /\ world.losses) /\ Resting /\ profile => cache \in accepts
=============================================================================
