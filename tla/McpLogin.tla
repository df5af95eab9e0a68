------------------------------- MODULE McpLogin -------------------------------
(***************************************************************************)
(* internal/mcp/policy.go: the login of the MCP server.                    *)
(*                                                                         *)
(* Tool calls run at the same time.  Each resolves its credentials with    *)
(* policy.config: it loads them, and when the machine has no profile at    *)
(* all it asks the login manager, which answers with the URL of a pending  *)
(* login, starting one if there is none.  A pending login is a callback    *)
(* server and a goroutine (StartPendingConsoleLogin) that ends with one    *)
(* value on a channel; another goroutine (wait) takes it and records it    *)
(* in the manager.  requireLogin and wait hold the manager's mutex; the    *)
(* credential files change without it.                                     *)
(***************************************************************************)
EXTENDS FiniteSets, Integers

CONSTANTS Calls,   \* the tool calls
          Logins,  \* the logins that can be started: a bound
          None

Assumptions == IsFiniteSet(Calls) /\ IsFiniteSet(Logins) /\ None \notin Logins

VARIABLES profile,  \* the machine's profile: none, usable, or with a dead token
          pending,  \* the manager: the login it points to
          status,   \* the Status of the pendingLogin of each login
          login,    \* the goroutine of each login
          waiter,   \* the goroutine manager.wait of each login
          expired,  \* the logins whose ExpiresAt has passed
          mu,       \* who holds the mutex
          call,     \* where each tool call is
          cfg,      \* the configuration it loaded first: complete or zero
          answer    \* what policy.config returned to it

vars == <<profile, pending, status, login, waiter, expired, mu, call, cfg, answer>>

TypeOK ==
    /\ profile \in {"none", "usable", "dead"}
    /\ pending \in Logins \union {None}
    /\ status \in [Logins -> {"unset", "pending", "succeeded", "failed"}]
    /\ login \in [Logins -> {"new", "waiting", "exchange", "succeeded", "failed"}]
    /\ waiter \in [Logins -> {"new", "waiting", "locked", "done"}]
    /\ expired \subseteq Logins
    /\ mu \in Calls \union Logins \union {None}
    /\ call \in [Calls -> {"start", "detect", "lock", "reload", "decide", "returned"}]
    /\ cfg \in [Calls -> {"zero", "complete"}]
    /\ answer \in [Calls -> {"none", "ok", "error"} \union Logins]

Init ==
    /\ profile \in {"none", "usable"}
    /\ pending = None
    /\ status = [l \in Logins |-> "unset"]
    /\ login = [l \in Logins |-> "new"]
    /\ waiter = [l \in Logins |-> "new"]
    /\ expired = {}
    /\ mu = None
    /\ call = [c \in Calls |-> "start"]
    /\ cfg = [c \in Calls |-> "zero"]
    /\ answer = [c \in Calls |-> "none"]

Loads == profile = "usable"

Goto(c, place) == call' = [call EXCEPT ![c] = place]
Answer(c, a) == answer' = [answer EXCEPT ![c] = a] /\ Goto(c, "returned")

-----------------------------------------------------------------------------
(* policy.config *)

\* cfg, err := LoadConfigFromEnv(); if err == nil { return cfg, nil }
LoadConfig(c) ==
    /\ call[c] = "start"
    /\ IF Loads THEN cfg' = [cfg EXCEPT ![c] = "complete"] /\ Answer(c, "ok")
                ELSE Goto(c, "detect") /\ UNCHANGED <<cfg, answer>>
    /\ UNCHANGED <<profile, pending, status, login, waiter, expired, mu>>

\* HasNoProfilesAndNoCredentialsEnv
Detect(c) ==
    /\ call[c] = "detect"
    /\ IF profile = "none" THEN Goto(c, "lock") /\ UNCHANGED answer ELSE Answer(c, "error")
    /\ UNCHANGED <<profile, pending, status, login, waiter, expired, mu, cfg>>

\* m.mu.Lock()
Lock(c) ==
    /\ call[c] = "lock"
    /\ mu = None
    /\ mu' = c
    /\ Goto(c, "reload")
    /\ UNCHANGED <<profile, pending, status, login, waiter, expired, cfg, answer>>

\* if _, err := LoadConfigFromEnv(); err == nil { return nil }
Reload(c) ==
    /\ call[c] = "reload"
    /\ IF Loads THEN Answer(c, "ok") /\ mu' = None
                ELSE Goto(c, "decide") /\ UNCHANGED <<answer, mu>>
    /\ UNCHANGED <<profile, pending, status, login, waiter, expired, cfg>>

\* StartPendingConsoleLogin, and go m.wait(current, pending.Done).  The
\* callback server may fail to start.
StartLogin(c) ==
    \/ \E l \in Logins :
          /\ login[l] = "new"
          /\ login' = [login EXCEPT ![l] = "waiting"]
          /\ waiter' = [waiter EXCEPT ![l] = "waiting"]
          /\ status' = [status EXCEPT ![l] = "pending"]
          /\ pending' = l
          /\ Answer(c, l)
    \/ pending' = None /\ Answer(c, "error") /\ UNCHANGED <<login, waiter, status>>

\* Mutant of StillPending: every call starts a login of its own.
NeverPending == FALSE

\* m.pending.Status == "pending" && now.Before(m.pending.ExpiresAt)
StillPending == pending # None /\ status[pending] = "pending" /\ pending \notin expired

\* The rest of requireLogin, up to the deferred unlock.
RequireLogin(c) ==
    /\ call[c] = "decide"
    /\ mu' = None
    /\ \/ /\ pending # None /\ status[pending] = "succeeded"
          /\ pending' = None
          /\ Answer(c, "ok")
          /\ UNCHANGED <<login, waiter, status>>
       \/ /\ StillPending
          /\ Answer(c, pending)
          /\ UNCHANGED <<pending, login, waiter, status>>
       \/ /\ ~(pending # None /\ status[pending] = "succeeded") /\ ~StillPending
          /\ StartLogin(c)
    /\ UNCHANGED <<profile, expired, cfg>>

-----------------------------------------------------------------------------
(* The goroutines of a login *)

\* The browser comes back with a code, with an error or a wrong state; or the
\* callback server gives up, after ExpiresAt.
Callback(l) ==
    /\ login[l] = "waiting"
    /\ login' = [login EXCEPT ![l] = "exchange"]
    /\ UNCHANGED <<profile, pending, status, waiter, expired, mu, call, cfg, answer>>

LoginFails(l) ==
    /\ login[l] \in {"waiting", "exchange"}
    /\ login' = [login EXCEPT ![l] = "failed"]
    /\ UNCHANGED <<profile, pending, status, waiter, expired, mu, call, cfg, answer>>

\* completeConsoleLogin: the profile is saved, then done <- nil.
CompleteLogin(l) ==
    /\ login[l] = "exchange"
    /\ profile' = "usable"
    /\ login' = [login EXCEPT ![l] = "succeeded"]
    /\ UNCHANGED <<pending, status, waiter, expired, mu, call, cfg, answer>>

\* err := <-done; m.mu.Lock()
WaitLock(l) ==
    /\ waiter[l] = "waiting"
    /\ login[l] \in {"succeeded", "failed"}
    /\ mu = None
    /\ mu' = l
    /\ waiter' = [waiter EXCEPT ![l] = "locked"]
    /\ UNCHANGED <<profile, pending, status, login, expired, call, cfg, answer>>

\* Mutant of Record: the result goes to whichever login is pending now.
RecordForCurrent(l) ==
    IF pending # None THEN status' = [status EXCEPT ![pending] = login[l]] ELSE UNCHANGED status

\* if m.pending != current { return }
Record(l) == IF pending = l THEN status' = [status EXCEPT ![l] = login[l]] ELSE UNCHANGED status

WaitRecord(l) ==
    /\ waiter[l] = "locked"
    /\ Record(l)
    /\ mu' = None
    /\ waiter' = [waiter EXCEPT ![l] = "done"]
    /\ UNCHANGED <<profile, pending, login, expired, call, cfg, answer>>

-----------------------------------------------------------------------------
(* The world *)

Expire(l) ==
    /\ login[l] # "new"
    /\ l \notin expired
    /\ expired' = expired \union {l}
    /\ UNCHANGED <<profile, pending, status, login, waiter, mu, call, cfg, answer>>

\* Another command logs out, logs in, or the token can no longer be refreshed.
OtherCommand ==
    /\ profile' \in {"none", "usable", "dead"} \ {profile}
    /\ (profile = "none") => (profile' = "usable")
    /\ UNCHANGED <<pending, status, login, waiter, expired, mu, call, cfg, answer>>

Handler(c) == LoadConfig(c) \/ Detect(c) \/ Lock(c) \/ Reload(c) \/ RequireLogin(c)
Waiter(l) == WaitLock(l) \/ WaitRecord(l)

Next ==
    \/ \E c \in Calls : Handler(c)
    \/ \E l \in Logins : Callback(l) \/ LoginFails(l) \/ CompleteLogin(l) \/ Waiter(l) \/ Expire(l)
    \/ OtherCommand

\* The runtime runs a goroutine that can go on, and a sync.Mutex does not
\* starve one that waits for it.  Users and other commands promise nothing;
\* an unanswered login ends with its timeout.
Fairness ==
    /\ \A c \in Calls : SF_vars(Handler(c))
    /\ \A l \in Logins : SF_vars(Waiter(l)) /\ WF_vars(LoginFails(l) \/ CompleteLogin(l))

Spec == Init /\ [][Next]_vars /\ Fairness

-----------------------------------------------------------------------------
(* Properties *)

\* At most one login that a user could still complete in time has its URL
\* handed out: concurrent tool calls do not open one login page each.
OneOpenLogin == Cardinality({l \in Logins : login[l] = "waiting" /\ l \notin expired}) <= 1

\* The manager reports a login as succeeded or failed only when that very
\* login has: a late result of a superseded login is not taken for it.
StatusIsOwnResult ==
    \A l \in Logins : status[l] \in {"succeeded", "failed"} => login[l] = status[l]

\* Every tool call is answered.
CallsReturn == \A c \in Calls : <>(call[c] = "returned")
=============================================================================
