---------------------------- MODULE LocalBranches ----------------------------
(***************************************************************************)
(* legacy/branch: branches of the local database.  The current branch is   *)
(* the database postgres; every other one is a database of its name, and a *)
(* directory of its name says that it exists.  A switch renames two        *)
(* databases and then writes the name of the current branch to a file;     *)
(* nothing makes the three one step.  Commands run one after the other; a  *)
(* step may fail and a command may be killed between any two.  Postgres    *)
(* and Docker are external.                                                *)
(***************************************************************************)
EXTENDS Integers

CONSTANTS Names,   \* of branches, "main" among them
          Turns    \* bound: how many commands are run

\* Names are told from what else a database may hold, nothing or a part of a dump.
Assumptions ==
    "main" \in Names /\ Names \cap {"postgres", "none", "partial"} = {} /\ Turns \in Nat

VARIABLES dbs,      \* Postgres: the branch whose data each database holds
          closed,   \* Postgres: the branches whose database allows no connection
          dirs,     \* .branches: the directories
          current,  \* .branches/_current_branch
          cmd,      \* the command that runs: operation, branch, next step
          turns,    \* how many commands are left
          born,     \* the branches that were made and not deleted
          cut       \* a command was killed, or failed between the renames and the file

vars == <<dbs, closed, dirs, current, cmd, turns, born, cut>>

Idle == [op |-> "none", branch |-> "main", step |-> "none"]
Operations == {"create", "switch", "delete"}
Databases == Names \union {"postgres"}

TypeOK ==
    /\ dbs \in [Databases -> Names \union {"none", "partial"}]
    /\ closed \subseteq Names /\ dirs \subseteq Names /\ current \in Names
    /\ cmd \in [op : Operations \union {"none"}, branch : Names,
                step : {"none", "check", "clone", "dump", "mkdir", "disconnect", "backup", "rename",
                        "rollback", "write", "drop", "done"}]
    /\ turns \in 0..Turns /\ born \subseteq Names /\ cut \in BOOLEAN

\* initCurrentBranch of db start.
Init ==
    /\ dbs = [n \in Databases |-> IF n = "postgres" THEN "main" ELSE "none"]
    /\ closed = {} /\ dirs = {} /\ current = "main"
    /\ cmd = Idle /\ turns = Turns /\ born = {"main"} /\ cut = FALSE

Begin ==
    /\ cmd.step \in {"none", "done"} /\ turns > 0
    /\ turns' = turns - 1
    /\ \E op \in Operations : \E b \in Names : cmd' = [op |-> op, branch |-> b, step |-> "check"]
    /\ UNCHANGED <<dbs, closed, dirs, current, born, cut>>

At(op, step) == cmd.op = op /\ cmd.step = step
Goes(step) == cmd' = [cmd EXCEPT !.step = step]
Ends == cmd' = Idle

\* A step that returns an error, or the death of the process; a switch that ends
\* after its first rename, but for a rollback, leaves databases and file apart.
Stop ==
    /\ cmd.step \notin {"none", "done"}
    /\ Ends
    /\ cut' = (cut \/ cmd.step \in {"rename", "rollback", "write"})
    /\ UNCHANGED <<dbs, closed, dirs, current, turns, born>>

-----------------------------------------------------------------------------
(* create *)

\* A name that is reserved or taken: Run returns nil, as if it had made the branch.
CreateCheck ==
    /\ At("create", "check")
    /\ IF cmd.branch = "main" \/ cmd.branch \in dirs THEN Ends ELSE Goes("clone")
    /\ UNCHANGED <<dbs, closed, dirs, current, turns, born, cut>>

\* createdb of clone.sh, which refuses a database that is there.
Clone ==
    /\ At("create", "clone") /\ dbs[cmd.branch] = "none"
    /\ dbs' = [dbs EXCEPT ![cmd.branch] = "partial"]
    /\ Goes("dump")
    /\ UNCHANGED <<closed, dirs, current, turns, born, cut>>

\* pg_dump postgres | psql, which needs a database to connect to.
Dump ==
    /\ At("create", "dump") /\ dbs["postgres"] \in Names \ closed
    /\ dbs' = [dbs EXCEPT ![cmd.branch] = cmd.branch]
    /\ born' = born \union {cmd.branch}
    /\ Goes("mkdir")
    /\ UNCHANGED <<closed, dirs, current, turns, cut>>

MakeDir ==
    /\ At("create", "mkdir")
    /\ dirs' = dirs \union {cmd.branch}
    /\ Goes("done")
    /\ UNCHANGED <<dbs, closed, current, turns, born, cut>>

-----------------------------------------------------------------------------
(* switch *)

\* Only a branch with a directory can be switched to; that need not be main.
SwitchCheck ==
    /\ At("switch", "check") /\ cmd.branch \in dirs
    /\ Goes(IF current = cmd.branch THEN "write" ELSE "disconnect")
    /\ UNCHANGED <<dbs, closed, dirs, current, turns, born, cut>>

\* DisconnectClients: postgres allows no connections any more, whatever its name
\* will be; or nothing is changed, which is no error when a database is missing.
Disconnect ==
    /\ At("switch", "disconnect")
    /\ closed' \in {closed, closed \union ({dbs["postgres"]} \intersect Names)}
    /\ Goes("backup")
    /\ UNCHANGED <<dbs, dirs, current, turns, born, cut>>

Renamed(from, to) == [dbs EXCEPT ![to] = dbs[from], ![from] = "none"]
CanRename(from, to) == dbs[from] # "none" /\ dbs[to] = "none"

\* ALTER DATABASE postgres RENAME TO source
Backup ==
    /\ At("switch", "backup") /\ CanRename("postgres", current)
    /\ dbs' = Renamed("postgres", current)
    /\ Goes("rename")
    /\ UNCHANGED <<closed, dirs, current, turns, born, cut>>

\* ALTER DATABASE target RENAME TO postgres, which may fail also where it could be done.
Rename ==
    /\ At("switch", "rename")
    /\ \/ CanRename(cmd.branch, "postgres") /\ dbs' = Renamed(cmd.branch, "postgres") /\ Goes("write")
       \/ UNCHANGED dbs /\ Goes("rollback")
    /\ UNCHANGED <<closed, dirs, current, turns, born, cut>>

Rollback ==
    /\ At("switch", "rollback") /\ CanRename(current, "postgres")
    /\ dbs' = Renamed(current, "postgres")
    /\ Ends
    /\ UNCHANGED <<closed, dirs, current, turns, born, cut>>

Write ==
    /\ At("switch", "write")
    /\ current' = cmd.branch
    /\ Goes("done")
    /\ UNCHANGED <<dbs, closed, dirs, turns, born, cut>>

-----------------------------------------------------------------------------
(* delete *)

\* deleteBranchDir: not the current branch, not main, and one that has a directory.
DeleteCheck ==
    /\ At("delete", "check")
    /\ cmd.branch # current /\ cmd.branch # "main" /\ cmd.branch \in dirs
    /\ dirs' = dirs \ {cmd.branch}
    /\ Goes("drop")
    /\ UNCHANGED <<dbs, closed, current, turns, born, cut>>

Drop ==
    /\ At("delete", "drop") /\ dbs[cmd.branch] # "none"
    /\ dbs' = [dbs EXCEPT ![cmd.branch] = "none"]
    /\ born' = born \ {cmd.branch} /\ closed' = closed \ {cmd.branch}
    /\ Goes("done")
    /\ UNCHANGED <<dirs, current, turns, cut>>

-----------------------------------------------------------------------------

Next ==
    \/ Begin \/ Stop
    \/ CreateCheck \/ Clone \/ Dump \/ MakeDir
    \/ SwitchCheck \/ Disconnect \/ Backup \/ Rename \/ Rollback \/ Write
    \/ DeleteCheck \/ Drop

Spec == Init /\ [][Next]_vars

-----------------------------------------------------------------------------
(* Properties *)

\* The data of a branch is somewhere until the branch is deleted by its name,
\* wherever commands were killed or failed, and though the file may name another
\* branch than the databases do (switch_.go:71-84, delete.go:23-33).
BranchesAreKept == \A b \in born : \E n \in Databases : dbs[n] = b

\* Where no switch was cut short between its renames and the file, the current
\* branch of the file is the database that is used (switch_.go:48-57).
CurrentIsUsed == ~cut /\ cmd.step \in {"none", "done"} => dbs["postgres"] = current
=============================================================================
