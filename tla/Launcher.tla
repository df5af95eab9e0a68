------------------------------ MODULE Launcher ------------------------------
(***************************************************************************)
(* bin/cli.js, which finds the native binary and runs it: the one npm has  *)
(* installed beside it, the one in the cache of the user, or one that it   *)
(* lets npm install into the cache.  Several launchers of one version run  *)
(* at once, each from a tree in which the binary can be resolved or not,   *)
(* and are killed at any step.  A directory lock lets one of them download *)
(* while the others wait for the binary.                                   *)
(***************************************************************************)
EXTENDS Integers, FiniteSets

CONSTANTS
    Procs,
    Starts      \* bound: launchers that users and hosts start

Assumptions == Starts \in Nat

VARIABLES
    cache,      \* the directory of the version: "none", "dirs" without binary, "part", "whole"
    lock,       \* the directory of the lock: "free", "fresh", "stale" (older than 15 minutes)
    starts,
    proc,       \* per process
    mirrored,   \* a mirror has made the directories of the version
    aged        \* a lock has become stale

vars == <<cache, lock, starts, proc, mirrored, aged>>

Kinds == {"run", "serve", "warm", "heal"}

\* pc: the next step; resolves: the tree has the binary; npm: npm has installed
\* it; end: "ran", "served later", "no binary", "killed"; ran: what was run.
Ended == [pc |-> "ended", kind |-> "run", resolves |-> FALSE, npm |-> FALSE,
          end |-> "none", ran |-> "none"]

Init ==
    /\ cache = "none" /\ lock = "free" /\ starts = Starts
    /\ proc = [p \in Procs |-> Ended]
    /\ mirrored = FALSE /\ aged = FALSE

\* fs.existsSync of the cached binary
Cached == cache \in {"part", "whole"}

Goes(p, pc) == proc' = [proc EXCEPT ![p].pc = pc]
Ends(p, end, ran) == proc' = [proc EXCEPT ![p].pc = "ended", ![p].end = end, ![p].ran = ran]

Start(p) ==
    /\ proc[p].pc = "ended" /\ starts > 0
    /\ starts' = starts - 1
    /\ \E kind \in Kinds \ {"heal"}, resolves \in BOOLEAN :
          proc' = [proc EXCEPT ![p] = [Ended EXCEPT !.pc = "locate", !.kind = kind,
                                                    !.resolves = resolves]]
    /\ UNCHANGED <<cache, lock, mirrored, aged>>

-----------------------------------------------------------------------------
(* Where the binary is *)

\* The binary is resolved and mirrored, or found in the cache; the user may
\* not want a download.
Locate(p) ==
    /\ proc[p].pc = "locate"
    /\ IF Cached THEN Ends(p, "ran", IF proc[p].resolves THEN "whole" ELSE cache)
       ELSE \/ Goes(p, IF proc[p].resolves THEN "mkdir"
                       ELSE IF proc[p].kind = "serve" THEN "detach" ELSE "check")
            \/ ~proc[p].resolves /\ Ends(p, "no binary", "none")
    /\ UNCHANGED <<cache, lock, starts, mirrored, aged>>

\* mcp serve leaves the download to a process of its own.
StartDetachedDownload(p) ==
    /\ proc[p].pc = "detach"
    /\ \E q \in Procs \ {p} :
          /\ proc[q].pc = "ended"
          /\ proc' = [proc EXCEPT ![p].pc = "ended", ![p].end = "served later",
                                  ![q] = [Ended EXCEPT !.pc = "check", !.kind = "heal"]]
    /\ UNCHANGED <<cache, lock, starts, mirrored, aged>>

\* mirrorToCache: the directories, the binary under another name, its name.
\* What fails is ignored: the resolved binary is run.
MirrorMkdir(p) ==
    /\ proc[p].pc = "mkdir"
    /\ \/ /\ cache' = (IF cache = "none" THEN "dirs" ELSE cache)
          /\ mirrored' = (mirrored \/ cache = "none")
          /\ Goes(p, "link")
       \/ Ends(p, "ran", "whole") /\ UNCHANGED <<cache, mirrored>>
    /\ UNCHANGED <<lock, starts, aged>>

\* Mutant of MirrorLink: the copy has the name of the binary before it is whole.
MirrorInPlace(p) ==
    /\ proc[p].pc = "link"
    /\ \/ Goes(p, "publish") /\ cache' = (IF cache = "dirs" THEN "part" ELSE cache)
       \/ Ends(p, "ran", "whole") /\ UNCHANGED cache
    /\ UNCHANGED <<lock, starts, mirrored, aged>>

MirrorLink(p) ==
    /\ proc[p].pc = "link"
    /\ Goes(p, "publish") \/ Ends(p, "ran", "whole")
    /\ UNCHANGED <<cache, lock, starts, mirrored, aged>>

MirrorPublish(p) ==
    /\ proc[p].pc = "publish"
    /\ cache' = "whole" \/ UNCHANGED cache
    /\ Ends(p, "ran", "whole")
    /\ UNCHANGED <<lock, starts, mirrored, aged>>

-----------------------------------------------------------------------------
(* runLockedDownload *)

\* How a launcher goes on after runLockedDownload.
Returns(p, found) ==
    IF found THEN Ends(p, "ran", cache) ELSE Ends(p, "no binary", "none")

Check(p) ==
    /\ proc[p].pc = "check"
    /\ IF Cached THEN Returns(p, TRUE) ELSE Goes(p, "acquire")
    /\ UNCHANGED <<cache, lock, starts, mirrored, aged>>

\* acquireLock: mkdir.
Acquire(p) ==
    /\ proc[p].pc = "acquire"
    /\ IF lock = "free" THEN lock' = "fresh" /\ Goes(p, "locked")
       ELSE Goes(p, "stat") /\ UNCHANGED lock
    /\ UNCHANGED <<cache, starts, mirrored, aged>>

\* The age of a lock that is held: without one there is an error, and a wait.
Stat(p) ==
    /\ proc[p].pc = "stat"
    /\ Goes(p, IF lock = "stale" THEN "steal" ELSE "wait")
    /\ UNCHANGED <<cache, lock, starts, mirrored, aged>>

\* A stale lock is removed, whoever has made it since, and made again.
Steal(p) ==
    /\ proc[p].pc = "steal"
    /\ lock' = "free" /\ Goes(p, "remake")
    /\ UNCHANGED <<cache, starts, mirrored, aged>>

Remake(p) ==
    /\ proc[p].pc = "remake"
    /\ IF lock = "free" THEN lock' = "fresh" /\ Goes(p, "locked")
       ELSE Goes(p, "wait") /\ UNCHANGED lock
    /\ UNCHANGED <<cache, starts, mirrored, aged>>

Locked(p) ==
    /\ proc[p].pc = "locked"
    /\ Goes(p, IF Cached THEN "release" ELSE "npm")
    /\ UNCHANGED <<cache, lock, starts, mirrored, aged>>

\* downloadViaNpm: npm installs into a directory of this process, or fails twice.
Download(p) ==
    /\ proc[p].pc = "npm"
    /\ \/ proc' = [proc EXCEPT ![p].pc = "rename", ![p].npm = TRUE]
       \/ Goes(p, "throw")
    /\ UNCHANGED <<cache, lock, starts, mirrored, aged>>

\* The directory gets its name if there is no such directory yet; an error is
\* none when the binary is there.
Rename(p) ==
    /\ proc[p].pc = "rename"
    /\ cache' = (IF cache = "none" THEN "whole" ELSE cache)
    /\ Goes(p, IF cache = "dirs" THEN "throw" ELSE "release")
    /\ UNCHANGED <<lock, starts, mirrored, aged>>

\* The lock is removed, also after an error, and whoever has it by now.
Release(p) ==
    /\ proc[p].pc \in {"release", "throw"}
    /\ lock' = "free"
    /\ Returns(p, proc[p].pc = "release" /\ Cached)
    /\ UNCHANGED <<cache, starts, mirrored, aged>>

\* waitForTarget: until the binary is there, or for 15 minutes.
Wait(p) ==
    /\ proc[p].pc = "wait"
    /\ Returns(p, Cached)
    /\ UNCHANGED <<cache, lock, starts, mirrored, aged>>

-----------------------------------------------------------------------------

Kill(p) ==
    /\ proc[p].pc # "ended"
    /\ Ends(p, "killed", "none")
    /\ UNCHANGED <<cache, lock, starts, mirrored, aged>>

\* 15 minutes go by; npm may need longer.
Age ==
    /\ lock = "fresh"
    /\ lock' = "stale" /\ aged' = TRUE
    /\ UNCHANGED <<cache, starts, proc, mirrored>>

Next ==
    \/ \E p \in Procs :
          \/ Start(p) \/ Locate(p) \/ StartDetachedDownload(p)
          \/ MirrorMkdir(p) \/ MirrorLink(p) \/ MirrorPublish(p)
          \/ Check(p) \/ Acquire(p) \/ Stat(p) \/ Steal(p) \/ Remake(p)
          \/ Locked(p) \/ Download(p) \/ Rename(p) \/ Release(p) \/ Wait(p) \/ Kill(p)
    \/ Age

Spec == Init /\ [][Next]_vars

-----------------------------------------------------------------------------
(* Properties *)

TypeOK ==
    /\ cache \in {"none", "dirs", "part", "whole"} /\ lock \in {"free", "fresh", "stale"}
    /\ starts \in 0..Starts /\ mirrored \in BOOLEAN /\ aged \in BOOLEAN
    /\ \A p \in Procs : proc[p].kind \in Kinds

\* A launcher runs a whole binary, though others fill the cache at the same
\* time and are killed while they do.  One for which npm has installed the
\* binary does run it, whatever becomes of the lock; but see FindsInstalled.
RunsInstalled ==
    \A p \in Procs :
       /\ proc[p].end = "ran" => proc[p].ran = "whole"
       /\ proc[p].npm /\ proc[p].end = "no binary" => mirrored

\* A launcher repairs a missing binary (bin/install.js:79).  Not so: npm's
\* directory cannot replace the one that a mirror has made without a binary,
\* and that a mirror that fails or is killed leaves for good.
FindsInstalled ==
    (\A q \in Procs : proc[q].pc \notin {"link", "publish"})
        => \A p \in Procs : proc[p].npm => proc[p].end # "no binary"

\* Only one launcher downloads, as long as no lock gets old.
OneDownload ==
    ~aged => \A p, q \in Procs :
                /\ proc[p].pc \in {"locked", "npm", "rename"}
                /\ proc[q].pc \in {"locked", "npm", "rename"}
                => p = q
=============================================================================
