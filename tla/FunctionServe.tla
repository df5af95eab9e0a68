---------------------------- MODULE FunctionServe ----------------------------
(***************************************************************************)
(* internal/functions/serve: functions are served from a container that is *)
(* replaced whenever their sources change.                                 *)
(*                                                                         *)
(* Four things run at once: the loop of Run, which restarts the container  *)
(* and else waits; the goroutine of the file watcher, which turns events   *)
(* into a timer that is set off again by each further event; the timer;    *)
(* and the log streamer, which follows whatever container has the name,    *)
(* and ends the command when the runtime has failed by itself.  The files, *)
(* the kernel's queue of events and Docker are external.  The timer is one *)
(* of Go 1.23 or later, as go.mod asks for: Reset takes back a tick that   *)
(* nobody has received, and reports that the timer was active.             *)
(***************************************************************************)
EXTENDS Integers, Sequences

CONSTANTS Dirs, Root,      \* directories; the one of the functions themselves
          Edits, Crashes   \* bounds: changes of files, exits of the runtime

Assumptions == Root \in Dirs /\ Edits \in Nat /\ Crashes \in Nat

VARIABLES uses,       \* disk: the directories the functions import from
          version,    \* disk: how often each directory was changed
          edits,      \* how many changes are left
          watched,    \* fsnotify: the directories that are watched
          noticed,    \* the last version of each directory that caused an event
          events,     \* fsnotify: the events not taken yet
          overflown,  \* fsnotify: it waits for a reader of ErrCh, which nobody is
          watcher,    \* the goroutine of debounceFileWatcher.Start
          timer,      \* restartTimer
          pc,         \* Run
          bound, seen,       \* what the current restart has read
          container,         \* Docker: the container of the runtime
          served,            \* the versions it was made from
          crashes, crashed,  \* exits left; the runtime has failed by itself
          streamer, followed,   \* the streamer, and the container it follows
          errCh,      \* the channel of the streamer
          answer      \* why Run has returned

diskVars == <<uses, version, edits>>
watchVars == <<watched, noticed, events, overflown, watcher, timer>>
dockerVars == <<container, served, crashes, crashed>>
streamVars == <<streamer, followed, errCh>>
runVars == <<pc, bound, seen, answer>>
vars == <<diskVars, watchVars, dockerVars, streamVars, runVars>>

Versions == [Dirs -> 0..Edits]
Restarting == {"load", "kill", "remove", "bind", "watch", "unwatch", "start"}

NoContainer == [id |-> 0, state |-> "none"]

TypeOK ==
    /\ uses \subseteq Dirs /\ version \in Versions /\ edits \in 0..Edits
    /\ watched \subseteq Dirs /\ noticed \in Versions
    /\ events \in Seq({"change", "ignored"}) /\ overflown \in BOOLEAN
    /\ watcher \in {"receive", "reset"} /\ timer \in {"idle", "soon", "armed", "fired"}
    /\ pc \in Restarting \union {"wait", "returned"}
    /\ bound \subseteq Dirs /\ seen \in Versions /\ served \in Versions
    /\ container.id \in Nat /\ container.state \in {"none", "running", "exit 0", "exit 1", "exit 137"}
    /\ crashes \in 0..Crashes /\ crashed \in BOOLEAN
    /\ streamer \in {"new", "fetch", "follow", "inspect", "done"} /\ followed \in Nat
    /\ errCh \in {"none", "runtime", "docker"}
    /\ answer \in {"none", "stopped", "error", "runtime", "docker"}

Init ==
    /\ uses \in {S \in SUBSET Dirs : Root \in S}
    /\ version = [d \in Dirs |-> 0] /\ edits = Edits
    /\ watched = {} /\ noticed = version /\ events = <<>> /\ overflown = FALSE
    /\ watcher = "receive" /\ timer = "idle"
    /\ pc = "load" /\ bound = {} /\ seen = version /\ answer = "none"
    /\ container = NoContainer /\ served = version /\ crashes = Crashes /\ crashed = FALSE
    /\ streamer = "new" /\ followed = 0 /\ errCh = "none"

-----------------------------------------------------------------------------
(* The file watcher *)

\* A write below d, which causes an event where d is watched.  A file of the
\* functions themselves may import from other directories afterwards.
Edit(d) ==
    /\ edits > 0 /\ edits' = edits - 1
    /\ version' = [version EXCEPT ![d] = @ + 1]
    /\ IF d = Root THEN uses' \in {S \in SUBSET Dirs : Root \in S} ELSE UNCHANGED uses
    /\ IF d \in watched /\ ~overflown
       THEN /\ noticed' = [noticed EXCEPT ![d] = version'[d]]
            /\ events' = Append(events, "change")
       ELSE UNCHANGED <<noticed, events>>
    /\ UNCHANGED <<watched, overflown, watcher, timer, dockerVars, streamVars, runVars>>

\* A file an editor keeps for itself (isIgnoredFileEvent).
EditIgnored ==
    /\ edits > 0 /\ edits' = edits - 1
    /\ watched # {} /\ ~overflown
    /\ events' = Append(events, "ignored")
    /\ UNCHANGED <<uses, version, watched, noticed, overflown, watcher, timer, dockerVars,
                   streamVars, runVars>>

\* The kernel drops events: fsnotify sends an error to a channel Run never reads,
\* and comes to no further event.
Overflow ==
    /\ ~overflown /\ watched # {}
    /\ overflown' = TRUE /\ events' = <<>>
    /\ UNCHANGED <<diskVars, watched, noticed, watcher, timer, dockerVars, streamVars, runVars>>

\* event := <-Events; restartTimer.Reset(0), whose answer is whether it was active
Receive ==
    /\ watcher = "receive" /\ events # <<>>
    /\ events' = Tail(events)
    /\ IF Head(events) = "change"
       THEN timer' = "soon" /\ watcher' = (IF timer = "idle" THEN "receive" ELSE "reset")
       ELSE UNCHANGED <<timer, watcher>>
    /\ UNCHANGED <<diskVars, watched, noticed, overflown, dockerVars, streamVars, runVars>>

\* restartTimer.Reset(debounceDuration)
Debounce ==
    /\ watcher = "reset"
    /\ timer' = "armed" /\ watcher' = "receive"
    /\ UNCHANGED <<diskVars, watched, noticed, events, overflown, dockerVars, streamVars, runVars>>

Fire ==
    /\ timer \in {"soon", "armed"}
    /\ timer' = "fired"
    /\ UNCHANGED <<diskVars, watched, noticed, events, overflown, watcher, dockerVars, streamVars,
                   runVars>>

-----------------------------------------------------------------------------
(* restartEdgeRuntime, step by step *)

Goes(from, to) == pc = from /\ pc' = to /\ UNCHANGED answer

\* config.toml is read and the database looked for.
Load == Goes("load", "kill") /\ UNCHANGED <<diskVars, watchVars, dockerVars, streamVars, bound, seen>>

\* ContainerRemove with Force kills the container before it removes it.  Its
\* errors are ignored.
Kill ==
    /\ Goes("kill", "remove")
    /\ container' = IF container.state = "running" THEN [container EXCEPT !.state = "exit 137"]
                    ELSE container
    /\ UNCHANGED <<diskVars, watchVars, served, crashes, crashed, streamVars, bound, seen>>

Remove ==
    /\ Goes("remove", "bind")
    /\ container' = [container EXCEPT !.state = "none"]
    /\ UNCHANGED <<diskVars, watchVars, served, crashes, crashed, streamVars, bound, seen>>

\* PopulatePerFunctionConfigs reads the sources.
Bind ==
    /\ Goes("bind", "watch")
    /\ bound' = uses /\ seen' = version
    /\ UNCHANGED <<diskVars, watchVars, dockerVars, streamVars>>

\* SetWatchPaths adds the directories, and then removes those no longer needed.
Watch ==
    /\ Goes("watch", "unwatch")
    /\ watched' = watched \union bound
    /\ UNCHANGED <<diskVars, noticed, events, overflown, watcher, timer, dockerVars, streamVars, bound,
                   seen>>

Unwatch ==
    /\ Goes("unwatch", "start")
    /\ watched' = bound
    /\ UNCHANGED <<diskVars, noticed, events, overflown, watcher, timer, dockerVars, streamVars, bound,
                   seen>>

\* Mutant of Start: a tick that came in meanwhile is taken for one of this restart.
StartDrains ==
    /\ Goes("start", "wait")
    /\ container' = [id |-> container.id + 1, state |-> "running"] /\ served' = seen
    /\ streamer' = IF streamer = "new" THEN "fetch" ELSE streamer
    /\ timer' = IF timer = "fired" THEN "idle" ELSE timer
    /\ UNCHANGED <<diskVars, watched, noticed, events, overflown, watcher, crashes, crashed, followed,
                   errCh, bound, seen>>

\* DockerStart; kong is reloaded; the first time, the streamer is started.
Start ==
    /\ Goes("start", "wait")
    /\ container' = [id |-> container.id + 1, state |-> "running"] /\ served' = seen
    /\ streamer' = IF streamer = "new" THEN "fetch" ELSE streamer
    /\ UNCHANGED <<diskVars, watchVars, crashes, crashed, followed, errCh, bound, seen>>

\* A step of the restart returns an error, and Run with it.
Fail ==
    /\ pc \in Restarting
    /\ pc' = "returned" /\ answer' = "error"
    /\ UNCHANGED <<diskVars, watchVars, dockerVars, streamVars, bound, seen>>

-----------------------------------------------------------------------------
(* The select of Run *)

Restart ==
    /\ Goes("wait", "load") /\ timer = "fired"
    /\ timer' = "idle"
    /\ UNCHANGED <<diskVars, watched, noticed, events, overflown, watcher, dockerVars, streamVars,
                   bound, seen>>

StreamerFailed ==
    /\ pc = "wait" /\ errCh # "none"
    /\ pc' = "returned" /\ answer' = errCh
    /\ UNCHANGED <<diskVars, watchVars, dockerVars, streamVars, bound, seen>>

Interrupt ==
    /\ pc = "wait"
    /\ pc' = "returned" /\ answer' = "stopped"
    /\ UNCHANGED <<diskVars, watchVars, dockerVars, streamVars, bound, seen>>

Run == Load \/ Kill \/ Remove \/ Bind \/ Watch \/ Unwatch \/ Start \/ Restart \/ StreamerFailed

-----------------------------------------------------------------------------
(* The runtime and its logs *)

\* The runtime ends by itself: with success, with an error, or killed by the kernel.
Crash ==
    /\ crashes > 0 /\ crashes' = crashes - 1
    /\ container.state = "running"
    /\ \E s \in {"exit 0", "exit 1", "exit 137"} :
          /\ container' = [container EXCEPT !.state = s]
          /\ crashed' = (crashed \/ s = "exit 1")
    /\ UNCHANGED <<diskVars, watchVars, served, streamVars, runVars>>

Stream(from, to) == streamer = from /\ streamer' = to /\ UNCHANGED followed

\* ContainerLogs of the name; while there is no such container it is tried again.
Fetch ==
    /\ streamer = "fetch" /\ container.state # "none"
    /\ streamer' = "follow" /\ followed' = container.id
    /\ UNCHANGED <<diskVars, watchVars, dockerVars, errCh, runVars>>

\* The logs end with the container they belong to.
LogsEnd ==
    /\ container.id # followed \/ container.state # "running"
    /\ Stream("follow", "inspect")
    /\ UNCHANGED <<diskVars, watchVars, dockerVars, errCh, runVars>>

Temporary == {"none", "running", "exit 0", "exit 137"}

\* Mutant of Temporary: a container that was killed has failed.
TemporaryNotKilled == {"none", "running", "exit 0"}

\* ContainerInspect of the name: missing, killed, and ended without an error are
\* tried again, and so is a new container of the name, which has no exit code.
Inspect ==
    /\ \/ container.state \in Temporary /\ Stream("inspect", "fetch") /\ UNCHANGED errCh
       \/ container.state \notin Temporary /\ Stream("inspect", "done") /\ errCh' = "runtime"
    /\ UNCHANGED <<diskVars, watchVars, dockerVars, runVars>>

\* Any other answer of Docker ends the streamer.
DockerFails ==
    /\ streamer \in {"fetch", "follow", "inspect"}
    /\ Stream(streamer, "done") /\ errCh' = "docker"
    /\ UNCHANGED <<diskVars, watchVars, dockerVars, runVars>>

-----------------------------------------------------------------------------

Next ==
    /\ pc # "returned"
    /\ \/ EditIgnored \/ Overflow \/ \E d \in Dirs : Edit(d)
       \/ Receive \/ Debounce \/ Fire
       \/ Run \/ Fail \/ Interrupt
       \/ Crash \/ Fetch \/ LogsEnd \/ Inspect \/ DockerFails

Going(A) == pc # "returned" /\ A

\* Goroutines go on when they can, a timer fires, and Docker answers.  Nothing
\* is assumed of the user, who may stop editing or go on (up to Edits times).
Fairness ==
    /\ WF_vars(Going(Receive)) /\ WF_vars(Going(Debounce)) /\ WF_vars(Going(Fire))
    /\ WF_vars(Going(Run))

Spec == Init /\ [][Next]_vars /\ Fairness

-----------------------------------------------------------------------------
(* Properties *)

\* A runtime made from every change the watcher was told of.
UpToDate == container.id > 0 /\ \A d \in Dirs : served[d] >= noticed[d]

\* A change the watcher was told of comes to be served, whenever it falls into
\* a restart, into another event, or between the two resets of the timer
\* (watcher.go:93-108, serve.go:84-105); unless the command has returned before,
\* or events have overflown.
EditsAreServed == <>[](UpToDate \/ pc = "returned" \/ overflown)

\* A restart is not taken for a failure of the runtime: Run returns the error of
\* the streamer only when the runtime has failed by itself, or Docker
\* (streamer.go:37-46).
RestartIsNoFailure == answer = "runtime" => crashed
=============================================================================
