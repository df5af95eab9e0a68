---------------------------- MODULE StorageObjects ----------------------------
(***************************************************************************)
(* `storage rm`, `storage mv` and the downloads of `storage cp`, in one    *)
(* bucket (internal/storage/{ls,rm,mv,cp}).  The service knows objects and *)
(* no directories: a listing names what is in a "directory" page by page,  *)
(* by offset, in the order of the names.  rm and mv read all pages of a    *)
(* directory before they change it; the download hands each page to the    *)
(* jobs of a queue (as WorkPool has it).  Any request may fail, also after *)
(* it was carried out, and others may add or delete an object.  Left out:  *)
(* the listing of all buckets.                                             *)
(***************************************************************************)
EXTENDS FiniteSets, Integers, Sequences

CONSTANTS
    Names,      \* of files and directories, as a sequence in their order
    Suffix,     \* for two names of which the first begins the second: the rest
    Initial,    \* the objects there may be at the start
    Arguments,  \* the paths a command is given
    PageLimit,  \* 100 in the code
    MaxJobs, None,
    Others      \* bound: what others do

\* A path is a sequence of names, and that of an object is not empty.
NameSet == {Names[n] : n \in DOMAIN Names}
Assumptions ==
    /\ PageLimit \in Nat \ {0} /\ MaxJobs \in Nat /\ Others \in Nat
    /\ Names \in Seq(NameSet) /\ None \notin NameSet
    /\ Initial \subseteq Seq(NameSet) \ {<<>>} /\ Arguments \subseteq Seq(NameSet)

VARIABLES
    objects,    \* the content of each object, told by the path it had at the start
    gone,       \* the bucket was deleted
    start, mine, \* the objects at the start; the local target exists
    touched,    \* what others added or deleted
    others,
    args, step, \* the command and where it is
    prefixes, prefix,     \* rm: the paths that were no objects, the present one
    dirs, dir, search,    \* the stack of directories, the present one
    page, listed, full,   \* its next page, the entries read, the page was full
    count,                \* a file was found
    jobs, broken, local,  \* download: jobs that run, one failed, the files
    answer      \* "none", "ok", "error" or "declined"

service == <<objects, gone>>
world == <<service, touched, others>>
fixed == <<start, mine, args>>
walk == <<prefixes, prefix, dirs, dir, search, page, listed, full, count>>
download == <<jobs, broken, local>>
vars == <<world, fixed, step, walk, download, answer>>

Mine == <<"mine">>     \* the content of a local file: the user's own
Part == <<"part">>     \* created, and written in part or not at all

Below(d, o) == Len(o) > Len(d) /\ SubSeq(o, 1, Len(d)) = d
Rest(d, o) == SubSeq(o, Len(d) + 1, Len(o))
Last(s) == s[Len(s)]
Front(s) == SubSeq(s, 1, Len(s) - 1)

\* A function with one more value, or another one; a single local file.
With(f, x, v) == [y \in DOMAIN f \union {x} |-> IF y = x THEN v ELSE f[y]]
OneFile(v) == [f \in {<<>>} |-> v]

\* The way through the elements of a sequence at some of its indices, in order.
InOrder(indices) ==
    {q \in [1..Cardinality(indices) -> indices] :
        \A m, n \in DOMAIN q : m < n => q[m] < q[n]}

Commands ==
    [kind : {"rm"}, paths : {<<p>> : p \in Arguments} \union {<<p, q>> : p, q \in Arguments},
     recursive : BOOLEAN, yes : BOOLEAN]
    \union [kind : {"mv"}, from : Arguments \ {<<>>}, to : Arguments, recursive : BOOLEAN]
    \union [kind : {"get"}, from : Arguments, recursive : BOOLEAN, slash : BOOLEAN]

Init ==
    /\ start \in SUBSET Initial
    /\ objects = [o \in start |-> o] /\ gone = FALSE
    /\ touched = {} /\ others = Others
    /\ args \in Commands
    /\ args.kind = "rm" /\ Len(args.paths) = 2 => args.paths[1] # args.paths[2] /\ args.yes
    /\ args.kind = "get" => (args.slash => args.recursive) /\ (args.from = <<>> => args.slash)
    /\ step = "begin"
    /\ prefixes = <<>> /\ prefix = <<>> /\ dirs = <<>> /\ dir = <<>> /\ search = None
    /\ page = 0 /\ listed = <<>> /\ full = FALSE /\ count = FALSE
    /\ jobs = {} /\ broken = FALSE
    /\ mine \in (IF args.kind = "get" /\ ~args.recursive THEN BOOLEAN ELSE {FALSE})
    /\ local = IF mine THEN OneFile(Mine) ELSE [o \in {} |-> o]
    /\ answer = "none"

At(where, kinds) == answer = "none" /\ step = where /\ args.kind \in kinds
Goto(where) == step' = where /\ UNCHANGED answer
Stop(how) == answer' = how /\ UNCHANGED step

-----------------------------------------------------------------------------
(* The service *)

\* What a listing of dir shows: a file and a directory may have one name.
Entry(k) == [path |-> Append(dir, Names[(k + 1) \div 2]), isDir |-> k % 2 = 0]
Shown(e) ==
    /\ \/ search = None \/ search = Last(e.path)
       \/ <<search, Last(e.path)>> \in DOMAIN Suffix
    /\ IF e.isDir THEN \E o \in DOMAIN objects : Below(e.path, o) ELSE e.path \in DOMAIN objects

\* Of all entries in their order, given by q: those of the next page.
Page(q) ==
    LET first == PageLimit * page
        more == Cardinality(DOMAIN q) - first
    IN  [n \in 1..(IF more < PageLimit THEN more ELSE PageLimit) |-> Entry(q[first + n])]

Without(paths) == [o \in DOMAIN objects \ paths |-> objects[o]]

\* The objects after a move; it replaces nothing.
CanMove(s, t) == s \in DOMAIN objects /\ t # <<>> /\ (t \in DOMAIN objects => t = s)
Moved(s, t) == With(Without({s}), t, objects[s])

Other ==
    /\ answer = "none" /\ others > 0 /\ ~gone
    /\ others' = others - 1
    /\ \/ \E o \in Initial \ DOMAIN objects :
             objects' = With(objects, o, None) /\ touched' = touched \union {o}
       \/ \E o \in DOMAIN objects :
             objects' = Without({o}) /\ touched' = touched \union {objects[o]}
    /\ UNCHANGED <<gone, fixed, step, walk, download, answer>>

-----------------------------------------------------------------------------
(* How each command begins *)

\* rm: a whole bucket needs -r, and the prompt a yes.
BeginRemove ==
    /\ At("begin", {"rm"})
    /\ IF ~args.recursive /\ \E i \in DOMAIN args.paths : args.paths[i] = <<>> THEN Stop("error")
       ELSE Goto("first") \/ (~args.yes /\ Stop("declined"))
    /\ UNCHANGED <<world, fixed, walk, download>>

\* rm first deletes what the paths name; only with -r are the others directories.
RemoveNamed ==
    /\ At("first", {"rm"})
    /\ LET named == {args.paths[i] : i \in DOMAIN args.paths}
       IN  \/ /\ objects' = Without(named)
              /\ \E q \in InOrder({i \in DOMAIN args.paths : args.paths[i] \notin DOMAIN objects}) :
                    prefixes' = [n \in DOMAIN q |-> args.paths[q[n]]]
              /\ IF args.recursive THEN Goto("next") ELSE Stop("ok")
           \/ /\ objects' \in {objects, Without(named)}
              /\ Stop("error") /\ UNCHANGED prefixes
    /\ UNCHANGED <<gone, touched, others, fixed, prefix, dirs, dir, search, page, listed, full,
                   count, download>>

NextPrefix ==
    /\ At("next", {"rm"})
    /\ IF prefixes = <<>> THEN Stop("ok") /\ UNCHANGED <<prefix, prefixes, dirs>>
       ELSE /\ prefix' = Head(prefixes) /\ prefixes' = Tail(prefixes) /\ dirs' = <<prefix'>>
            /\ Goto("pop")
    /\ UNCHANGED <<world, fixed, dir, search, page, listed, full, count, download>>

\* mv: the object itself; if there is none and with -r, the directory.
MoveNamed ==
    /\ At("begin", {"mv"})
    /\ \/ /\ CanMove(args.from, args.to)
          /\ objects' = Moved(args.from, args.to)
          /\ Stop("ok") \/ Stop("error")
          /\ UNCHANGED dirs
       \/ Stop("error") /\ UNCHANGED <<objects, dirs>>
       \/ /\ args.from \notin DOMAIN objects /\ args.recursive
          /\ dirs' = <<args.from>> /\ Goto("pop") /\ UNCHANGED objects
    /\ UNCHANGED <<gone, touched, others, fixed, prefixes, prefix, dir, search, page, listed, full,
                   count, download>>

\* cp of one object: the local file must be new, and stays when the request fails.
DownloadObject ==
    /\ At("begin", {"get"}) /\ ~args.recursive
    /\ IF mine THEN Stop("error") /\ UNCHANGED local
       ELSE \/ /\ args.from \in DOMAIN objects
               /\ local' = OneFile(objects[args.from]) /\ Stop("ok")
            \/ local' = OneFile(Part) /\ Stop("error")
    /\ UNCHANGED <<world, fixed, walk, jobs, broken>>

\* cp -r of a directory, or of what begins with the path.
BeginDownload ==
    /\ At("begin", {"get"}) /\ args.recursive
    /\ IF args.slash THEN dir' = args.from /\ UNCHANGED search
       ELSE dir' = Front(args.from) /\ search' = Last(args.from)
    /\ Goto("list")
    /\ UNCHANGED <<world, fixed, prefixes, prefix, dirs, page, listed, full, count, download>>

-----------------------------------------------------------------------------
(* The walk through the directories *)

Kinds == {"rm", "mv", "get"}

Pop ==
    /\ At("pop", Kinds)
    /\ IF dirs # <<>>
       THEN /\ dir' = Last(dirs) /\ dirs' = Front(dirs)
            /\ search' = None /\ page' = 0 /\ listed' = <<>>
            /\ Goto("list")
       ELSE /\ CASE args.kind = "rm" -> Goto(IF prefix = <<>> THEN "bucket" ELSE "next")
                 [] args.kind = "mv" -> Stop(IF count THEN "ok" ELSE "error")
                 [] args.kind = "get" -> Goto("collect")
            /\ UNCHANGED <<dirs, dir, search, page, listed>>
    /\ UNCHANGED <<world, fixed, prefixes, prefix, full, count, download>>

\* ListStoragePaths reads every page first, IterateStoragePathsAll hands them on.
AllPages == args.kind # "get"

ListPage ==
    /\ At("list", Kinds)
    /\ \/ /\ \E q \in InOrder({k \in 1..2 * Len(Names) : Shown(Entry(k))}) :
                /\ listed' = listed \o Page(q)
                /\ full' = (Len(Page(q)) = PageLimit)
          /\ page' = page + 1
          /\ Goto(IF full' /\ AllPages THEN "list" ELSE "act")
          /\ UNCHANGED broken
       \/ /\ IF args.kind = "get" THEN Goto("collect") ELSE Stop("error")
          /\ broken' = TRUE
          /\ UNCHANGED <<listed, page, full>>
    /\ UNCHANGED <<world, fixed, prefixes, prefix, dirs, dir, search, count, jobs, local>>

Entries(isDir) == {listed[i].path : i \in {j \in DOMAIN listed : listed[j].isDir = isDir}}
DirsListed == {i \in DOMAIN listed : listed[i].isDir}

\* Mutant of Objects: the names are taken for paths.
ObjectsByName == {<<Last(p)>> : p \in Entries(FALSE)}

\* The objects that a listing of dir names.
Objects == Entries(FALSE)

\* RemoveStoragePathAll: one directory, an empty one is none.
RemoveFiles ==
    /\ At("act", {"rm"})
    /\ \E q \in InOrder(DirsListed) : dirs' = dirs \o [n \in DOMAIN q |-> listed[q[n]].path]
    /\ listed' = <<>>
    /\ \/ /\ listed # <<>> \/ prefix = <<>>
          /\ objects' = Without(Objects)
          /\ Goto(IF full THEN "list" ELSE "pop")
       \/ listed = <<>> /\ prefix # <<>> /\ Stop("error") /\ UNCHANGED objects
       \/ Objects # {} /\ Stop("error") /\ objects' \in {objects, Without(Objects)}
    /\ UNCHANGED <<gone, touched, others, fixed, prefixes, prefix, dir, search, page, full, count,
                   download>>

DeleteBucket ==
    /\ At("bucket", {"rm"})
    /\ \/ DOMAIN objects = {} /\ gone' = TRUE /\ (Goto("next") \/ Stop("error"))
       \/ Stop("error") /\ UNCHANGED gone
    /\ UNCHANGED <<objects, touched, others, fixed, walk, download>>

\* What is listed is done entry by entry; after a full page comes the next.
EndOfPage ==
    /\ At("act", {"mv", "get"}) /\ listed = <<>>
    /\ Goto(IF full /\ args.kind = "get" THEN "list" ELSE "pop")
    /\ UNCHANGED <<world, fixed, walk, download>>

PushDir ==
    /\ At("act", {"mv", "get"}) /\ listed # <<>> /\ Head(listed).isDir
    /\ dirs' = Append(dirs, Head(listed).path) /\ listed' = Tail(listed)
    /\ UNCHANGED <<world, fixed, step, prefixes, prefix, dir, search, page, full, count, download,
                   answer>>

\* MoveStorageObjectAll: the first move that fails ends the command.
MoveFile ==
    /\ At("act", {"mv"}) /\ listed # <<>> /\ ~Head(listed).isDir
    /\ listed' = Tail(listed) /\ count' = TRUE
    /\ LET s == Head(listed).path
           t == args.to \o Rest(args.from, s)
       IN  \/ CanMove(s, t) /\ objects' = Moved(s, t) /\ (Goto("act") \/ Stop("error"))
           \/ Stop("error") /\ UNCHANGED objects
    /\ UNCHANGED <<gone, touched, others, fixed, prefixes, prefix, dirs, dir, search, page, full,
                   download>>

\* The local path of an object: what follows the path that was given.
LocalPath(o) ==
    LET n == Len(args.from)
    IN  IF args.slash \/ o[n] = args.from[n] THEN Rest(args.from, o)
        ELSE <<Suffix[<<args.from[n], o[n]>>]>> \o SubSeq(o, n + 1, Len(o))

\* DownloadStorageObjectAll: a Put, which may return the error of an earlier job.
PutDownload ==
    /\ At("act", {"get"}) /\ listed # <<>> /\ ~Head(listed).isDir
    /\ Cardinality(jobs) < MaxJobs
    /\ jobs' = jobs \union {[from |-> Head(listed).path, to |-> LocalPath(Head(listed).path)]}
    /\ listed' = Tail(listed) /\ count' = TRUE
    /\ Goto("act") \/ (broken /\ Goto("collect"))
    /\ UNCHANGED <<world, fixed, prefixes, prefix, dirs, dir, search, page, full, broken, local>>

\* A job cuts the local file and writes what it gets; no file is a directory.
JobEnds ==
    /\ \E j \in jobs :
          /\ jobs' = jobs \ {j}
          /\ \/ /\ j.from \in DOMAIN objects
                /\ \A f \in DOMAIN local : ~Below(f, j.to) /\ ~Below(j.to, f)
                /\ local' = With(local, j.to, objects[j.from]) /\ UNCHANGED broken
             \/ local' \in {local, With(local, j.to, Part)} /\ broken' = TRUE
    /\ UNCHANGED <<world, fixed, step, walk, answer>>

Collect ==
    /\ At("collect", {"get"}) /\ jobs = {}
    /\ Stop(IF count /\ ~broken THEN "ok" ELSE "error")
    /\ UNCHANGED <<world, fixed, walk, download>>

Next ==
    \/ BeginRemove \/ RemoveNamed \/ NextPrefix \/ MoveNamed \/ DownloadObject \/ BeginDownload
    \/ Pop \/ ListPage \/ RemoveFiles \/ DeleteBucket \/ EndOfPage \/ PushDir \/ MoveFile
    \/ PutDownload \/ JobEnds \/ Collect \/ Other

Spec == Init /\ [][Next]_vars

-----------------------------------------------------------------------------
(* Properties *)

TypeOK ==
    /\ \A o \in DOMAIN objects : objects[o] \in Initial \union {None}
    /\ touched \subseteq Initial \union {None} /\ others \in 0..Others
    /\ step \in {"begin", "first", "next", "pop", "list", "act", "bucket", "collect"}
    /\ answer \in {"none", "ok", "error", "declined"}
    /\ Cardinality(jobs) <= MaxJobs
    /\ gone => DOMAIN objects = {}

Untouched == start \ touched
InPlace(o) == o \in DOMAIN objects /\ objects[o] = o
Given == {args.paths[i] : i \in DOMAIN args.paths}

\* Nothing is lost that was not named: rm deletes the objects given and, with
\* -r, what is below them, and nothing after a no; mv leaves each object where
\* it was or moves it, wherever it stops; a download changes no object, and one
\* of a single object no local file.
ObjectsAreKept ==
    /\ args.kind = "rm" =>
          \A o \in Untouched :
              InPlace(o) \/ (answer # "declined" /\ \E p \in Given :
                                p = o \/ (args.recursive /\ Below(p, o)))
    /\ args.kind = "mv" =>
          \A o \in Untouched :
              IF o = args.from \/ Below(args.from, o)
              THEN \E t \in DOMAIN objects : objects[t] = o
              ELSE InPlace(o)
    /\ args.kind = "get" =>
          (\A o \in Untouched : InPlace(o)) /\ (mine => local = OneFile(Mine))

\* No other name begins with the one that is downloaded.
OneName == args.slash \/ \A p \in DOMAIN Suffix : p[1] # Last(args.from)

\* Where mv puts an object, and that it puts none where it still has to look.
Target(o) == args.to \o Rest(args.from, o)
Apart == \A o \in start : Below(args.from, o) => ~Below(args.from, Target(o))

\* A success of rm, mv or cp -r, where nobody else changed the bucket, has done
\* the whole directory, however many pages its listings had.  (mv moves
\* some objects twice when it puts them below its source: into a directory
\* there, or up from a directory within which that of the source comes again.)
SuccessMeansAll ==
    answer = "ok" /\ touched = {} =>
        /\ args.kind = "rm" => \A p \in Given :
              /\ p \notin DOMAIN objects
              /\ args.recursive /\ p \notin start => \A o \in DOMAIN objects : ~Below(p, o)
              /\ p = <<>> => gone
        /\ args.kind = "mv" /\ Apart =>
              \A o \in start :
                  o = args.from \/ (args.from \notin start /\ Below(args.from, o)) =>
                      Target(o) \in DOMAIN objects /\ objects[Target(o)] = o
        /\ args.kind = "get" /\ args.recursive /\ OneName =>
              \A o \in start : Below(args.from, o) =>
                  Rest(args.from, o) \in DOMAIN local /\ local[Rest(args.from, o)] = o
=============================================================================
