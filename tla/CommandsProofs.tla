--------------------------- MODULE CommandsProofs ---------------------------
(***************************************************************************)
(* Theorems about what a user or an agent runs.  The first sections are    *)
(* about LinkState, for any number of processes, directories and branches: *)
(* a linked directory finds its keys, a command sends its requests to the  *)
(* branch its directory was linked to, and asks before it writes.  The     *)
(* next are about Management (Handling), for any set of handlers that are  *)
(* well formed and any number of workspaces, branches and regions, retries *)
(* and changes by others: how far a handler has come in its plan tells     *)
(* what it has found, asked and written.  The last is about all the        *)
(* commands of MCCommands, and takes the invariants of the others from the *)
(* module that proves them, for instances whose definitions are shown to   *)
(* be those of MCCommands.                                                 *)
(***************************************************************************)
EXTENDS MCCommands, SequenceTheorems, TLAPS

-----------------------------------------------------------------------------
(* The steps of the commands *)

Requests == {"read", "call", "write"}
Resolves == {"state", "profile", "key"}
SoloSteps == Requests \union Resolves \union {"ask", "local"}
OtherSteps == {"find", "ref", "saveLink", "look", "ask", "clear", "removeAll"}
Preamble == {<<"state", "profile", "enter">>, <<"profile", "enter">>, <<"enter">>}
Linking ==
    {<<"probe", "check", "load", "save", "saveLink">>, <<"check", "load", "save", "saveLink">>,
     <<"load", "save", "saveLink">>, <<"save", "saveLink">>, <<"saveLink">>, <<>>}

\* Nothing is resolved after the first request.
ResolvesFirst(h) ==
    \A i, j \in 1..Len(h) : i < j /\ h[i] \in Requests => h[j] \notin Resolves

\* link.json is read before a profile is, and a profile before a request.
StateFirst(h) ==
    \A j \in 1..Len(h) : h[j] \in {"profile", "key"} => \E i \in 1..(j - 1) : h[i] = "state"
ProfileFirst(h) ==
    \A j \in 1..Len(h) : h[j] \in Requests => \E i \in 1..(j - 1) : h[i] = "profile"

NoResolve(h) == \A j \in 1..Len(h) : h[j] \notin Resolves

\* The prompt comes before a write.
AskFirst(h) ==
    \A j \in 1..Len(h) : h[j] = "write" => \E i \in 1..(j - 1) : h[i] = "ask"

Handler(h) ==
    /\ h \in Seq(SoloSteps)
    /\ ResolvesFirst(h) /\ StateFirst(h) /\ ProfileFirst(h) /\ AskFirst(h)

\* What is left of a sequence of steps after its first.
LEMMA TailFacts ==
    ASSUME NEW S, NEW h \in Seq(S), h # <<>>
    PROVE  /\ Len(h) \in Nat \ {0} /\ Head(h) = h[1] /\ Head(h) \in S
           /\ Tail(h) \in Seq(S) /\ Len(Tail(h)) = Len(h) - 1
           /\ \A i \in 1..Len(Tail(h)) : i + 1 \in 1..Len(h) /\ Tail(h)[i] = h[i + 1]
    OBVIOUS

\* What the first step of a handler may be, and what its rest is like.
LEMMA HandlerTail ==
    ASSUME NEW h \in Seq(SoloSteps), h # <<>>
    PROVE  /\ ResolvesFirst(h) => ResolvesFirst(Tail(h))
           /\ ResolvesFirst(h) /\ Head(h) \in Requests => NoResolve(Tail(h))
           /\ NoResolve(h) => NoResolve(Tail(h)) /\ Head(h) \notin Resolves
           /\ StateFirst(h) => Head(h) \notin {"profile", "key"}
           /\ StateFirst(h) /\ Head(h) # "state" => StateFirst(Tail(h))
           /\ ProfileFirst(h) => Head(h) \notin Requests
           /\ ProfileFirst(h) /\ Head(h) # "profile" => ProfileFirst(Tail(h))
           /\ AskFirst(h) => Head(h) # "write"
           /\ AskFirst(h) /\ Head(h) # "ask" => AskFirst(Tail(h))
<1>1. ResolvesFirst(h) => ResolvesFirst(Tail(h))
    BY TailFacts DEF ResolvesFirst
<1>2. ResolvesFirst(h) /\ Head(h) \in Requests => NoResolve(Tail(h))
    BY TailFacts DEF ResolvesFirst, NoResolve
<1>3. NoResolve(h) => NoResolve(Tail(h)) /\ Head(h) \notin Resolves
    BY TailFacts DEF NoResolve
<1>4. StateFirst(h) => Head(h) \notin {"profile", "key"}
    BY TailFacts DEF StateFirst
<1>5. ASSUME StateFirst(h), Head(h) # "state"
      PROVE  StateFirst(Tail(h))
    <2> SUFFICES ASSUME NEW j \in 1..Len(Tail(h)), Tail(h)[j] \in {"profile", "key"}
                 PROVE  \E i \in 1..(j - 1) : Tail(h)[i] = "state"
        BY DEF StateFirst
    <2>1. PICK i \in 1..j : h[i] = "state"
        BY <1>5, TailFacts DEF StateFirst
    <2>2. i # 1
        BY <1>5, <2>1, TailFacts
    <2>3. i - 1 \in 1..(j - 1) /\ i - 1 \in 1..Len(Tail(h)) /\ Tail(h)[i - 1] = h[i]
        BY <2>2, TailFacts
    <2> QED BY <2>1, <2>3
<1>6. ProfileFirst(h) => Head(h) \notin Requests
    BY TailFacts DEF ProfileFirst
<1>7. ASSUME ProfileFirst(h), Head(h) # "profile"
      PROVE  ProfileFirst(Tail(h))
    <2> SUFFICES ASSUME NEW j \in 1..Len(Tail(h)), Tail(h)[j] \in Requests
                 PROVE  \E i \in 1..(j - 1) : Tail(h)[i] = "profile"
        BY DEF ProfileFirst
    <2>1. PICK i \in 1..j : h[i] = "profile"
        BY <1>7, TailFacts DEF ProfileFirst
    <2>2. i # 1
        BY <1>7, <2>1, TailFacts
    <2>3. i - 1 \in 1..(j - 1) /\ i - 1 \in 1..Len(Tail(h)) /\ Tail(h)[i - 1] = h[i]
        BY <2>2, TailFacts
    <2> QED BY <2>1, <2>3
<1>8. AskFirst(h) => Head(h) # "write"
    BY TailFacts DEF AskFirst
<1>9. ASSUME AskFirst(h), Head(h) # "ask"
      PROVE  AskFirst(Tail(h))
    <2> SUFFICES ASSUME NEW j \in 1..Len(Tail(h)), Tail(h)[j] = "write"
                 PROVE  \E i \in 1..(j - 1) : Tail(h)[i] = "ask"
        BY DEF AskFirst
    <2>1. PICK i \in 1..j : h[i] = "ask"
        BY <1>9, TailFacts DEF AskFirst
    <2>2. i # 1
        BY <1>9, <2>1, TailFacts
    <2>3. i - 1 \in 1..(j - 1) /\ i - 1 \in 1..Len(Tail(h)) /\ Tail(h)[i - 1] = h[i]
        BY <2>2, TailFacts
    <2> QED BY <2>1, <2>3
<1> QED BY <1>1, <1>2, <1>3, <1>4, <1>5, <1>6, <1>7, <1>8, <1>9

\* Only a command that has not found its tree has to enter it.
LEMMA NotPreamble ==
    ASSUME NEW S, "enter" \notin S, NEW h \in Seq(S)
    PROVE  h \notin Preamble
<1>1. \A i \in 1..Len(h) : h[i] # "enter"
    OBVIOUS
<1>2. h # <<"state", "profile", "enter">>
    <2>1. h = <<"state", "profile", "enter">> => Len(h) = 3 /\ h[3] = "enter"
        OBVIOUS
    <2> QED BY <1>1, <2>1
<1>3. h # <<"profile", "enter">>
    <2>1. h = <<"profile", "enter">> => Len(h) = 2 /\ h[2] = "enter"
        OBVIOUS
    <2> QED BY <1>1, <2>1
<1>4. h # <<"enter">>
    <2>1. h = <<"enter">> => Len(h) = 1 /\ h[1] = "enter"
        OBVIOUS
    <2> QED BY <1>1, <2>1
<1> QED BY <1>2, <1>3, <1>4 DEF Preamble

\* Every command of cmd/solo is such a handler.
LEMMA SoloHandlersAreHandlers ==
    ASSUME NEW h \in SoloHandlers
    PROVE  Handler(h)
<1> USE DEF Handler, ResolvesFirst, StateFirst, ProfileFirst, AskFirst, SoloSteps, Requests,
         Resolves, Client
<1>1. Handler(Reading)
    BY DEF Reading
<1>2. Handler(Writing)
    BY DEF Writing
<1>3. Handler(StorageRm)
    BY DEF StorageRm
<1>4. Handler(SecretsSet) /\ Handler(AuthConfigSet)
    BY DEF SecretsSet, AuthConfigSet, Writing
<1>5. Handler(SecretsUnset)
    BY DEF SecretsUnset
<1>6. Handler(FunctionsDeploy)
    BY DEF FunctionsDeploy
<1>7. Handler(FunctionsNew)
    BY DEF FunctionsNew
<1>8. Handler(FunctionsDownload)
    BY DEF FunctionsDownload
<1>9. Handler(AuthHooksSet)
    BY DEF AuthHooksSet
<1>10. Handler(PagesUpload)
    BY DEF PagesUpload, Writing
<1>11. Handler(PagesFastCreate)
    BY DEF PagesFastCreate, PagesUpload, Writing
<1>12. Handler(PagesSync)
    BY DEF PagesSync
<1>13. Handler(GatewayStatus)
    BY DEF GatewayStatus
<1>14. Handler(GatewayChat)
    BY DEF GatewayChat
<1>15. Handler(Client)
    OBVIOUS
<1>16. Handler(DBQuery)
    BY DEF DBQuery
<1> HIDE DEF Handler
<1> QED BY <1>1, <1>2, <1>3, <1>4, <1>5, <1>6, <1>7, <1>8, <1>9, <1>10, <1>11, <1>12, <1>13,
           <1>14, <1>15, <1>16
        DEF SoloHandlers, StorageLs, StorageCp, StorageMv, SeedBuckets, StorageBucketsList,
            StorageBucketsGet, StorageBucketsCreate, StorageBucketsUpdate, StorageBucketsDelete,
            SecretsList, FunctionsList, FunctionsDelete, AuthHooksGet, AuthThirdPartyList,
            AuthThirdPartyAdd, AuthThirdPartyRemove, AuthThirdPartySync, AuthConfigGet,
            PagesList, PagesBinding, PagesBind, PagesCreate, PagesDeploy, PagesDeployList,
            PagesUnbind, QuotaGet, QuotaSetDefault, QuotaUsersList, QuotaUsersGet,
            QuotaUsersSet, Usage, GatewayModels, GatewayTest, EndpointsList, EndpointsCheck,
            DBAdvisors, GenTypes, ConfigureGet

-----------------------------------------------------------------------------
(* The invariant *)

Steps == SoloSteps \union OtherSteps \union {"enter", "probe", "check", "load", "save"}
Some == Urls \union {None}

ProcType ==
    [cmd : {"idle", "link", "manage", "unlink", "solo"}, dir : Dirs \union {None}, url : Some,
     yes : BOOLEAN, todo : Seq(Steps), state : Links, target : Some, key : Some,
     edit : SUBSET Urls, home : Links, moved : BOOLEAN, said : BOOLEAN, wrote : BOOLEAN,
     sent : SUBSET [url : Some, key : Some]]

TypeInv ==
    /\ link \in [Dirs -> Links] /\ profiles \subseteq Urls /\ current \in Some
    /\ proc \in [Procs -> ProcType]

\* A command of a linked branch, after it has found its tree.
SoloInv(c) ==
    /\ c.todo \in Seq(SoloSteps) /\ ResolvesFirst(c.todo)
    /\ c.sent # {} => NoResolve(c.todo)
    /\ \A r \in c.sent : r.url = c.target
    /\ c.target # None \/ ProfileFirst(c.todo)
    /\ c.sent \subseteq [url : Urls, key : Some]
    /\ c.said \/ AskFirst(c.todo)
    /\ c.wrote => c.said
    /\ ~c.moved =>
          /\ c.home \in Urls
          /\ c.state \in {None, c.home} /\ c.target \in {None, c.home} /\ c.key \in {None, c.home}
          /\ c.state # None \/ StateFirst(c.todo)
          /\ c.sent \subseteq [url : {c.home}, key : {c.home, None}]

\* What a command has still to do.
TodoInv(c) ==
    /\ c.cmd = "idle" => c.todo = <<>>
    /\ c.cmd # "idle" => c.dir \in Dirs
    /\ c.cmd = "link" => c.url \in Urls /\ c.todo \in Preamble \union Linking
    /\ c.cmd \in {"manage", "unlink"} => c.todo \in Preamble \/ c.todo \in Seq(OtherSteps)
    /\ c.cmd = "solo" => c.todo \in Preamble \/ SoloInv(c)
    /\ c.cmd # "solo" \/ c.todo \in Preamble => c.sent = {} /\ ~c.wrote
    /\ c.todo = <<"enter">> /\ c.state = "cut" => c.target = None

\* While the link of its directory is not changed, a command knows what it is.
HomeInv(c) ==
    ~c.moved =>
        /\ c.cmd = "solo" /\ c.todo \notin Preamble => link[c.dir] = c.home
        /\ c.todo \in {<<"profile", "enter">>, <<"enter">>} => link[c.dir] = c.state

RoutesInv == TypeInv /\ \A p \in Procs : TodoInv(proc[p]) /\ HomeInv(proc[p])

-----------------------------------------------------------------------------
(* What a command does next, by its first step *)

\* Which command is at which step, and what it has found out by then.
LEMMA Phase ==
    ASSUME NEW c \in ProcType, TodoInv(c), c.todo # <<>>
    PROVE  /\ c.cmd # "idle" /\ c.dir \in Dirs
           /\ Head(c.todo) \in {"find", "ref", "look", "clear", "removeAll"} =>
                 c.cmd \in {"manage", "unlink"} /\ c.todo \in Seq(OtherSteps)
           /\ Head(c.todo) \in {"probe", "check", "load", "save"} =>
                 c.cmd = "link" /\ c.todo \in Linking
           /\ Head(c.todo) = "saveLink" =>
                 \/ c.cmd = "link" /\ c.todo \in Linking
                 \/ c.cmd \in {"manage", "unlink"} /\ c.todo \in Seq(OtherSteps)
           /\ Head(c.todo) = "ask" =>
                 \/ c.cmd \in {"manage", "unlink"} /\ c.todo \in Seq(OtherSteps)
                 \/ c.cmd = "solo" /\ c.todo \notin Preamble /\ SoloInv(c)
           /\ Head(c.todo) \in Requests \union {"key", "local"} =>
                 c.cmd = "solo" /\ c.todo \notin Preamble /\ SoloInv(c)
           /\ Head(c.todo) = "state" =>
                 \/ c.todo = <<"state", "profile", "enter">> /\ c.sent = {} /\ ~c.wrote
                 \/ c.cmd = "solo" /\ c.todo \notin Preamble /\ SoloInv(c)
           /\ Head(c.todo) = "profile" =>
                 \/ c.todo = <<"profile", "enter">> /\ c.sent = {} /\ ~c.wrote
                 \/ c.cmd = "solo" /\ c.todo \notin Preamble /\ SoloInv(c)
           /\ Head(c.todo) = "enter" => c.todo = <<"enter">> /\ c.sent = {} /\ ~c.wrote
<1>1. c.cmd \in {"idle", "link", "manage", "unlink", "solo"} /\ c.todo \in Seq(Steps)
    BY DEF ProcType
<1>2. c.cmd # "idle" /\ c.dir \in Dirs
    BY DEF TodoInv
<1>3. CASE c.todo \in Preamble
    <2>1. Head(c.todo) \in {"state", "profile", "enter"}
        BY <1>3 DEF Preamble
    <2> QED BY <1>2, <1>3, <2>1 DEF Preamble, Requests, TodoInv
<1>4. CASE c.cmd = "link" /\ c.todo \in Linking
    <2>1. Head(c.todo) \in {"probe", "check", "load", "save", "saveLink"}
        BY <1>4 DEF Linking
    <2> QED BY <1>2, <1>4, <2>1 DEF Requests
<1>5. CASE c.cmd \in {"manage", "unlink"} /\ c.todo \in Seq(OtherSteps)
    <2>1. Head(c.todo) \in OtherSteps
        BY <1>5, TailFacts
    <2> QED BY <1>2, <1>5, <2>1 DEF OtherSteps, Requests
<1>6. CASE c.cmd = "solo" /\ SoloInv(c) /\ c.todo \notin Preamble
    <2>1. Head(c.todo) \in SoloSteps
        BY <1>6, TailFacts DEF SoloInv
    <2> QED BY <1>2, <1>6, <2>1 DEF SoloSteps, Requests, Resolves
<1> QED BY <1>1, <1>2, <1>3, <1>4, <1>5, <1>6 DEF TodoInv

\* A process without a command.
LEMMA IdleFits ==
    Idle \in ProcType /\ TodoInv(Idle) /\ HomeInv(Idle)
<1>1. Idle \in ProcType
    BY DEF Idle, ProcType, Some, Links
<1>2. Idle.todo = <<>> /\ Idle.cmd = "idle" /\ Idle.sent = {} /\ ~Idle.wrote /\ Idle.todo \notin Preamble
    BY DEF Idle, Preamble
<1> QED BY <1>1, <1>2 DEF TodoInv, HomeInv

\* A step that leaves the links alone needs to fit its own process only.
LEMMA FitsAfter ==
    ASSUME RoutesInv, NEW p \in Procs, NEW c \in ProcType, Becomes(p, c),
           link' = link, profiles' \subseteq Urls, current' \in Some,
           TodoInv(c), HomeInv(c)
    PROVE  RoutesInv'
<1>1. proc' \in [Procs -> ProcType] /\ proc'[p] = c
      /\ \A q \in Procs : q # p => proc'[q] = proc[q]
    BY DEF RoutesInv, TypeInv, Becomes
<1>2. \A q \in Procs : TodoInv(proc[q])'
    BY <1>1 DEF RoutesInv, TodoInv, SoloInv
<1>3. \A q \in Procs : HomeInv(proc[q])'
    BY <1>1 DEF RoutesInv, HomeInv
<1> QED BY <1>1, <1>2, <1>3 DEF RoutesInv, TypeInv

\* A command does not notice that the link of its directory has changed.
LEMMA MovedFits ==
    ASSUME NEW c \in ProcType, TodoInv(c)
    PROVE  LET m == [c EXCEPT !.moved = TRUE]
           IN  m \in ProcType /\ TodoInv(m)
<1> DEFINE m == [c EXCEPT !.moved = TRUE]
<1>1. m \in ProcType
    BY DEF ProcType
<1>2. /\ m.moved = TRUE /\ m.cmd = c.cmd /\ m.dir = c.dir /\ m.url = c.url /\ m.todo = c.todo
      /\ m.sent = c.sent /\ m.said = c.said /\ m.wrote = c.wrote /\ m.target = c.target /\ m.state = c.state
    BY DEF ProcType
<1> HIDE DEF m
<1>3. TodoInv(m)
    BY <1>2 DEF TodoInv, SoloInv
<1> QED BY <1>1, <1>3 DEF m

\* A step that changes the link of a directory tells the others there.
LEMMA FitsAfterChange ==
    ASSUME RoutesInv, NEW p \in Procs, NEW c \in ProcType, NEW value \in Links,
           Relinks(p, value, c), proc[p].dir \in Dirs,
           profiles' = profiles, current' = current,
           TodoInv(c), c.cmd # "solo", c.todo \notin Preamble
    PROVE  RoutesInv'
<1>1. link' = [link EXCEPT ![proc[p].dir] = value] /\ link' \in [Dirs -> Links]
    BY DEF Relinks, RoutesInv, TypeInv
<1>2. /\ DOMAIN proc' = Procs /\ proc'[p] = c
      /\ \A q \in Procs : q # p =>
            \/ proc'[q] = [proc[q] EXCEPT !.moved = TRUE]
            \/ proc'[q] = proc[q] /\ proc[q].dir # proc[p].dir
    BY DEF Relinks
<1>3. ASSUME NEW q \in Procs
      PROVE  proc'[q] \in ProcType /\ TodoInv(proc[q])' /\ HomeInv(proc[q])'
    <2>1. CASE q = p
        BY <1>2, <2>1 DEF TodoInv, SoloInv, HomeInv, Preamble
    <2>2. CASE q # p /\ proc'[q] = [proc[q] EXCEPT !.moved = TRUE]
        <3>1. proc[q] \in ProcType /\ TodoInv(proc[q])
            BY DEF RoutesInv, TypeInv
        <3>2. proc'[q] \in ProcType /\ proc'[q].moved
            BY <2>2, <3>1 DEF ProcType
        <3>3. TodoInv(proc'[q])
            BY <2>2, <3>1, MovedFits
        <3> QED BY <3>2, <3>3 DEF TodoInv, SoloInv, HomeInv
    <2>3. CASE q # p /\ proc'[q] = proc[q] /\ proc[q].dir # proc[p].dir
        <3>1. proc[q] \in ProcType /\ TodoInv(proc[q]) /\ HomeInv(proc[q])
            BY DEF RoutesInv, TypeInv
        <3>2. proc[q].todo # <<>> \/ proc[q].cmd = "solo" => proc[q].dir \in Dirs
            BY <3>1 DEF TodoInv
        <3>3. proc[q].dir \in Dirs => link'[proc[q].dir] = link[proc[q].dir]
            BY <1>1, <2>3 DEF RoutesInv, TypeInv
        <3> QED BY <2>3, <3>1, <3>2, <3>3 DEF TodoInv, SoloInv, HomeInv
    <2> QED BY <1>2, <2>1, <2>2, <2>3
<1>4. proc' \in [Procs -> ProcType]
    BY <1>2, <1>3 DEF Relinks
<1> QED BY <1>1, <1>3, <1>4 DEF RoutesInv, TypeInv

-----------------------------------------------------------------------------
(* Every step keeps the invariant *)

\* The end of a command, also when config.json is left cut.
LEMMA EndsFits ==
    ASSUME RoutesInv, NEW p \in Procs, Ends(p), link' = link, profiles' \subseteq Urls,
           current' \in Some
    PROVE  RoutesInv'
BY IdleFits, FitsAfter DEF Ends

\* A new command reads link.json first.
LEMMA BeginFits ==
    ASSUME RoutesInv, NEW p \in Procs, Begin(p)
    PROVE  RoutesInv'
<1>1. PICK cmd \in {"link", "manage", "unlink", "solo"}, d \in Dirs, u \in Some, yes \in BOOLEAN :
         /\ cmd = "link" => u \in Urls
         /\ Becomes(p, [Idle EXCEPT !.cmd = cmd, !.dir = d, !.url = u, !.yes = yes,
                                    !.todo = <<"state", "profile", "enter">>])
    BY ZenonT(90) DEF Begin, Some
<1> DEFINE c == [Idle EXCEPT !.cmd = cmd, !.dir = d, !.url = u, !.yes = yes,
                            !.todo = <<"state", "profile", "enter">>]
<1>2. <<"state", "profile", "enter">> \in Seq(Steps) \cap Preamble
    BY DEF Steps, SoloSteps, Resolves, Preamble
<1>3. c \in ProcType
    BY <1>2, IdleFits DEF ProcType, Some
<1>4. /\ c.cmd = cmd /\ c.dir = d /\ c.url = u /\ c.todo = <<"state", "profile", "enter">>
      /\ c.sent = {} /\ ~c.wrote
    BY DEF Idle
<1> HIDE DEF c
<1>5. TodoInv(c) /\ HomeInv(c)
    <2>1. c.todo # <<"enter">> /\ c.todo # <<"profile", "enter">>
        BY <1>4
    <2> QED BY <1>1, <1>2, <1>4, <2>1 DEF TodoInv, HomeInv
<1>6. link' = link /\ profiles' = profiles /\ current' = current
    BY DEF Begin, files
<1> QED BY <1>1, <1>3, <1>5, <1>6, FitsAfter DEF c, RoutesInv, TypeInv

\* What the invariant says of one process.
LEMMA ProcFacts ==
    ASSUME RoutesInv, NEW p \in Procs
    PROVE  /\ proc[p] \in ProcType /\ TodoInv(proc[p]) /\ HomeInv(proc[p])
           /\ link \in [Dirs -> Links] /\ profiles \subseteq Urls /\ current \in Some
BY DEF RoutesInv, TypeInv

\* LoadStateAtDir: until it is changed, the link that is read is the home of the
\* command.
LEMMA LoadStateFits ==
    ASSUME Assumptions, RoutesInv, NEW p \in Procs, LoadState(p)
    PROVE  RoutesInv'
<1> DEFINE b == proc[p]
           c == [Advanced(b) EXCEPT !.state = link[b.dir]]
<1>1. /\ b \in ProcType /\ TodoInv(b) /\ HomeInv(b) /\ b.todo # <<>> /\ Head(b.todo) = "state"
      /\ link \in [Dirs -> Links] /\ Becomes(p, c)
      /\ link' = link /\ profiles' \subseteq Urls /\ current' \in Some
    BY ProcFacts DEF LoadState, At, files
<1> HIDE DEF b
<1>2. b.dir \in Dirs /\ link[b.dir] \in Links /\ b.todo \in Seq(Steps)
    BY <1>1, Phase DEF ProcType
<1>3. c \in ProcType
    BY <1>1, <1>2, TailFacts DEF ProcType, Advanced
<1>4. /\ c.cmd = b.cmd /\ c.dir = b.dir /\ c.url = b.url /\ c.todo = Tail(b.todo)
      /\ c.state = link[b.dir] /\ c.target = b.target /\ c.key = b.key /\ c.home = b.home
      /\ c.moved = b.moved /\ c.sent = b.sent /\ c.said = b.said /\ c.wrote = b.wrote
    BY <1>1 DEF ProcType, Advanced
<1> HIDE DEF c
<1>5. CASE b.todo = <<"state", "profile", "enter">> /\ b.sent = {} /\ ~b.wrote
    <2>1. c.todo = <<"profile", "enter">> /\ c.todo \in Preamble /\ c.todo # <<"enter">>
        BY <1>4, <1>5 DEF Preamble
    <2>2. TodoInv(c)
        BY <1>1, <1>2, <1>4, <1>5, <2>1 DEF TodoInv, Preamble
    <2>3. HomeInv(c)
        BY <1>4, <2>1 DEF HomeInv
    <2> QED BY <1>1, <1>3, <2>2, <2>3, FitsAfter DEF c
<1>6. CASE b.cmd = "solo" /\ b.todo \notin Preamble /\ SoloInv(b)
    <2>1. b.todo \in Seq(SoloSteps) /\ c.todo \in Seq(SoloSteps)
        BY <1>1, <1>4, <1>6, TailFacts DEF SoloInv
    <2>2. b.sent = {}
        BY <1>1, <1>6, <2>1, HandlerTail DEF SoloInv, Resolves
    <2>3. ~b.moved => link[b.dir] = b.home /\ b.home \in Urls /\ b.home # None
        BY <1>1, <1>6 DEF HomeInv, SoloInv, Assumptions
    <2>4. SoloInv(c)
        <3>1. ResolvesFirst(c.todo)
            BY <1>1, <1>4, <1>6, <2>1, HandlerTail DEF SoloInv
        <3>2. b.target # None \/ ProfileFirst(c.todo)
            BY <1>1, <1>4, <1>6, <2>1, HandlerTail DEF SoloInv
        <3>3. b.said \/ AskFirst(c.todo)
            BY <1>1, <1>4, <1>6, <2>1, HandlerTail DEF SoloInv
        <3> QED BY <1>4, <1>6, <2>1, <2>2, <2>3, <3>1, <3>2, <3>3 DEF SoloInv
    <2>5. c.todo \notin Preamble
        <3>1. "enter" \notin SoloSteps
            BY DEF SoloSteps, Requests, Resolves
        <3> QED BY <2>1, <3>1, NotPreamble
    <2>6. TodoInv(c)
        BY <1>2, <1>4, <1>6, <2>4, <2>5 DEF TodoInv, Preamble
    <2>7. HomeInv(c)
        BY <1>4, <1>6, <2>3, <2>5 DEF HomeInv, Preamble
    <2> QED BY <1>1, <1>3, <2>6, <2>7, FitsAfter DEF c
<1> QED BY <1>1, <1>5, <1>6, Phase

\* A command that works on the files, after it has found its tree.
Plain(c) ==
    /\ c.dir \in Dirs /\ c.sent = {} /\ ~c.wrote
    /\ \/ c.cmd = "link" /\ c.url \in Urls /\ c.todo \in Linking
       \/ c.cmd \in {"manage", "unlink"} /\ c.todo \in Seq(OtherSteps)

\* Such a command has sent nothing, and where it is at home does not matter.
LEMMA PlainFits ==
    ASSUME NEW c \in ProcType, Plain(c)
    PROVE  TodoInv(c) /\ HomeInv(c) /\ c.cmd # "solo" /\ c.todo \notin Preamble
<1>1. c.todo \notin Preamble
    <2>1. "enter" \notin OtherSteps
        BY DEF OtherSteps
    <2>2. c.todo \in Seq(OtherSteps) => c.todo \notin Preamble
        BY <2>1, NotPreamble
    <2>3. c.todo \in Linking => c.todo \notin Preamble
        BY DEF Linking, Preamble
    <2> QED BY <2>2, <2>3 DEF Plain
<1>2. c.cmd # "solo" /\ c.cmd # "idle"
    BY DEF Plain
<1> QED BY <1>1, <1>2 DEF Plain, TodoInv, HomeInv, Preamble

\* link, unlink and link with a workspace stay what they are to their last step.
LEMMA PlainAdvances ==
    ASSUME NEW c \in ProcType, Plain(c), c.todo # <<>>
    PROVE  Advanced(c) \in ProcType /\ Plain(Advanced(c))
<1> DEFINE a == Advanced(c)
<1>1. a \in ProcType
    BY TailFacts DEF ProcType, Advanced
<1>2. a.cmd = c.cmd /\ a.dir = c.dir /\ a.url = c.url /\ a.sent = c.sent /\ a.todo = Tail(c.todo)
      /\ a.wrote = c.wrote
    BY DEF ProcType, Advanced
<1>3. c.todo \in Linking => Tail(c.todo) \in Linking
    <2>1. Tail(<<"probe", "check", "load", "save", "saveLink">>)
             = <<"check", "load", "save", "saveLink">>
        OBVIOUS
    <2>2. Tail(<<"check", "load", "save", "saveLink">>) = <<"load", "save", "saveLink">>
        OBVIOUS
    <2>3. Tail(<<"load", "save", "saveLink">>) = <<"save", "saveLink">>
        OBVIOUS
    <2>4. Tail(<<"save", "saveLink">>) = <<"saveLink">> /\ Tail(<<"saveLink">>) = <<>>
        OBVIOUS
    <2> QED BY <2>1, <2>2, <2>3, <2>4 DEF Linking
<1>4. c.todo \in Seq(OtherSteps) => Tail(c.todo) \in Seq(OtherSteps)
    BY TailFacts
<1> HIDE DEF a
<1>5. Plain(a)
    BY <1>2, <1>3, <1>4 DEF Plain
<1> QED BY <1>1, <1>5 DEF a

\* The steps that only these commands take.
LEMMA PlainStep ==
    ASSUME RoutesInv, NEW p \in Procs, proc[p].todo # <<>>,
           \/ Head(proc[p].todo) \in {"find", "ref", "look", "clear", "removeAll", "probe",
                                      "check", "load", "save", "saveLink"}
           \/ Head(proc[p].todo) = "ask" /\ proc[p].cmd # "solo"
    PROVE  /\ proc[p] \in ProcType /\ Plain(proc[p])
           /\ Advanced(proc[p]) \in ProcType /\ Plain(Advanced(proc[p]))
<1>1. proc[p] \in ProcType /\ TodoInv(proc[p])
    BY ProcFacts
<1>2. Plain(proc[p])
    BY <1>1, Phase DEF Plain, TodoInv
<1> QED BY <1>1, <1>2, PlainAdvances

\* Steps of such a command that leave the links alone.
LEMMA PlainStepFits ==
    ASSUME RoutesInv, NEW p \in Procs, NEW c \in ProcType, Plain(c), Becomes(p, c),
           link' = link, profiles' \subseteq Urls, current' \in Some
    PROVE  RoutesInv'
BY PlainFits, FitsAfter

\* The requests of link, its look at link.json, and project-ref.
LEMMA WorkFits ==
    ASSUME RoutesInv, NEW p \in Procs,
           Probe(p) \/ Find(p) \/ CheckLink(p) \/ WriteRef(p)
    PROVE  RoutesInv'
<1>1. link' = link /\ profiles' \subseteq Urls /\ current' \in Some
    BY ProcFacts DEF Probe, Find, CheckLink, WriteRef, files
<1>2. proc[p].todo # <<>> /\ Head(proc[p].todo) \in {"probe", "find", "check", "ref"}
    BY DEF Probe, Find, CheckLink, WriteRef, At
<1>3. Advanced(proc[p]) \in ProcType /\ Plain(Advanced(proc[p]))
    BY <1>2, PlainStep
<1>4. Becomes(p, Advanced(proc[p])) \/ Ends(p)
    BY DEF Probe, Find, CheckLink, WriteRef
<1> QED BY <1>1, <1>3, <1>4, EndsFits, PlainStepFits

\* LoadConfig of SaveProfile.
LEMMA SaveLoadFits ==
    ASSUME RoutesInv, NEW p \in Procs, SaveLoad(p)
    PROVE  RoutesInv'
<1> DEFINE a == Advanced(proc[p])
           c == [a EXCEPT !.edit = profiles]
<1>1. a \in ProcType /\ Plain(a)
    BY PlainStep DEF SaveLoad, At
<1>2. link' = link /\ profiles' = profiles /\ current' = current /\ profiles \subseteq Urls /\ current \in Some
    BY ProcFacts DEF SaveLoad, files
<1>3. Becomes(p, c)
    BY DEF SaveLoad
<1> HIDE DEF a
<1>4. c \in ProcType
    BY <1>1, <1>2 DEF ProcType
<1>5. c.cmd = a.cmd /\ c.dir = a.dir /\ c.url = a.url /\ c.sent = a.sent /\ c.todo = a.todo
      /\ c.wrote = a.wrote
    BY <1>1 DEF ProcType
<1> HIDE DEF c
<1>6. Plain(c)
    BY <1>1, <1>5 DEF Plain
<1> QED BY <1>2, <1>3, <1>4, <1>6, PlainStepFits

\* saveConfig of SaveProfile.
LEMMA SaveProfileFits ==
    ASSUME RoutesInv, NEW p \in Procs, SaveProfile(p)
    PROVE  RoutesInv'
<1>1. /\ proc[p] \in ProcType /\ Plain(proc[p])
      /\ Advanced(proc[p]) \in ProcType /\ Plain(Advanced(proc[p]))
    BY PlainStep DEF SaveProfile, At
<1>2. proc[p].cmd = "link"
    BY ProcFacts, Phase DEF SaveProfile, At
<1>3. proc[p].edit \subseteq Urls /\ proc[p].url \in Urls
    BY <1>1, <1>2 DEF ProcType, Plain
<1> QED BY <1>1, <1>3, PlainStepFits DEF SaveProfile, Some

\* The steps that change link.json.
LEMMA SaveLinkFits ==
    ASSUME RoutesInv, NEW p \in Procs, SaveLink(p) \/ Clear(p) \/ RemoveAll(p)
    PROVE  RoutesInv'
<1>1. /\ Plain(proc[p]) /\ Advanced(proc[p]) \in ProcType /\ Plain(Advanced(proc[p]))
    BY PlainStep DEF SaveLink, Clear, RemoveAll, At
<1>2. PICK value \in Links : Relinks(p, value, Advanced(proc[p]))
    BY <1>1 DEF SaveLink, Clear, RemoveAll, Links, Plain
<1>3. profiles' = profiles /\ current' = current
    BY DEF SaveLink, Clear, RemoveAll
<1> QED BY <1>1, <1>2, <1>3, PlainFits, FitsAfterChange DEF Plain

\* unlink.Run chooses what it removes.
LEMMA LookFits ==
    ASSUME RoutesInv, NEW p \in Procs, Look(p)
    PROVE  RoutesInv'
<1>1. proc[p] \in ProcType /\ Plain(proc[p]) /\ proc[p].cmd \in {"manage", "unlink"}
    <2>1. proc[p] \in ProcType /\ Plain(proc[p])
        BY PlainStep DEF Look, At
    <2>2. proc[p].cmd \in {"manage", "unlink"}
        BY ProcFacts, Phase DEF Look, At
    <2> QED BY <2>1, <2>2
<1>2. link' = link /\ profiles' \subseteq Urls /\ current' \in Some
    BY ProcFacts DEF Look, files
<1>3. ASSUME NEW steps \in {<<"ask", "clear">>, <<"removeAll">>},
             Becomes(p, [proc[p] EXCEPT !.todo = steps])
      PROVE  RoutesInv'
    <2> DEFINE b == proc[p]
               c == [b EXCEPT !.todo = steps]
    <2>1. steps \in Seq(OtherSteps) /\ steps \in Seq(Steps)
        <3>1. <<"ask", "clear">> \in Seq(OtherSteps) /\ <<"ask", "clear">> \in Seq(Steps)
            BY DEF OtherSteps, Steps
        <3>2. <<"removeAll">> \in Seq(OtherSteps) /\ <<"removeAll">> \in Seq(Steps)
            BY DEF OtherSteps, Steps
        <3> QED BY <3>1, <3>2
    <2>2. c \in ProcType
        BY <1>1, <2>1 DEF ProcType
    <2>3. c.cmd = b.cmd /\ c.dir = b.dir /\ c.sent = b.sent /\ c.todo = steps /\ c.wrote = b.wrote
        BY <1>1 DEF ProcType
    <2> HIDE DEF c
    <2>4. Plain(c)
        BY <1>1, <2>1, <2>3 DEF Plain
    <2> QED BY <1>2, <1>3, <2>2, <2>4, PlainStepFits DEF c
<1> QED BY <1>2, <1>3, EndsFits DEF Look

\* A command ends or is killed between its steps.
LEMMA EndFits ==
    ASSUME RoutesInv, NEW p \in Procs, End(p)
    PROVE  RoutesInv'
BY ProcFacts, EndsFits DEF End, files

\* A command is killed while config.json or link.json is cut.
LEMMA KilledWritingFits ==
    ASSUME RoutesInv, NEW p \in Procs, KilledWriting(p)
    PROVE  RoutesInv'
<1>1. CASE Ends(p) /\ profiles' = {} /\ current' = None /\ link' = link
    BY <1>1, EndsFits DEF Some
<1>2. CASE At(p, "saveLink") /\ Relinks(p, "cut", Idle) /\ profiles' = profiles /\ current' = current
    <2>1. proc[p].dir \in Dirs
        BY <1>2, PlainStep DEF At, Plain
    <2>2. Idle.cmd # "solo" /\ Idle.todo \notin Preamble
        BY DEF Idle, Preamble
    <2> QED BY <1>2, <2>1, <2>2, IdleFits, FitsAfterChange DEF Links
<1> QED BY <1>1, <1>2 DEF KilledWriting

-----------------------------------------------------------------------------
(* The steps of a command of a linked branch *)

\* Until the link is changed, such a command is that of its home.
LEMMA SoloFits ==
    ASSUME NEW c \in ProcType, c.cmd = "solo", c.dir \in Dirs, SoloInv(c),
           ~c.moved => link[c.dir] = c.home
    PROVE  TodoInv(c) /\ HomeInv(c)
<1>1. c.todo \notin Preamble
    <2>1. "enter" \notin SoloSteps
        BY DEF SoloSteps, Requests, Resolves
    <2> QED BY <2>1, NotPreamble DEF SoloInv
<1> QED BY <1>1 DEF TodoInv, HomeInv, Preamble

\* A step of a command of a linked branch, after it has found its tree.
LEMMA SoloStep ==
    ASSUME RoutesInv, NEW p \in Procs, proc[p].todo # <<>>, proc[p].cmd = "solo",
           Head(proc[p].todo) # "enter", proc[p].todo # <<"profile", "enter">>,
           proc[p].todo # <<"state", "profile", "enter">>
    PROVE  /\ proc[p] \in ProcType /\ proc[p].dir \in Dirs /\ SoloInv(proc[p])
           /\ ~proc[p].moved => link[proc[p].dir] = proc[p].home
           /\ proc[p].todo \in Seq(SoloSteps) /\ Tail(proc[p].todo) \in Seq(SoloSteps)
           /\ Tail(proc[p].todo) \in Seq(Steps)
<1>1. proc[p] \in ProcType /\ TodoInv(proc[p]) /\ HomeInv(proc[p])
    BY ProcFacts
<1>2. proc[p].todo \notin Preamble
    BY DEF Preamble
<1>3. proc[p].todo \in Seq(SoloSteps)
    BY <1>1, <1>2 DEF TodoInv, SoloInv
<1>4. Tail(proc[p].todo) \in Seq(SoloSteps)
    BY <1>3, TailFacts
<1>5. Tail(proc[p].todo) \in Seq(Steps)
    BY <1>1, TailFacts DEF ProcType
<1> QED BY <1>1, <1>2, <1>3, <1>4, <1>5 DEF TodoInv, HomeInv

\* A step that works on local files only.
LEMMA LocalFits ==
    ASSUME RoutesInv, NEW p \in Procs, Local(p)
    PROVE  RoutesInv'
<1> DEFINE b == proc[p]
           c == Advanced(b)
<1>1. b.todo # <<>> /\ Head(b.todo) = "local" /\ Becomes(p, c)
      /\ link' = link /\ profiles' \subseteq Urls /\ current' \in Some
    BY ProcFacts DEF Local, At, files
<1>2. b.cmd = "solo" /\ b.todo \notin Preamble
    BY <1>1, ProcFacts, Phase
<1>3. /\ b \in ProcType /\ b.dir \in Dirs /\ SoloInv(b) /\ (~b.moved => link[b.dir] = b.home)
      /\ b.todo \in Seq(SoloSteps) /\ Tail(b.todo) \in Seq(SoloSteps) /\ Tail(b.todo) \in Seq(Steps)
    BY <1>1, <1>2, SoloStep DEF Preamble
<1> HIDE DEF b
<1>4. c \in ProcType
    BY <1>3 DEF ProcType, Advanced
<1>5. /\ c.cmd = b.cmd /\ c.dir = b.dir /\ c.todo = Tail(b.todo)
      /\ c.state = b.state /\ c.target = b.target /\ c.key = b.key /\ c.home = b.home
      /\ c.moved = b.moved /\ c.sent = b.sent /\ c.said = b.said /\ c.wrote = b.wrote
    BY <1>3 DEF ProcType, Advanced
<1> HIDE DEF c
<1>6. SoloInv(c)
    BY <1>1, <1>3, <1>5, HandlerTail DEF SoloInv, Requests
<1>7. TodoInv(c) /\ HomeInv(c)
    BY <1>2, <1>3, <1>4, <1>5, <1>6, SoloFits
<1> QED BY <1>1, <1>4, <1>7, FitsAfter DEF c, b

\* The prompt of unlink and of a command of a linked branch.
LEMMA AskFits ==
    ASSUME RoutesInv, NEW p \in Procs, Ask(p)
    PROVE  RoutesInv'
<1> DEFINE b == proc[p]
           c == [Advanced(b) EXCEPT !.said = TRUE]
<1>1. b.todo # <<>> /\ Head(b.todo) = "ask" /\ (Becomes(p, c) \/ Ends(p))
      /\ link' = link /\ profiles' \subseteq Urls /\ current' \in Some
    BY ProcFacts DEF Ask, At, files
<1>2. b \in ProcType /\ Tail(b.todo) \in Seq(Steps)
    <2>1. b \in ProcType
        BY ProcFacts
    <2> HIDE DEF b
    <2> QED BY <1>1, <2>1, TailFacts DEF ProcType
<1>3. c \in ProcType
    BY <1>2 DEF ProcType, Advanced
<1>4. /\ c.cmd = b.cmd /\ c.dir = b.dir /\ c.url = b.url /\ c.todo = Tail(b.todo)
      /\ c.state = b.state /\ c.target = b.target /\ c.key = b.key /\ c.home = b.home
      /\ c.moved = b.moved /\ c.sent = b.sent /\ c.said = TRUE /\ c.wrote = b.wrote
    BY <1>2 DEF ProcType, Advanced
<1> HIDE DEF c
<1>5. CASE b.cmd # "solo"
    <2>1. Plain(Advanced(b))
        BY <1>1, <1>5, PlainStep
    <2>2. /\ Advanced(b).cmd = b.cmd /\ Advanced(b).dir = b.dir /\ Advanced(b).url = b.url
          /\ Advanced(b).todo = Tail(b.todo) /\ Advanced(b).sent = b.sent
          /\ Advanced(b).wrote = b.wrote
        BY <1>2 DEF ProcType, Advanced
    <2>3. Plain(c)
        BY <1>4, <2>1, <2>2 DEF Plain
    <2> QED BY <1>1, <1>3, <2>3, PlainStepFits, EndsFits DEF c
<1>6. CASE b.cmd = "solo"
    <2>1. /\ b.dir \in Dirs /\ SoloInv(b) /\ (~b.moved => link[b.dir] = b.home)
          /\ b.todo \in Seq(SoloSteps) /\ Tail(b.todo) \in Seq(SoloSteps)
        <3>1. b.todo \notin Preamble
            BY <1>1, <1>6, ProcFacts, Phase
        <3> QED BY <1>1, <1>6, <3>1, SoloStep DEF Preamble
    <2>2. SoloInv(c)
        BY <1>1, <1>4, <2>1, HandlerTail DEF SoloInv, Requests
    <2>3. TodoInv(c) /\ HomeInv(c)
        BY <1>3, <1>4, <1>6, <2>1, <2>2, SoloFits
    <2> QED BY <1>1, <1>3, <2>3, FitsAfter, EndsFits DEF c, b
<1> QED BY <1>5, <1>6

\* The profile of a directory that is linked to a branch is that of the branch.
LEMMA ProfileFacts ==
    ASSUME Assumptions, TypeInv, NEW state \in Links
    PROVE  /\ Profile(state) \in Some
           /\ state = "cut" => Profile(state) = None
           /\ state \in Urls => Profile(state) \in {None, state}
<1>1. "cut" \notin Urls
    BY DEF Assumptions
<1> QED BY <1>1 DEF TypeInv, Profile, Some

\* Resolver.Resolve: the command has the profile of its home, or it ends.
LEMMA LoadProfileFits ==
    ASSUME Assumptions, RoutesInv, NEW p \in Procs, LoadProfile(p)
    PROVE  RoutesInv'
<1> DEFINE b == proc[p]
           t == Profile(b.state)
           c == [Advanced(b) EXCEPT !.target = t, !.key = t]
<1>1. /\ b \in ProcType /\ TodoInv(b) /\ HomeInv(b) /\ b.todo # <<>> /\ Head(b.todo) = "profile"
      /\ Ends(p) \/ (Becomes(p, c) /\ (t # None \/ Tail(b.todo) = <<"enter">>))
      /\ link' = link /\ profiles' \subseteq Urls /\ current' \in Some
    BY ProcFacts DEF LoadProfile, At, files
<1>2. t \in Some /\ (b.state = "cut" => t = None) /\ (b.state \in Urls => t \in {None, b.state})
    BY <1>1, ProfileFacts DEF ProcType, RoutesInv
<1>3. b.dir \in Dirs
    BY <1>1, Phase
<1>4. b.cmd = "solo" /\ b.todo \notin Preamble =>
         /\ SoloInv(b) /\ (~b.moved => link[b.dir] = b.home)
         /\ b.todo \in Seq(SoloSteps) /\ Tail(b.todo) \in Seq(SoloSteps)
    BY <1>1, SoloStep DEF Preamble
<1> HIDE DEF b, t
<1>5. c \in ProcType
    BY <1>1, <1>2, TailFacts DEF ProcType, Advanced
<1>6. /\ c.cmd = b.cmd /\ c.dir = b.dir /\ c.url = b.url /\ c.todo = Tail(b.todo)
      /\ c.state = b.state /\ c.target = t /\ c.key = t /\ c.home = b.home
      /\ c.moved = b.moved /\ c.sent = b.sent /\ c.said = b.said /\ c.wrote = b.wrote
    BY <1>1 DEF ProcType, Advanced
<1> HIDE DEF c
<1>7. CASE b.todo = <<"profile", "enter">> /\ b.sent = {} /\ ~b.wrote
    <2>1. c.todo = <<"enter">> /\ c.todo \in Preamble /\ c.todo # <<"profile", "enter">>
        BY <1>6, <1>7 DEF Preamble
    <2>2. TodoInv(c)
        BY <1>1, <1>2, <1>3, <1>6, <1>7, <2>1 DEF TodoInv, Preamble
    <2>3. HomeInv(c)
        BY <1>1, <1>6, <1>7, <2>1 DEF HomeInv
    <2> QED BY <1>1, <1>5, <2>2, <2>3, FitsAfter, EndsFits DEF c, b
<1>8. CASE b.cmd = "solo" /\ b.todo \notin Preamble /\ SoloInv(b)
    <2>1. Tail(b.todo) # <<"enter">>
        <3>1. "enter" \notin SoloSteps
            BY DEF SoloSteps, Requests, Resolves
        <3> QED BY <1>4, <1>8, <3>1, NotPreamble DEF Preamble
    <2>2. CASE Ends(p)
        BY <1>1, <2>2, EndsFits
    <2>3. CASE Becomes(p, c) /\ t # None
        <3>1. b.sent = {}
            BY <1>1, <1>4, <1>8, HandlerTail DEF SoloInv, Resolves
        <3>2. ~b.moved => b.state = b.home /\ b.home \in Urls /\ b.state # None
            BY <1>1, <1>4, <1>8, HandlerTail DEF SoloInv
        <3>3. ResolvesFirst(c.todo)
            BY <1>1, <1>4, <1>6, <1>8, HandlerTail DEF SoloInv
        <3>4. b.said \/ AskFirst(c.todo)
            BY <1>1, <1>4, <1>6, <1>8, HandlerTail DEF SoloInv
        <3>5. SoloInv(c)
            BY <1>2, <1>4, <1>6, <1>8, <2>3, <3>1, <3>2, <3>3, <3>4 DEF SoloInv
        <3>6. TodoInv(c) /\ HomeInv(c)
            BY <1>3, <1>4, <1>5, <1>6, <1>8, <3>5, SoloFits
        <3> QED BY <1>1, <1>5, <2>3, <3>6, FitsAfter
    <2> QED BY <1>1, <2>1, <2>2, <2>3
<1> QED BY <1>1, <1>7, <1>8, Phase

\* resolveSoloAIGatewayToken: the key is that of the home, or none.
LEMMA LoadKeyFits ==
    ASSUME Assumptions, RoutesInv, NEW p \in Procs, LoadKey(p)
    PROVE  RoutesInv'
<1> DEFINE b == proc[p]
           t == Profile(b.state)
           c == [Advanced(b) EXCEPT !.key = t]
<1>1. /\ b \in ProcType /\ TodoInv(b) /\ HomeInv(b) /\ b.todo # <<>> /\ Head(b.todo) = "key"
      /\ Becomes(p, c)
      /\ link' = link /\ profiles' \subseteq Urls /\ current' \in Some
    BY ProcFacts DEF LoadKey, At, files
<1>2. t \in Some /\ (b.state \in Urls => t \in {None, b.state})
    BY <1>1, ProfileFacts DEF ProcType, RoutesInv
<1>3. b.cmd = "solo" /\ b.todo \notin Preamble
    BY <1>1, Phase
<1>4. /\ b.dir \in Dirs /\ SoloInv(b) /\ (~b.moved => link[b.dir] = b.home)
      /\ b.todo \in Seq(SoloSteps) /\ Tail(b.todo) \in Seq(SoloSteps)
    BY <1>1, <1>3, SoloStep DEF Preamble
<1> HIDE DEF b, t
<1>5. c \in ProcType
    BY <1>1, <1>2, TailFacts DEF ProcType, Advanced
<1>6. /\ c.cmd = b.cmd /\ c.dir = b.dir /\ c.url = b.url /\ c.todo = Tail(b.todo)
      /\ c.state = b.state /\ c.target = b.target /\ c.key = t /\ c.home = b.home
      /\ c.moved = b.moved /\ c.sent = b.sent /\ c.said = b.said /\ c.wrote = b.wrote
    BY <1>1 DEF ProcType, Advanced
<1> HIDE DEF c
<1>7. SoloInv(c)
    <2>1. b.sent = {}
        BY <1>1, <1>4, HandlerTail DEF SoloInv, Resolves
    <2>2. ~b.moved => b.state = b.home /\ b.home \in Urls /\ b.state # None
        BY <1>1, <1>4, HandlerTail DEF SoloInv
    <2>3. ResolvesFirst(c.todo) /\ (b.target # None \/ ProfileFirst(c.todo))
        BY <1>1, <1>4, <1>6, HandlerTail DEF SoloInv
    <2>4. b.said \/ AskFirst(c.todo)
        BY <1>1, <1>4, <1>6, HandlerTail DEF SoloInv
    <2> QED BY <1>2, <1>4, <1>6, <2>1, <2>2, <2>3, <2>4 DEF SoloInv
<1>8. TodoInv(c) /\ HomeInv(c)
    BY <1>3, <1>4, <1>5, <1>6, <1>7, SoloFits
<1> QED BY <1>1, <1>5, <1>8, FitsAfter DEF c, b

\* A request goes where the profile said, and no profile is read after it.
LEMMA RequestFits ==
    ASSUME Assumptions, RoutesInv, NEW p \in Procs, Request(p)
    PROVE  RoutesInv'
<1> DEFINE b == proc[p]
           w == b.wrote \/ Head(b.todo) = "write"
           r == [url |-> b.target, key |-> b.key]
           c == [Advanced(b) EXCEPT !.sent = @ \union {r}, !.wrote = w]
<1>1. /\ b \in ProcType /\ TodoInv(b) /\ HomeInv(b) /\ b.todo # <<>> /\ Head(b.todo) \in Requests
      /\ link' = link /\ profiles' \subseteq Urls /\ current' \in Some
    BY ProcFacts DEF Request, At, files, Requests
<1>2. Becomes(p, c)
    <2>1. Advanced(b).wrote = b.wrote /\ Advanced(b).sent = b.sent
        BY <1>1 DEF ProcType, Advanced
    <2> QED BY <2>1 DEF Request
<1>3. b.cmd = "solo" /\ b.todo \notin Preamble
    BY <1>1, Phase
<1>4. /\ b.dir \in Dirs /\ SoloInv(b) /\ (~b.moved => link[b.dir] = b.home)
      /\ b.todo \in Seq(SoloSteps) /\ Tail(b.todo) \in Seq(SoloSteps)
    <2>1. "profile" \notin Requests /\ "state" \notin Requests /\ "enter" \notin Requests
        BY DEF Requests
    <2> QED BY <1>1, <1>3, <2>1, SoloStep DEF Preamble
<1> HIDE DEF b
<1>5. c \in ProcType
    <2>1. w \in BOOLEAN
        OBVIOUS
    <2>2. r \in [url : Some, key : Some]
        BY <1>1 DEF ProcType
    <2> HIDE DEF w, r
    <2> QED BY <1>1, <2>1, <2>2, TailFacts DEF ProcType, Advanced
<1>6. /\ c.cmd = b.cmd /\ c.dir = b.dir /\ c.url = b.url /\ c.todo = Tail(b.todo)
      /\ c.state = b.state /\ c.target = b.target /\ c.key = b.key /\ c.home = b.home
      /\ c.moved = b.moved /\ c.sent = b.sent \union {r} /\ c.said = b.said /\ c.wrote = w
    <2> HIDE DEF w, r
    <2> QED BY <1>1 DEF ProcType, Advanced
<1> HIDE DEF c
<1>7. SoloInv(c)
    <2>1. ResolvesFirst(c.todo) /\ NoResolve(c.todo)
        BY <1>1, <1>4, <1>6, HandlerTail DEF SoloInv
    <2>2. b.target \in Urls /\ b.target # None
        BY <1>1, <1>4, HandlerTail DEF SoloInv, ProcType, Some
    <2>3. ~b.moved => b.state # None \/ StateFirst(c.todo)
        BY <1>1, <1>4, <1>6, HandlerTail DEF SoloInv, Requests
    <2>4. ~b.moved => c.sent \subseteq [url : {b.home}, key : {b.home, None}]
        BY <1>4, <1>6, <2>2 DEF SoloInv
    <2>5. \A s \in c.sent : s.url = c.target
        BY <1>4, <1>6 DEF SoloInv
    <2>6. c.sent \subseteq [url : Urls, key : Some]
        BY <1>1, <1>4, <1>6, <2>2 DEF SoloInv, ProcType
    <2>7. (b.said \/ AskFirst(c.todo)) /\ (w => b.said)
        <3>1. b.wrote => b.said
            BY <1>4 DEF SoloInv
        <3>2. Head(b.todo) = "write" => b.said
            BY <1>1, <1>4, HandlerTail DEF SoloInv
        <3>3. b.said \/ AskFirst(c.todo)
            BY <1>1, <1>4, <1>6, HandlerTail DEF SoloInv, Requests
        <3> QED BY <3>1, <3>2, <3>3
    <2> HIDE DEF r, w
    <2> QED BY <1>4, <1>6, <2>1, <2>2, <2>3, <2>4, <2>5, <2>6, <2>7 DEF SoloInv
<1>8. TodoInv(c) /\ HomeInv(c)
    BY <1>3, <1>4, <1>5, <1>6, <1>7, SoloFits
<1> QED BY <1>1, <1>2, <1>5, <1>8, FitsAfter DEF c, b

\* The steps of each command in the tree it finds itself in.
LEMMA ProgramFacts ==
    ASSUME NEW c \in ProcType, NEW steps \in Programs(c)
    PROVE  \/ c.cmd = "link" /\ steps \in Linking
           \/ c.cmd \in {"manage", "unlink"} /\ steps \in Seq(OtherSteps)
           \/ c.cmd = "solo" /\ Handler(steps) /\ Tree(c) = "solo"
<1>1. CASE c.cmd = "link"
    BY <1>1 DEF Programs, Linking
<1>2. CASE c.cmd = "unlink"
    <2>1. <<"look">> \in Seq(OtherSteps)
        BY DEF OtherSteps
    <2> QED BY <1>2, <2>1 DEF Programs
<1>3. CASE c.cmd = "manage"
    <2>1. <<"find", "ref", "saveLink">> \in Seq(OtherSteps)
        BY DEF OtherSteps
    <2> QED BY <1>3, <2>1 DEF Programs
<1>4. CASE c.cmd = "solo"
    BY <1>4, SoloHandlersAreHandlers DEF Programs
<1>5. CASE c.cmd = "idle"
    BY <1>5 DEF Programs
<1> QED BY <1>1, <1>2, <1>3, <1>4, <1>5 DEF ProcType

\* buildRootCommand: a command of a linked branch is run in the home that was read
\* when the command began.
LEMMA EnterFits ==
    ASSUME Assumptions, RoutesInv, NEW p \in Procs, Enter(p)
    PROVE  RoutesInv'
<1> DEFINE b == proc[p]
           t == IF b.cmd = "solo" THEN b.state ELSE None
<1>1. /\ b \in ProcType /\ TodoInv(b) /\ HomeInv(b) /\ b.todo # <<>> /\ Head(b.todo) = "enter"
      /\ link' = link /\ profiles' \subseteq Urls /\ current' \in Some
    BY ProcFacts DEF Enter, At, files
<1>2. b.dir \in Dirs /\ b.todo = <<"enter">> /\ b.sent = {} /\ ~b.wrote
    BY <1>1, Phase
<1>3. CASE Ends(p)
    BY <1>1, <1>3, EndsFits
<1>4. ASSUME NEW steps \in Programs(b),
             Becomes(p, [b EXCEPT !.todo = steps, !.home = t,
                                  !.state = None, !.target = None, !.key = None])
      PROVE  RoutesInv'
    <2> DEFINE c == [b EXCEPT !.todo = steps, !.home = t,
                              !.state = None, !.target = None, !.key = None]
    <2>1. \/ b.cmd = "link" /\ steps \in Linking
          \/ b.cmd \in {"manage", "unlink"} /\ steps \in Seq(OtherSteps)
          \/ b.cmd = "solo" /\ Handler(steps) /\ Tree(b) = "solo"
        BY <1>1, <1>4, ProgramFacts
    <2>2. steps \in Seq(Steps)
        <3>1. Linking \subseteq Seq(Steps)
            BY DEF Linking, Steps, OtherSteps
        <3>2. Seq(OtherSteps) \subseteq Seq(Steps) /\ Seq(SoloSteps) \subseteq Seq(Steps)
            BY DEF Steps
        <3> QED BY <2>1, <3>1, <3>2 DEF Handler
    <2> HIDE DEF b
    <2>3. c \in ProcType
        <3>1. t \in Links
            BY <1>1 DEF ProcType, Links
        <3>2. None \in Links /\ None \in Some
            BY DEF Links, Some
        <3> HIDE DEF t
        <3> QED BY <1>1, <2>2, <3>1, <3>2 DEF ProcType
    <2>4. /\ c.cmd = b.cmd /\ c.dir = b.dir /\ c.url = b.url /\ c.todo = steps
          /\ c.state = None /\ c.target = None /\ c.key = None /\ c.home = t
          /\ c.moved = b.moved /\ c.sent = b.sent /\ c.said = b.said /\ c.wrote = b.wrote
        BY <1>1 DEF ProcType
    <2> HIDE DEF c
    <2>5. CASE b.cmd # "solo"
        <3>1. Plain(c)
            BY <1>1, <1>2, <2>1, <2>4, <2>5 DEF Plain, TodoInv
        <3> QED BY <1>1, <1>4, <2>3, <3>1, PlainStepFits DEF c, b
    <2>6. CASE b.cmd = "solo"
        <3>1. t \in Urls
            <4>1. b.state \notin {None, "management"} /\ b.target # None
                BY <2>1, <2>6 DEF Tree
            <4>2. b.state # "cut"
                BY <1>1, <1>2, <4>1 DEF TodoInv
            <4> QED BY <1>1, <2>6, <4>1, <4>2 DEF ProcType, Links
        <3>2. SoloInv(c)
            BY <1>2, <2>1, <2>4, <2>6, <3>1 DEF SoloInv, Handler
        <3>3. ~c.moved => link[c.dir] = c.home
            BY <1>1, <1>2, <2>4, <2>6 DEF HomeInv
        <3>4. TodoInv(c) /\ HomeInv(c)
            BY <1>2, <2>3, <2>4, <2>6, <3>2, <3>3, SoloFits
        <3> QED BY <1>1, <1>4, <2>3, <3>4, FitsAfter DEF c, b
    <2> QED BY <2>5, <2>6
<1> QED BY <1>3, <1>4 DEF Enter

-----------------------------------------------------------------------------
(* The theorem *)

\* The invariant holds before any command begins.
LEMMA RoutesInvInit ==
    ASSUME Init
    PROVE  RoutesInv
<1>1. TypeInv
    BY IdleFits DEF Init, TypeInv, Links, Some
<1>2. \A p \in Procs : proc[p] = Idle
    BY DEF Init
<1> QED BY <1>1, <1>2, IdleFits DEF RoutesInv

\* Every step of every command keeps the invariant.
LEMMA RoutesInvNext ==
    ASSUME Assumptions, RoutesInv, [Next]_vars
    PROVE  RoutesInv'
<1>1. CASE Next
    <2>1. PICK p \in Procs : Begin(p) \/ Step(p) \/ End(p) \/ KilledWriting(p)
        BY <1>1 DEF Next
    <2> QED BY <2>1, BeginFits, LoadStateFits, LoadProfileFits, LoadKeyFits, EnterFits, WorkFits,
               SaveLoadFits, SaveProfileFits, SaveLinkFits, LookFits, AskFits, RequestFits,
               LocalFits, EndFits, KilledWritingFits
            DEF Step
<1>2. CASE UNCHANGED vars
    <2>1. link' = link /\ profiles' = profiles /\ current' = current /\ proc' = proc
        BY <1>2 DEF vars, files
    <2> QED BY <2>1 DEF RoutesInv, TypeInv, TodoInv, SoloInv, HomeInv
<1> QED BY <1>1, <1>2

\* The invariant says where the requests go.
LEMMA RoutesInvGoHome ==
    ASSUME RoutesInv
    PROVE  RequestsGoHome
<1> SUFFICES ASSUME NEW p \in Procs
             PROVE  /\ ~proc[p].moved =>
                          proc[p].sent \subseteq [url : {proc[p].home}, key : {proc[p].home, None}]
                    /\ \A r, s \in proc[p].sent : r.url = s.url
    BY DEF RequestsGoHome
<1>1. TodoInv(proc[p])
    BY ProcFacts
<1> QED BY <1>1 DEF TodoInv, SoloInv

\* Every request of a command goes to the branch its directory was linked to
\* when it began, and carries the key of that branch or none, for any number of
\* directories, branches and commands at once.
THEOREM RequestsGoHomeAlways ==
    ASSUME Assumptions
    PROVE  Spec => []RequestsGoHome
<1>1. Init => RoutesInv
    BY RoutesInvInit
<1>2. RoutesInv /\ [Next]_vars => RoutesInv'
    BY RoutesInvNext
<1>3. RoutesInv => RequestsGoHome
    BY RoutesInvGoHome
<1> QED BY <1>1, <1>2, <1>3, PTL DEF Spec

-----------------------------------------------------------------------------
(* A linked directory finds its keys *)

\* Before any two commands have run together, at most one runs.
Solitary ==
    ~together => \A p, q \in Procs : proc[p].cmd # "idle" /\ proc[q].cmd # "idle" => p = q

\* link saves the profile it has added to all that there were, then the link.
LinkInv(c) ==
    c.cmd = "link" =>
        /\ c.todo = <<"save", "saveLink">> => profiles \subseteq c.edit
        /\ c.todo = <<"saveLink">> => c.url \in profiles

LinksHaveProfiles == \A d \in Dirs : link[d] \in Urls => link[d] \in profiles

KeepInv ==
    /\ RoutesInv /\ Solitary
    /\ ~together /\ ~emptied => LinksHaveProfiles /\ \A p \in Procs : LinkInv(proc[p])

\* The steps of link, in their order.
LEMMA LinkingTodo ==
    ASSUME NEW c \in ProcType, TodoInv(c), c.todo # <<>>, c.cmd = "link"
    PROVE  /\ Head(c.todo) = "state" => Tail(c.todo) = <<"profile", "enter">>
           /\ Head(c.todo) = "profile" => Tail(c.todo) = <<"enter">>
           /\ Head(c.todo) = "probe" => Tail(c.todo) = <<"check", "load", "save", "saveLink">>
           /\ Head(c.todo) = "check" => Tail(c.todo) = <<"load", "save", "saveLink">>
           /\ Head(c.todo) = "load" => Tail(c.todo) = <<"save", "saveLink">>
           /\ Head(c.todo) = "save" => c.todo = <<"save", "saveLink">> /\ Tail(c.todo) = <<"saveLink">>
           /\ Head(c.todo) = "saveLink" => c.todo = <<"saveLink">> /\ Tail(c.todo) = <<>>
<1>1. c.todo \in Preamble \union Linking
    BY DEF TodoInv
<1>2. CASE c.todo = <<"state", "profile", "enter">>
    BY <1>2
<1>3. CASE c.todo = <<"profile", "enter">>
    BY <1>3
<1>4. CASE c.todo = <<"enter">>
    BY <1>4
<1>5. CASE c.todo = <<"probe", "check", "load", "save", "saveLink">>
    BY <1>5
<1>6. CASE c.todo = <<"check", "load", "save", "saveLink">>
    BY <1>6
<1>7. CASE c.todo = <<"load", "save", "saveLink">>
    BY <1>7
<1>8. CASE c.todo = <<"save", "saveLink">>
    BY <1>8
<1>9. CASE c.todo = <<"saveLink">>
    BY <1>9
<1> QED BY <1>1, <1>2, <1>3, <1>4, <1>5, <1>6, <1>7, <1>8, <1>9 DEF Preamble, Linking

\* While one command runs, only its own step matters.
LEMMA AloneStep ==
    ASSUME RoutesInv, Solitary, NEW p \in Procs, proc[p].cmd # "idle", together' = together,
           \A q \in Procs : q # p => proc'[q].cmd = proc[q].cmd
    PROVE  /\ Solitary'
           /\ ~together => \A q \in Procs : q # p => proc'[q].cmd = "idle"
BY DEF Solitary

\* A step of a command that changes neither a link nor a profile.
LEMMA QuietKeeps ==
    ASSUME KeepInv, NEW p \in Procs, proc[p].cmd # "idle", NEW c, Becomes(p, c),
           UNCHANGED <<link, profiles, emptied, together>>, LinkInv(c), RoutesInv'
    PROVE  KeepInv'
<1>1. proc'[p] = c /\ \A q \in Procs : q # p => proc'[q] = proc[q]
    BY DEF KeepInv, RoutesInv, TypeInv, Becomes
<1>2. Solitary'
    BY <1>1, AloneStep DEF KeepInv
<1>3. ASSUME ~together, ~emptied
      PROVE  LinksHaveProfiles' /\ \A q \in Procs : LinkInv(proc[q])'
    <2>1. LinksHaveProfiles'
        BY <1>3 DEF KeepInv, LinksHaveProfiles
    <2>2. ASSUME NEW q \in Procs
          PROVE  LinkInv(proc[q])'
        BY <1>1, <1>3 DEF KeepInv, LinkInv
    <2> QED BY <2>1, <2>2
<1> QED BY <1>2, <1>3 DEF KeepInv

\* The end of a command that has changed nothing by it.
LEMMA IdleKeeps ==
    ASSUME KeepInv, NEW p \in Procs, proc[p].cmd # "idle", Ends(p),
           UNCHANGED <<link, profiles, emptied, together>>, RoutesInv'
    PROVE  KeepInv'
<1>1. LinkInv(Idle)
    BY DEF LinkInv, Idle
<1> QED BY <1>1, QuietKeeps DEF Ends

\* The steps of link before it saves, and the steps of all other commands.
LEMMA EarlyKeeps ==
    ASSUME KeepInv, RoutesInv', NEW p \in Procs, NEW c, Becomes(p, c), proc[p].cmd # "idle",
           UNCHANGED <<link, profiles, emptied, together>>,
           c.cmd = "link" => c.todo \notin {<<"save", "saveLink">>, <<"saveLink">>}
    PROVE  KeepInv'
BY QuietKeeps DEF LinkInv

\* The resolve of every command, and the checks of link before it saves.
LEMMA ReadingKeeps ==
    ASSUME KeepInv, RoutesInv', NEW p \in Procs,
           LoadState(p) \/ LoadProfile(p) \/ LoadKey(p) \/ Probe(p) \/ Find(p) \/ CheckLink(p)
    PROVE  KeepInv'
<1> DEFINE b == proc[p]
<1>1. /\ b \in ProcType /\ TodoInv(b) /\ b.todo # <<>> /\ b.cmd # "idle"
      /\ Head(b.todo) \in {"state", "profile", "key", "probe", "find", "check"}
      /\ UNCHANGED <<link, profiles, emptied, together>>
    BY ProcFacts, Phase
       DEF KeepInv, LoadState, LoadProfile, LoadKey, Probe, Find, CheckLink, At, files
<1>2. \/ Ends(p)
      \/ \E c : Becomes(p, c) /\ c.cmd = b.cmd /\ c.todo = Tail(b.todo)
    <2>1. /\ Advanced(b).cmd = b.cmd /\ Advanced(b).todo = Tail(b.todo)
          /\ \A s : /\ [Advanced(b) EXCEPT !.state = s].cmd = b.cmd
                    /\ [Advanced(b) EXCEPT !.state = s].todo = Tail(b.todo)
                    /\ [Advanced(b) EXCEPT !.key = s].cmd = b.cmd
                    /\ [Advanced(b) EXCEPT !.key = s].todo = Tail(b.todo)
                    /\ [Advanced(b) EXCEPT !.target = s, !.key = s].cmd = b.cmd
                    /\ [Advanced(b) EXCEPT !.target = s, !.key = s].todo = Tail(b.todo)
        <3> HIDE DEF b
        <3> QED BY <1>1 DEF ProcType, Advanced
    <2>2. CASE LoadState(p)
        BY <2>1, <2>2 DEF LoadState
    <2>3. CASE LoadProfile(p)
        BY <2>1, <2>3 DEF LoadProfile
    <2>4. CASE LoadKey(p)
        BY <2>1, <2>4 DEF LoadKey
    <2>5. CASE Probe(p) \/ Find(p) \/ CheckLink(p)
        BY <2>1, <2>5 DEF Probe, Find, CheckLink
    <2> QED BY <2>2, <2>3, <2>4, <2>5
<1>3. b.cmd = "link" => Tail(b.todo) \notin {<<"save", "saveLink">>, <<"saveLink">>}
    <2>1. b.cmd = "link" => Head(b.todo) \in {"state", "profile", "probe", "check"}
        BY <1>1, Phase
    <2> HIDE DEF b
    <2>2. b.cmd = "link" =>
             Tail(b.todo) \in {<<"profile", "enter">>, <<"enter">>, <<"load", "save", "saveLink">>,
                               <<"check", "load", "save", "saveLink">>}
        BY <1>1, <2>1, LinkingTodo
    <2> QED BY <2>2
<1>4. CASE Ends(p)
    BY <1>1, <1>4, IdleKeeps
<1>5. CASE \E c : Becomes(p, c) /\ c.cmd = b.cmd /\ c.todo = Tail(b.todo)
    BY <1>1, <1>3, <1>5, EarlyKeeps
<1> QED BY <1>2, <1>4, <1>5

\* A command enters its tree.
LEMMA EnterKeeps ==
    ASSUME KeepInv, RoutesInv', NEW p \in Procs, Enter(p)
    PROVE  KeepInv'
<1>1. /\ proc[p] \in ProcType /\ proc[p].cmd # "idle"
      /\ UNCHANGED <<link, profiles, emptied, together>>
    BY ProcFacts, Phase DEF KeepInv, Enter, At, files
<1>2. CASE Ends(p)
    BY <1>1, <1>2, IdleKeeps
<1>3. ASSUME NEW steps \in Programs(proc[p]), NEW t,
             Becomes(p, [proc[p] EXCEPT !.todo = steps, !.home = t,
                                        !.state = None, !.target = None, !.key = None])
      PROVE  KeepInv'
    <2> DEFINE c == [proc[p] EXCEPT !.todo = steps, !.home = t,
                                    !.state = None, !.target = None, !.key = None]
    <2>1. c.cmd = proc[p].cmd /\ c.todo = steps
        BY <1>1 DEF ProcType
    <2>2. proc[p].cmd = "link" => steps = <<"probe", "check", "load", "save", "saveLink">>
        BY DEF Programs
    <2>3. c.cmd = "link" => c.todo \notin {<<"save", "saveLink">>, <<"saveLink">>}
        BY <2>1, <2>2
    <2> HIDE DEF c
    <2> QED BY <1>1, <1>3, <2>3, EarlyKeeps DEF c
<1> QED BY <1>2, <1>3 DEF Enter

\* Steps that link does not take.
LEMMA OthersKeep ==
    ASSUME KeepInv, RoutesInv', NEW p \in Procs,
           Look(p) \/ Ask(p) \/ Request(p) \/ Local(p) \/ WriteRef(p)
    PROVE  KeepInv'
<1>1. proc[p] \in ProcType /\ proc[p].cmd \notin {"idle", "link"}
    <2>1. /\ proc[p].todo # <<>>
          /\ Head(proc[p].todo) \in {"look", "ask", "local", "ref"} \union Requests
        BY DEF Look, Ask, Request, Local, WriteRef, At, Requests
    <2>2. proc[p] \in ProcType /\ TodoInv(proc[p])
        BY ProcFacts DEF KeepInv
    <2> QED BY <2>1, <2>2, Phase
<1>2. UNCHANGED <<link, profiles, emptied, together>>
    BY DEF Look, Ask, Request, Local, WriteRef, files
<1>3. Ends(p) \/ \E c : Becomes(p, c) /\ c.cmd = proc[p].cmd
    <2> DEFINE b == proc[p]
    <2>1. CASE Look(p)
        <3>1. \A s : [b EXCEPT !.todo = s].cmd = b.cmd
            BY <1>1 DEF ProcType
        <3> QED BY <2>1, <3>1 DEF Look
    <2>2. CASE Ask(p)
        <3>1. [Advanced(b) EXCEPT !.said = TRUE].cmd = b.cmd
            BY <1>1 DEF ProcType, Advanced
        <3> QED BY <2>2, <3>1 DEF Ask
    <2>3. CASE Request(p)
        <3>1. \A s, w : [Advanced(b) EXCEPT !.sent = s, !.wrote = w].cmd = b.cmd
            BY <1>1 DEF ProcType, Advanced
        <3>2. PICK s, w : Becomes(p, [Advanced(b) EXCEPT !.sent = s, !.wrote = w])
            BY <2>3 DEF Request
        <3> QED BY <3>1, <3>2
    <2>4. CASE Local(p) \/ WriteRef(p)
        <3>1. Advanced(b).cmd = b.cmd
            BY <1>1 DEF ProcType, Advanced
        <3> QED BY <2>4, <3>1 DEF Local, WriteRef
    <2> QED BY <2>1, <2>2, <2>3, <2>4
<1> QED BY <1>1, <1>2, <1>3, IdleKeeps, EarlyKeeps

\* link has read all the profiles there are.
LEMMA SaveLoadKeeps ==
    ASSUME KeepInv, RoutesInv', NEW p \in Procs, SaveLoad(p)
    PROVE  KeepInv'
<1> DEFINE c == [Advanced(proc[p]) EXCEPT !.edit = profiles]
<1>1. /\ proc[p] \in ProcType /\ TodoInv(proc[p]) /\ proc[p].todo # <<>> /\ Head(proc[p].todo) = "load"
      /\ UNCHANGED <<link, profiles, emptied, together>> /\ Becomes(p, c)
    BY ProcFacts DEF KeepInv, SaveLoad, At, files
<1>2. proc[p].cmd = "link"
    BY <1>1, Phase
<1>3. Tail(proc[p].todo) = <<"save", "saveLink">>
    BY <1>1, <1>2, LinkingTodo
<1>4. c.edit = profiles /\ c.todo = <<"save", "saveLink">>
    BY <1>1, <1>3 DEF ProcType, Advanced
<1> HIDE DEF c
<1>5. LinkInv(c)
    BY <1>4 DEF LinkInv
<1> QED BY <1>1, <1>2, <1>5, QuietKeeps DEF c

\* link adds its profile to those it has read: none is lost.
LEMMA SaveProfileKeeps ==
    ASSUME KeepInv, RoutesInv', NEW p \in Procs, SaveProfile(p)
    PROVE  KeepInv'
<1> DEFINE b == proc[p]
           c == Advanced(b)
<1>1. /\ b \in ProcType /\ TodoInv(b) /\ b.todo # <<>> /\ Head(b.todo) = "save"
      /\ UNCHANGED <<link, emptied, together>> /\ Becomes(p, c)
      /\ profiles' = b.edit \union {b.url}
    BY ProcFacts DEF KeepInv, SaveProfile, At
<1>2. b.cmd = "link"
    BY <1>1, Phase
<1>3. b.todo = <<"save", "saveLink">> /\ Tail(b.todo) = <<"saveLink">>
    BY <1>1, <1>2, LinkingTodo
<1>4. c.todo = <<"saveLink">> /\ c.url = b.url
    BY <1>1, <1>3 DEF ProcType, Advanced
<1>5. proc'[p] = c /\ \A q \in Procs : q # p => proc'[q] = proc[q]
    BY <1>1 DEF KeepInv, RoutesInv, TypeInv, Becomes
<1> HIDE DEF c
<1>6. Solitary' /\ (~together => \A q \in Procs : q # p => proc'[q].cmd = "idle")
    BY <1>1, <1>2, <1>5, AloneStep DEF KeepInv
<1>7. ASSUME ~together, ~emptied
      PROVE  LinksHaveProfiles' /\ \A q \in Procs : LinkInv(proc[q])'
    <2>1. profiles \subseteq profiles'
        BY <1>1, <1>2, <1>3, <1>7 DEF KeepInv, LinkInv
    <2>2. LinksHaveProfiles'
        BY <1>1, <1>7, <2>1 DEF KeepInv, LinksHaveProfiles
    <2>3. ASSUME NEW q \in Procs
          PROVE  LinkInv(proc[q])'
        <3>1. CASE q = p
            BY <1>1, <1>4, <1>5, <3>1 DEF LinkInv
        <3>2. CASE q # p
            BY <1>6, <1>7, <3>2 DEF LinkInv
        <3> QED BY <3>1, <3>2
    <2> QED BY <2>2, <2>3
<1> QED BY <1>1, <1>6, <1>7 DEF KeepInv

\* A step that writes link.json: a link has its profile already.
LEMMA ChangeKeeps ==
    ASSUME KeepInv, RoutesInv', NEW p \in Procs, NEW value, NEW c, Relinks(p, value, c),
           proc[p].cmd # "idle", proc[p].dir \in Dirs,
           UNCHANGED <<profiles, emptied, together>>,
           c.todo = <<>> \/ c.cmd # "link",
           ~together /\ ~emptied /\ value \in Urls => value \in profiles
    PROVE  KeepInv'
<1>1. /\ proc'[p] = c
      /\ \A q \in Procs : q # p => proc'[q].cmd = proc[q].cmd
    <2>1. \A q \in Procs : proc[q] \in ProcType
        BY DEF KeepInv, RoutesInv, TypeInv
    <2>2. \A q \in Procs : [proc[q] EXCEPT !.moved = TRUE].cmd = proc[q].cmd
        BY <2>1 DEF ProcType
    <2> QED BY <2>2 DEF Relinks
<1>2. link' = [link EXCEPT ![proc[p].dir] = value] /\ DOMAIN link = Dirs
    BY DEF Relinks, KeepInv, RoutesInv, TypeInv
<1>3. Solitary' /\ (~together => \A q \in Procs : q # p => proc'[q].cmd = "idle")
    BY <1>1, AloneStep DEF KeepInv
<1>4. ASSUME ~together, ~emptied
      PROVE  LinksHaveProfiles' /\ \A q \in Procs : LinkInv(proc[q])'
    <2>1. LinksHaveProfiles'
        BY <1>2, <1>4 DEF KeepInv, LinksHaveProfiles
    <2>2. ASSUME NEW q \in Procs
          PROVE  LinkInv(proc[q])'
        <3>1. CASE q = p
            BY <1>1, <3>1 DEF LinkInv
        <3>2. CASE q # p
            BY <1>3, <1>4, <3>2 DEF LinkInv
        <3> QED BY <3>1, <3>2
    <2> QED BY <2>1, <2>2
<1> QED BY <1>3, <1>4 DEF KeepInv

\* The link of a directory is written after the profile, or is no link to a branch.
LEMMA SaveLinkKeeps ==
    ASSUME Assumptions, KeepInv, RoutesInv', NEW p \in Procs,
           SaveLink(p) \/ Clear(p) \/ RemoveAll(p)
    PROVE  KeepInv'
<1> DEFINE b == proc[p]
           c == Advanced(b)
<1>1. /\ b \in ProcType /\ TodoInv(b) /\ b.todo # <<>> /\ b.cmd # "idle" /\ b.dir \in Dirs
      /\ UNCHANGED <<profiles, emptied, together>>
    BY ProcFacts, Phase DEF KeepInv, SaveLink, Clear, RemoveAll, At
<1>2. c.cmd = b.cmd /\ c.todo = Tail(b.todo)
    BY <1>1 DEF ProcType, Advanced
<1>3. None \notin Urls /\ "management" \notin Urls
    BY DEF Assumptions
<1>4. CASE SaveLink(p) /\ b.cmd = "link"
    <2>1. b.todo = <<"saveLink">> /\ Tail(b.todo) = <<>>
        BY <1>1, <1>4, LinkingTodo DEF SaveLink, At
    <2>2. Relinks(p, b.url, c)
        BY <1>4 DEF SaveLink
    <2>3. ~together /\ ~emptied => b.url \in profiles
        BY <1>4, <2>1 DEF KeepInv, LinkInv
    <2> HIDE DEF c
    <2> QED BY <1>1, <1>2, <2>1, <2>2, <2>3, ChangeKeeps
<1>5. CASE SaveLink(p) /\ b.cmd # "link"
    <2>1. Relinks(p, "management", c)
        BY <1>5 DEF SaveLink
    <2> HIDE DEF c
    <2> QED BY <1>1, <1>2, <1>3, <1>5, <2>1, ChangeKeeps
<1>6. CASE Clear(p) \/ RemoveAll(p)
    <2>1. Relinks(p, None, c)
        BY <1>6 DEF Clear, RemoveAll
    <2>2. b.cmd # "link"
        BY <1>1, <1>6, Phase DEF Clear, RemoveAll, At
    <2> HIDE DEF c
    <2> QED BY <1>1, <1>2, <1>3, <2>1, <2>2, ChangeKeeps
<1> QED BY <1>4, <1>5, <1>6

\* A kill while config.json is cut, which empties the profiles, or while link.json
\* is cut.
LEMMA KilledWritingKeeps ==
    ASSUME Assumptions, KeepInv, RoutesInv', NEW p \in Procs, KilledWriting(p)
    PROVE  KeepInv'
<1>1. proc[p].cmd # "idle" /\ proc[p].dir \in Dirs /\ together' = together
    BY ProcFacts, Phase DEF KeepInv, KilledWriting, At
<1>2. CASE Ends(p) /\ emptied' = TRUE
    <2>1. \A q \in Procs : q # p => proc'[q] = proc[q]
        BY <1>2 DEF KeepInv, RoutesInv, TypeInv, Becomes, Ends
    <2>2. Solitary'
        BY <1>1, <2>1, AloneStep DEF KeepInv
    <2> QED BY <1>2, <2>2 DEF KeepInv
<1>3. CASE Relinks(p, "cut", Idle) /\ UNCHANGED <<profiles, emptied, together>>
    <2>1. Idle.cmd # "link" /\ "cut" \notin Urls
        BY DEF Idle, Assumptions
    <2> QED BY <1>1, <1>3, <2>1, ChangeKeeps
<1> QED BY <1>2, <1>3 DEF KilledWriting

\* A command begins: alone, or together with another from now on.
LEMMA BeginKeeps ==
    ASSUME KeepInv, RoutesInv', NEW p \in Procs, Begin(p)
    PROVE  KeepInv'
<1>1. PICK c : Becomes(p, c) /\ c.todo = <<"state", "profile", "enter">>
    <2>1. PICK cmd, d, u, yes :
             Becomes(p, [Idle EXCEPT !.cmd = cmd, !.dir = d, !.url = u, !.yes = yes,
                                     !.todo = <<"state", "profile", "enter">>])
        BY DEF Begin
    <2>2. [Idle EXCEPT !.cmd = cmd, !.dir = d, !.url = u, !.yes = yes,
                       !.todo = <<"state", "profile", "enter">>].todo
             = <<"state", "profile", "enter">>
        BY DEF Idle
    <2> QED BY <2>1, <2>2
<1>2. /\ UNCHANGED <<link, profiles, emptied>> /\ (together => together')
      /\ ~together' => \A q \in Procs : proc[q].cmd = "idle"
    BY DEF Begin, files
<1>3. proc'[p] = c /\ \A q \in Procs : q # p => proc'[q] = proc[q]
    BY <1>1 DEF KeepInv, RoutesInv, TypeInv, Becomes
<1>4. Solitary'
    BY <1>2, <1>3 DEF Solitary
<1>5. ASSUME ~together', ~emptied'
      PROVE  LinksHaveProfiles' /\ \A q \in Procs : LinkInv(proc[q])'
    <2>1. LinksHaveProfiles'
        BY <1>2, <1>5 DEF KeepInv, LinksHaveProfiles
    <2>2. ASSUME NEW q \in Procs
          PROVE  LinkInv(proc[q])'
        <3>1. CASE q = p
            <4>1. c.todo # <<"save", "saveLink">> /\ c.todo # <<"saveLink">>
                BY <1>1
            <4> QED BY <1>3, <3>1, <4>1 DEF LinkInv
        <3>2. CASE q # p
            BY <1>2, <1>3, <1>5, <3>2 DEF LinkInv
        <3> QED BY <3>1, <3>2
    <2> QED BY <2>1, <2>2
<1> QED BY <1>4, <1>5 DEF KeepInv

\* A command ends or is killed between its steps.
LEMMA EndKeeps ==
    ASSUME KeepInv, RoutesInv', NEW p \in Procs, End(p)
    PROVE  KeepInv'
BY IdleKeeps DEF End, files

\* The invariant holds before any command begins.
LEMMA KeepInvInit ==
    ASSUME Init
    PROVE  KeepInv
<1>1. \A p \in Procs : proc[p] = Idle /\ Idle.cmd = "idle"
    BY DEF Init, Idle
<1> QED BY <1>1, RoutesInvInit DEF Init, KeepInv, Solitary, LinksHaveProfiles, LinkInv

\* Every step of every command keeps the invariant.
LEMMA KeepInvNext ==
    ASSUME Assumptions, KeepInv, [Next]_vars
    PROVE  KeepInv'
<1>1. RoutesInv'
    BY RoutesInvNext DEF KeepInv
<1>2. CASE Next
    <2>1. PICK p \in Procs : Begin(p) \/ Step(p) \/ End(p) \/ KilledWriting(p)
        BY <1>2 DEF Next
    <2> QED BY <1>1, <2>1, BeginKeeps, ReadingKeeps, EnterKeeps, OthersKeep, SaveLoadKeeps,
               SaveProfileKeeps, SaveLinkKeeps, EndKeeps, KilledWritingKeeps
            DEF Step
<1>3. CASE UNCHANGED vars
    <2>1. UNCHANGED <<link, profiles, emptied, together, proc>>
        BY <1>3 DEF vars, files
    <2> QED BY <1>1, <2>1 DEF KeepInv, Solitary, LinksHaveProfiles, LinkInv
<1> QED BY <1>2, <1>3

\* However many directories are linked and unlinked, one command after the
\* other, and whichever of them fail or are killed while no file of profiles is
\* being written, each linked directory has the keys of its branch.
THEOREM LinkKeepsProfileAlways ==
    ASSUME Assumptions
    PROVE  Spec => []LinkKeepsProfile
<1>1. Init => KeepInv
    BY KeepInvInit
<1>2. KeepInv /\ [Next]_vars => KeepInv'
    BY KeepInvNext
<1>3. KeepInv => LinkKeepsProfile
    BY DEF KeepInv, LinksHaveProfiles, LinkKeepsProfile
<1> QED BY <1>1, <1>2, <1>3, PTL DEF Spec

-----------------------------------------------------------------------------
(* The prompt, and the types *)

\* A command of a linked branch writes only after a yes, or with --yes: whatever
\* the directory is linked to meanwhile, the handlers keep the prompt before the
\* write.
THEOREM AskedFirstAlways ==
    ASSUME Assumptions
    PROVE  Spec => []AskedFirst
<1>1. RoutesInv => AskedFirst
    <2> SUFFICES ASSUME RoutesInv, NEW p \in Procs
                 PROVE  proc[p].wrote => proc[p].said
        BY DEF AskedFirst
    <2>1. TodoInv(proc[p])
        BY ProcFacts
    <2> QED BY <2>1 DEF TodoInv, SoloInv
<1>2. Init => RoutesInv
    BY RoutesInvInit
<1>3. RoutesInv /\ [Next]_vars => RoutesInv'
    BY RoutesInvNext
<1> QED BY <1>1, <1>2, <1>3, PTL DEF Spec

\* What the commands share beside link.json and the profiles.
SharedType ==
    /\ ref \subseteq Dirs /\ emptied \in BOOLEAN
    /\ turns \in 0..Turns /\ together \in BOOLEAN

LinkInvariant == KeepInv /\ SharedType

\* project-ref is written in directories, and every command takes one turn.
LEMMA SharedTypeNext ==
    ASSUME Assumptions, LinkInvariant, [Next]_vars
    PROVE  SharedType'
<1>1. CASE Next
    <2>1. PICK p \in Procs : Begin(p) \/ Step(p) \/ End(p) \/ KilledWriting(p)
        BY <1>1 DEF Next
    <2>2. CASE Begin(p)
        <3>1. turns > 0 /\ turns' = turns - 1 /\ turns' \in 0..Turns
            BY <2>2 DEF Begin, LinkInvariant, SharedType, Assumptions
        <3>2. UNCHANGED <<ref, emptied>> /\ together' \in BOOLEAN
            BY <2>2 DEF Begin, LinkInvariant, SharedType, files
        <3> QED BY <3>1, <3>2 DEF LinkInvariant, SharedType
    <2>3. CASE WriteRef(p)
        <3>1. proc[p].dir \in Dirs
            BY <2>3, ProcFacts, Phase DEF WriteRef, At, LinkInvariant, KeepInv
        <3> QED BY <2>3, <3>1 DEF WriteRef, LinkInvariant, SharedType
    <2>4. CASE KilledWriting(p)
        BY <2>4 DEF KilledWriting, LinkInvariant, SharedType
    <2>5. CASE (Step(p) /\ ~WriteRef(p)) \/ End(p)
        <3>1. UNCHANGED <<emptied, turns, together>> /\ ref' \subseteq ref
            BY <2>5 DEF Step, End, LoadState, LoadProfile, LoadKey, Enter, Probe, Find, CheckLink,
                        SaveLoad, SaveProfile, SaveLink, Look, Clear, RemoveAll, Ask, Request,
                        Local, files
        <3> QED BY <3>1 DEF LinkInvariant, SharedType
    <2> QED BY <2>1, <2>2, <2>3, <2>4, <2>5
<1>2. CASE UNCHANGED vars
    BY <1>2 DEF vars, files, LinkInvariant, SharedType
<1> QED BY <1>1, <1>2

\* The invariant of everything about links.
LEMMA LinkInvariantInit ==
    ASSUME Assumptions, Init
    PROVE  LinkInvariant
<1>1. KeepInv
    BY KeepInvInit
<1>2. SharedType
    <2>1. Turns \in Nat /\ Turns \in 0..Turns
        BY DEF Assumptions
    <2>2. ref \in SUBSET Dirs /\ emptied = FALSE /\ turns = Turns /\ together = FALSE
        BY DEF Init
    <2> QED BY <2>1, <2>2 DEF SharedType
<1> QED BY <1>1, <1>2 DEF LinkInvariant

\* Every step keeps it.
LEMMA LinkInvariantNext ==
    ASSUME Assumptions, LinkInvariant, [Next]_vars
    PROVE  LinkInvariant'
BY KeepInvNext, SharedTypeNext DEF LinkInvariant

\* It has the types, and that unlinking was asked for first.
LEMMA LinkInvariantSays ==
    ASSUME LinkInvariant
    PROVE  TypeOK /\ AskedFirst
<1>1. ASSUME NEW p \in Procs
      PROVE  /\ proc[p].state \in Links /\ proc[p].home \in Links
             /\ proc[p].target \in Urls \union {None} /\ proc[p].key \in Urls \union {None}
             /\ proc[p].edit \subseteq Urls
             /\ proc[p].sent \subseteq [url : Urls, key : Urls \union {None}]
             /\ proc[p].wrote => proc[p].said
    <2>1. proc[p] \in ProcType /\ TodoInv(proc[p])
        BY ProcFacts DEF LinkInvariant, KeepInv
    <2>2. proc[p].sent \subseteq [url : Urls, key : Some] /\ (proc[p].wrote => proc[p].said)
        BY <2>1 DEF TodoInv, SoloInv
    <2> QED BY <2>1, <2>2 DEF ProcType, Some
<1> QED BY <1>1 DEF LinkInvariant, KeepInv, RoutesInv, TypeInv, SharedType, TypeOK, AskedFirst, Some

\* Every file and every process keeps its type.
THEOREM TypeOKAlways ==
    ASSUME Assumptions
    PROVE  Spec => []TypeOK
<1>1. Init => LinkInvariant
    BY LinkInvariantInit
<1>2. LinkInvariant /\ [Next]_vars => LinkInvariant'
    BY LinkInvariantNext
<1>3. LinkInvariant => TypeOK
    BY LinkInvariantSays
<1> QED BY <1>1, <1>2, <1>3, PTL DEF Spec

-----------------------------------------------------------------------------
(* The management handlers: the inductive invariant *)

Length == Len(plan.steps)
StepOf(j) == plan.steps[j]
Rest(k) == SubSeq(plan.steps, k + 1, Length)
Past(k) == {StepOf(j) : j \in 1..k}
Locating == {"target", "scope"}

\* k steps are behind; after "unlink" the link may have to be cleared.
Left(k) ==
    \/ todo = Rest(k)
    \/ k > 0 /\ StepOf(k) = "unlink" /\ todo = <<"clear">> \o Rest(k)

\* A step that finds the workspace has found one.
Located(k) == Past(k) \intersect Locating # {} => ws # None

\* What the user said yes to is what the handler works on.
Asked(k) ==
    "ask" \in Past(k) =>
        confirmed # None /\ confirmed.ws = ws /\ confirmed.branch \in {None, branch}

\* What was written are steps behind, and the one that is sent again.
Logged(k) == \A i \in DOMAIN log : \E j \in 1..(k + 1) : j <= Length /\ log[i].op = StepOf(j)

\* Every write behind was carried out,
Carried(k) == \A j \in 1..k : StepOf(j) \notin Handling!Kinds => \E i \in DOMAIN log : log[i].op = StepOf(j)

\* and without retries by one request, in the order of the steps.
InOrder(at) ==
    /\ \A i, j \in DOMAIN log : i < j => at[i] < at[j]
    /\ \A i \in DOMAIN log : log[i].op = StepOf(at[i])
Once(k) ==
    ~plan.retries =>
        \E at \in [DOMAIN log -> 1..k] :
            /\ InOrder(at)
            /\ \A j \in 1..k : StepOf(j) \notin Handling!Kinds => \E i \in DOMAIN log : at[i] = j

\* The workspace is in none of the regions asked, unless one could not be asked.
Searched(k) ==
    \E r \in 0..Len(Regions) :
        /\ regions = SubSeq(Regions, r + 1, Len(Regions))
        /\ lastErr \/ \A i \in 1..r : ws # None /\ home[ws] # Regions[i]
        /\ r > 0 \/ lastErr => \A j \in (k + 1)..Length : StepOf(j) \notin Locating

\* A server that is scoped works on its workspace.
Scoped == plan.server = "mcp" /\ policy.ref # None => ws \in {None, policy.ref}

\* After a delete the workspace is gone, and no link to it is left that could
\* be read and removed.
Deleted(k) == "DeleteWorkspace" \in Past(k) => ws # None /\ home[ws] = None
Unlinked(k) == "unlink" \in Past(k) /\ todo = Rest(k) => linked # ws \/ kept

Coming(k) ==
    /\ Left(k) /\ Located(k) /\ Asked(k) /\ Logged(k) /\ Carried(k) /\ Once(k) /\ Searched(k)
    /\ Scoped /\ Deleted(k) /\ Unlinked(k)

Policies == [readOnly : BOOLEAN, ref : Workspaces \union {None}, enabled : BOOLEAN]
Entries == [op : STRING \ Handling!Kinds, target : Handling!Targets]
Typed ==
    /\ Handling!TypeOK
    /\ plan \in Handlers /\ policy \in Policies
    /\ args \in [ws : Workspaces \union {None}, branch : Branches \union {None}, env : BOOLEAN]
    /\ log \in Seq(Entries)
    /\ plan.branch = "given" => branch # None

HandlerInv ==
    /\ Typed
    /\ Handling!ConfirmedOnly /\ Handling!AtMostOnce /\ Handling!OutcomeIsTrue /\ Handling!PolicyHolds
    /\ outcome = "none" => Handling!allows(plan) /\ \E k \in 0..Length : Coming(k)

-----------------------------------------------------------------------------
(* The steps of a plan *)

\* A sequence that has a length is not empty.
LEMMA NotEmpty == ASSUME NEW S, NEW s \in Seq(S), Len(s) > 0 PROVE s # <<>>
OBVIOUS

\* What the steps need of a sequence.
LEMMA SeqFacts ==
    ASSUME NEW S, NEW s \in Seq(S)
    PROVE  /\ Len(s) \in Nat /\ DOMAIN s = 1..Len(s) /\ \A i \in DOMAIN s : s[i] \in S
           /\ DOMAIN s = {} => s = <<>>
OBVIOUS

\* The log is a sequence of the requests that were sent.
LEMMA LogFacts ==
    ASSUME Typed
    PROVE  /\ Len(log) \in Nat /\ DOMAIN log = 1..Len(log)
           /\ \A i \in DOMAIN log : log[i].op \notin Handling!Kinds /\ log[i].target \in Handling!Targets
           /\ DOMAIN log = {} => log = <<>>
<1>1. log \in Seq(Entries)
    BY DEF Typed
<1>2. /\ Len(log) \in Nat /\ DOMAIN log = 1..Len(log) /\ \A i \in DOMAIN log : log[i] \in Entries
      /\ DOMAIN log = {} => log = <<>>
    BY <1>1, SeqFacts
<1> QED BY <1>2 DEF Entries

\* What is left of a sequence after its first k elements.
LEMMA SuffixFacts ==
    ASSUME NEW S, NEW s \in Seq(S), NEW k \in 0..Len(s)
    PROVE  /\ SubSeq(s, k + 1, Len(s)) \in Seq(S)
           /\ Len(SubSeq(s, k + 1, Len(s))) = Len(s) - k
           /\ k < Len(s) => /\ SubSeq(s, k + 1, Len(s)) # <<>>
                            /\ Head(SubSeq(s, k + 1, Len(s))) = s[k + 1]
                            /\ Tail(SubSeq(s, k + 1, Len(s))) = SubSeq(s, (k + 1) + 1, Len(s))
           /\ k = Len(s) => SubSeq(s, k + 1, Len(s)) = <<>>
<1>1. Len(s) \in Nat /\ k \in Nat /\ \A i \in (k + 1)..Len(s) : s[i] \in S
    OBVIOUS
<1>2. /\ SubSeq(s, k + 1, Len(s)) \in Seq(S)
      /\ Len(SubSeq(s, k + 1, Len(s))) = Len(s) - k
    <2>1. /\ SubSeq(s, k + 1, Len(s)) \in Seq(S)
          /\ Len(SubSeq(s, k + 1, Len(s))) =
                IF k + 1 <= Len(s) THEN Len(s) - (k + 1) + 1 ELSE 0
        BY <1>1, SubSeqProperties
    <2> QED BY <1>1, <2>1
<1>3. ASSUME k < Len(s)
      PROVE  /\ SubSeq(s, k + 1, Len(s)) # <<>>
             /\ Head(SubSeq(s, k + 1, Len(s))) = s[k + 1]
             /\ Tail(SubSeq(s, k + 1, Len(s))) = SubSeq(s, (k + 1) + 1, Len(s))
    <2>1. k + 1 \in 1..Len(s) /\ Len(s) \in (k + 1)..Len(s)
        BY <1>1, <1>3
    <2>0. Len(SubSeq(s, k + 1, Len(s))) > 0
        BY <1>1, <1>2, <1>3
    <2>2. SubSeq(s, k + 1, Len(s)) # <<>>
        BY Zenon, <2>0, <1>2, NotEmpty
    <2> QED BY <2>1, <2>2, HeadTailOfSubSeq
<1>4. k = Len(s) => SubSeq(s, k + 1, Len(s)) = <<>>
    BY <1>1, SubSeqEmpty
<1> QED BY <1>2, <1>3, <1>4

\* The plan is well formed, and has no step that clears a link.
LEMMA PlanFacts ==
    ASSUME Handling!Assumptions, Typed
    PROVE  /\ Handling!WellFormed(plan) /\ plan.steps \in Seq(STRING) /\ Length \in Nat
           /\ \A j \in 1..Length : StepOf(j) \in STRING /\ StepOf(j) \in Handling!Steps(plan) /\ StepOf(j) # "clear"
           /\ plan.retries \in BOOLEAN
<1>1. Handling!WellFormed(plan)
    BY DEF Handling!Assumptions, Typed
<1>2. plan.steps \in Seq(STRING) /\ plan.retries \in BOOLEAN /\ "clear" \notin Handling!Steps(plan)
    BY <1>1 DEF Handling!WellFormed
<1> QED BY <1>1, <1>2 DEF Length, StepOf, Handling!Steps

\* The first step left is the next one of the plan, or clears the link.
LEMMA NextStep ==
    ASSUME Handling!Assumptions, Typed, NEW k \in 0..Length, Left(k), todo # <<>>, Head(todo) # "clear"
    PROVE  /\ k + 1 \in 1..Length /\ StepOf(k + 1) = Head(todo)
           /\ todo = Rest(k) /\ Tail(todo) = Rest(k + 1)
           /\ Past(k + 1) = Past(k) \union {Head(todo)}
<1>1. plan.steps \in Seq(STRING) /\ Length \in Nat
    BY PlanFacts
<1>2. Rest(k) \in Seq(STRING)
    BY <1>1, SuffixFacts DEF Rest, Length
<1>3. todo = Rest(k)
    <2>1. Head(<<"clear">> \o Rest(k)) = "clear"
        BY <1>2
    <2> QED BY <2>1 DEF Left
<1>4. k < Length
    <2> SUFFICES ASSUME k = Length PROVE FALSE
        BY <1>1
    <2> QED BY <1>1, <1>3, SuffixFacts DEF Rest, Length
<1>5. StepOf(k + 1) = Head(todo) /\ Tail(todo) = Rest(k + 1)
    BY <1>1, <1>3, <1>4, SuffixFacts DEF Rest, Length, StepOf
<1>6. Past(k + 1) = Past(k) \union {Head(todo)}
    <2>1. 1..(k + 1) = 1..k \union {k + 1}
        BY <1>1
    <2> QED BY <1>5, <2>1 DEF Past
<1> QED BY <1>1, <1>3, <1>4, <1>5, <1>6

\* Only an unlink clears the link, after its request.
LEMMA ClearStep ==
    ASSUME Handling!Assumptions, Typed, NEW k \in 0..Length, Left(k), todo # <<>>, Head(todo) = "clear"
    PROVE  k > 0 /\ StepOf(k) = "unlink" /\ Tail(todo) = Rest(k)
<1>1. plan.steps \in Seq(STRING) /\ Length \in Nat /\ \A j \in 1..Length : StepOf(j) # "clear"
    BY PlanFacts
<1>2. Rest(k) \in Seq(STRING)
    BY <1>1, SuffixFacts DEF Rest, Length
<1>3. todo # Rest(k)
    <2> SUFFICES ASSUME todo = Rest(k) PROVE FALSE
        OBVIOUS
    <2>1. k < Length
        BY <1>1, SuffixFacts DEF Rest, Length
    <2>2. Head(Rest(k)) = StepOf(k + 1)
        BY <1>1, <2>1, SuffixFacts DEF Rest, Length, StepOf
    <2>3. k + 1 \in 1..Length
        BY <1>1, <2>1
    <2> QED BY <1>1, <2>2, <2>3
<1>4. Tail(<<"clear">> \o Rest(k)) = Rest(k)
    BY <1>2
<1> QED BY <1>3, <1>4 DEF Left

\* With nothing left to do, the plan was gone through.
LEMMA LastStep ==
    ASSUME Handling!Assumptions, Typed, NEW k \in 0..Length, Left(k), todo = <<>>
    PROVE  k = Length /\ todo = Rest(k)
<1>1. plan.steps \in Seq(STRING) /\ Length \in Nat
    BY PlanFacts
<1>2. Rest(k) \in Seq(STRING)
    BY <1>1, SuffixFacts DEF Rest, Length
<1>3. <<"clear">> \o Rest(k) # <<>>
    BY <1>2
<1>4. todo = Rest(k)
    BY <1>3 DEF Left
<1>5. ~(k < Length)
    BY <1>1, <1>4, SuffixFacts DEF Rest, Length
<1> QED BY <1>1, <1>4, <1>5

\* A step of A comes first: one of B behind is not behind when A is next.
LEMMA Ahead ==
    ASSUME Handling!Assumptions, Typed, NEW k \in 0..Length, k + 1 \in 1..Length,
           NEW A, NEW B, Handling!Precede(plan, A, B), StepOf(k + 1) \in A
    PROVE  Past(k) \intersect B = {}
BY PlanFacts DEF Handling!Precede, Past, StepOf, Length

\* And one of B is behind when A, which follows it, is next.
LEMMA Behind ==
    ASSUME Handling!Assumptions, Typed, NEW k \in 0..Length, k + 1 \in 1..Length,
           NEW A, NEW B, Handling!Follow(plan, A, B), StepOf(k + 1) \in A
    PROVE  Past(k) \intersect B # {}
BY PlanFacts DEF Handling!Follow, Past, StepOf, Length

\* Before the prompt, the search and the choice of the workspace nothing is written.
LEMMA NothingWritten ==
    ASSUME Handling!Assumptions, Typed, NEW k \in 0..Length, Logged(k), k + 1 \in 1..Length,
           StepOf(k + 1) \in {"find", "ask", "asleep", "target", "scope"}
    PROVE  log = <<>>
<1>1. /\ Handling!Precede(plan, {"find", "ask", "asleep"}, Handling!Writing(plan))
      /\ Handling!Precede(plan, {"target", "scope"}, {"find", "ask"} \union Handling!Writing(plan))
    BY PlanFacts DEF Handling!WellFormed
<1>2. Past(k) \intersect Handling!Writing(plan) = {}
    BY <1>1, Ahead
<1>3. Length \in Nat /\ \A j \in 1..Length : StepOf(j) \in Handling!Steps(plan)
    BY PlanFacts
<1>4. ASSUME NEW i \in DOMAIN log
      PROVE  FALSE
    <2>1. log[i].op \notin Handling!Kinds
        BY <1>4, LogFacts
    <2>2. PICK j \in 1..(k + 1) : j <= Length /\ log[i].op = StepOf(j)
        BY <1>4 DEF Logged
    <2>3. j # k + 1
        BY <2>1, <2>2 DEF Handling!Kinds
    <2>4. j \in 1..k /\ StepOf(j) \in Handling!Steps(plan)
        BY <1>3, <2>2, <2>3
    <2> QED BY <1>2, <2>1, <2>2, <2>4 DEF Past, Handling!Writing
<1> QED BY <1>4, LogFacts

-----------------------------------------------------------------------------
(* Steps that write nothing *)

\* What is written stays as it is asked for, once and in the policy.
LEMMA LogKept ==
    ASSUME HandlerInv, UNCHANGED <<plan, policy, log>>, confirmed' = confirmed \/ log = <<>>,
           outcome' \in {"none", "ok", "error"} \/ log = <<>>
    PROVE  Handling!ConfirmedOnly' /\ Handling!AtMostOnce' /\ Handling!PolicyHolds'
<1>1. Handling!ConfirmedOnly'
    BY DEF HandlerInv, Handling!ConfirmedOnly, Handling!Steps
<1>2. Handling!AtMostOnce'
    BY DEF HandlerInv, Handling!AtMostOnce
<1>3. Handling!PolicyHolds'
    BY DEF HandlerInv, Handling!PolicyHolds
<1> QED BY <1>1, <1>2, <1>3

\* A handler may fail at any time.
LEMMA Fails ==
    ASSUME HandlerInv, Typed', UNCHANGED <<plan, policy, log, confirmed>>, Handling!Stop("error")
    PROVE  HandlerInv'
<1>1. Handling!ConfirmedOnly' /\ Handling!AtMostOnce' /\ Handling!PolicyHolds'
    BY LogKept DEF Handling!Stop
<1>2. Handling!OutcomeIsTrue'
    BY DEF Handling!Stop, Handling!OutcomeIsTrue
<1> QED BY <1>1, <1>2 DEF HandlerInv, Handling!Stop

\* The next step writes nothing.
LEMMA LogBehind ==
    ASSUME Handling!Assumptions, Typed, NEW k \in 0..Length, k + 1 \in 1..Length, StepOf(k + 1) \in Handling!Kinds,
           Logged(k), Carried(k), Once(k), UNCHANGED <<plan, log>>
    PROVE  Logged(k + 1)' /\ Carried(k + 1)' /\ Once(k + 1)'
<1>0. k \in Nat
    OBVIOUS
<1>1. Logged(k + 1)'
    BY DEF Logged, Length, StepOf
<1>2. Carried(k + 1)'
    BY DEF Carried, StepOf
<1>3. ASSUME ~plan.retries
      PROVE  Once(k + 1)'
    <2>1. PICK at \in [DOMAIN log -> 1..k] :
            InOrder(at) /\ \A j \in 1..k : StepOf(j) \notin Handling!Kinds => \E i \in DOMAIN log : at[i] = j
        BY <1>3 DEF Once
    <2>2. at \in [DOMAIN log -> 1..(k + 1)]
        BY <1>0
    <2>3. \A j \in 1..(k + 1) : StepOf(j) \notin Handling!Kinds => \E i \in DOMAIN log : at[i] = j
        BY <2>1, <1>0
    <2>4. InOrder(at)'
        BY <2>1 DEF InOrder, StepOf
    <2> QED BY <2>2, <2>3, <2>4 DEF Once, StepOf
<1>4. plan.retries => Once(k + 1)'
    BY DEF Once
<1> QED BY <1>1, <1>2, <1>3, <1>4

\* A step that looks, asks or resolves, and goes on.
LEMMA GoesOn ==
    ASSUME Handling!Assumptions, HandlerInv, Typed', NEW s \in Handling!Kinds \ {"target", "scope", "unlink", "clear"},
           Handling!At(s), Handling!Advance, Handling!Keep, UNCHANGED <<regions, lastErr, ws, log, kept>>,
           branch' = branch \/ branch = None,
           confirmed' = (IF s = "ask" THEN Handling!Target ELSE confirmed), s = "ask" => branch' = branch
    PROVE  HandlerInv'
<1>1. PICK k \in 0..Length : Coming(k)
    BY DEF HandlerInv, Handling!At
<1>2. /\ k + 1 \in 1..Length /\ StepOf(k + 1) = s
      /\ todo = Rest(k) /\ Tail(todo) = Rest(k + 1)
      /\ Past(k + 1) = Past(k) \union {s}
    BY <1>1, NextStep DEF Handling!At, Coming, HandlerInv
<1>u. UNCHANGED <<plan, policy, home, linked>>
    BY DEF Handling!Keep, Handling!fixed, Handling!world
<1>3. Logged(k + 1)' /\ Carried(k + 1)' /\ Once(k + 1)'
    BY <1>1, <1>2, <1>u, LogBehind DEF Coming, HandlerInv
<1>4. s = "ask" => log = <<>>
    BY <1>1, <1>2, NothingWritten DEF HandlerInv, Coming
<1>5. Handling!ConfirmedOnly' /\ Handling!AtMostOnce' /\ Handling!PolicyHolds'
    BY <1>4, <1>u, LogKept DEF Handling!Advance, HandlerInv, Handling!At
<1>6. Left(k + 1)' /\ Located(k + 1)' /\ Scoped'
    BY ZenonT(90), <1>1, <1>2, <1>u DEF Coming, Left, Rest, Length, Handling!Advance, Located,
       Past, StepOf, Scoped,
       Locating
<1>7. Asked(k + 1)'
    <2>p. Past(k + 1)' = Past(k) \union {s}
        BY <1>2, <1>u DEF Past, StepOf
    <2>1. CASE s = "ask"
        <3>1. Handling!Target # None
            BY DEF HandlerInv, Typed, Handling!TypeOK, Handling!Targets, Handling!Target,
               Handling!Assumptions
        <3> QED BY <2>1, <3>1 DEF Asked, Handling!Target
    <2>2. CASE s # "ask"
        BY <1>1, <2>2, <2>p DEF Asked, Coming
    <2> QED BY <2>1, <2>2
<1>8. Searched(k + 1)'
    <2>1. Length \in Nat /\ k \in Nat
        BY PlanFacts DEF HandlerInv
    <2>2. PICK r \in 0..Len(Regions) :
            /\ regions = SubSeq(Regions, r + 1, Len(Regions))
            /\ lastErr \/ \A i \in 1..r : ws # None /\ home[ws] # Regions[i]
            /\ r > 0 \/ lastErr => \A j \in (k + 1)..Length : StepOf(j) \notin Locating
        BY <1>1 DEF Coming, Searched
    <2>3. r > 0 \/ lastErr => \A j \in ((k + 1) + 1)..Length : StepOf(j) \notin Locating
        BY <2>1, <2>2
    <2> QED BY <1>u, <2>2, <2>3 DEF Searched, StepOf, Length
<1>9. Deleted(k + 1)' /\ Unlinked(k + 1)'
    <2>p. Past(k + 1)' = Past(k) \union {s}
        BY <1>2, <1>u DEF Past, StepOf
    <2>1. s # "DeleteWorkspace" /\ s # "unlink"
        BY DEF Handling!Kinds
    <2> QED BY <1>1, <1>2, <1>u, <2>1, <2>p DEF Deleted, Unlinked, Coming
<1>10. Coming(k + 1)'
    BY <1>3, <1>6, <1>7, <1>8, <1>9 DEF Coming
<1>11. outcome' = "none" /\ Handling!allows(plan)' /\ k + 1 \in (0..Length)'
    BY <1>2, <1>u DEF Handling!Advance, Handling!At, HandlerInv, Handling!allows, Length
<1> QED BY <1>5, <1>10, <1>11 DEF HandlerInv, Handling!OutcomeIsTrue

\* The workspace is chosen before anything is found, asked or written.
LEMMA Chosen ==
    ASSUME Handling!Assumptions, HandlerInv, Typed', NEW s \in {"target", "scope"}, Handling!At(s), Handling!Advance, Handling!Keep,
           UNCHANGED <<regions, lastErr, branch, log, kept, confirmed>>, ws' # None, Scoped'
    PROVE  HandlerInv'
<1>1. PICK k \in 0..Length : Coming(k)
    BY DEF HandlerInv, Handling!At
<1>2. /\ k + 1 \in 1..Length /\ StepOf(k + 1) = s
      /\ todo = Rest(k) /\ Tail(todo) = Rest(k + 1)
      /\ Past(k + 1) = Past(k) \union {s}
    BY <1>1, NextStep DEF Handling!At, Coming, HandlerInv
<1>u. UNCHANGED <<plan, policy, home, linked>>
    BY DEF Handling!Keep, Handling!fixed, Handling!world
<1>p. Past(k + 1)' = Past(k) \union {s}
    BY <1>2, <1>u DEF Past, StepOf
<1>k. s \in Handling!Kinds
    BY DEF Handling!Kinds
<1>3. Logged(k + 1)' /\ Carried(k + 1)' /\ Once(k + 1)'
    BY <1>1, <1>2, <1>u, <1>k, LogBehind DEF Coming, HandlerInv
<1>4. Past(k) \intersect ({"find", "ask"} \union Handling!Writing(plan)) = {}
    <2>1. Handling!Precede(plan, {"target", "scope"}, {"find", "ask"} \union Handling!Writing(plan))
        BY PlanFacts DEF Handling!WellFormed, HandlerInv
    <2> QED BY <1>2, <2>1, Ahead DEF HandlerInv
<1>5. Handling!ConfirmedOnly' /\ Handling!AtMostOnce' /\ Handling!PolicyHolds'
    BY <1>u, LogKept DEF Handling!Advance, HandlerInv, Handling!At
<1>6. Left(k + 1)' /\ Located(k + 1)'
    BY <1>1, <1>2, <1>u DEF Coming, Left, Rest, Length, Handling!Advance, Located
<1>7. Asked(k + 1)'
    BY <1>4, <1>p DEF Asked
<1>8. Searched(k + 1)'
    <2>1. Length \in Nat /\ k \in Nat
        BY PlanFacts DEF HandlerInv
    <2>2. PICK r \in 0..Len(Regions) :
            /\ regions = SubSeq(Regions, r + 1, Len(Regions))
            /\ r > 0 \/ lastErr => \A j \in (k + 1)..Length : StepOf(j) \notin Locating
        BY <1>1 DEF Coming, Searched
    <2>3. r = 0 /\ ~lastErr
        BY <1>2, <2>1, <2>2 DEF Locating, HandlerInv, Typed, Handling!TypeOK
    <2>4. /\ regions' = SubSeq(Regions, r + 1, Len(Regions))
          /\ \A i \in 1..r : ws' # None /\ home'[ws'] # Regions[i]
          /\ ~(r > 0) /\ ~lastErr'
        BY <2>2, <2>3
    <2> QED BY <2>4 DEF Searched
<1>9. Deleted(k + 1)' /\ Unlinked(k + 1)'
    <2>1. "DeleteWorkspace" \notin Past(k)
        <3>1. Past(k) \subseteq Handling!Steps(plan)
            BY PlanFacts DEF Past, HandlerInv
        <3> QED BY <1>4, <3>1 DEF Handling!Writing, Handling!Kinds
    <2>2. "unlink" \notin Past(k)
        <3> SUFFICES ASSUME NEW j \in 1..k, StepOf(j) = "unlink" PROVE FALSE
            BY DEF Past
        <3>1. Handling!Follow(plan, {"unlink"}, {"DeleteWorkspace"})
            BY PlanFacts DEF Handling!WellFormed, HandlerInv
        <3>2. \E i \in 1..(j - 1) : StepOf(i) = "DeleteWorkspace"
            BY <3>1, PlanFacts DEF Handling!Follow, StepOf, Length, HandlerInv
        <3> QED BY <2>1, <3>2, PlanFacts DEF Past, HandlerInv
    <2> QED BY <1>p, <2>1, <2>2 DEF Deleted, Unlinked
<1>10. Coming(k + 1)'
    BY <1>3, <1>6, <1>7, <1>8, <1>9 DEF Coming
<1>11. outcome' = "none" /\ Handling!allows(plan)' /\ k + 1 \in (0..Length)'
    BY <1>2, <1>u DEF Handling!Advance, Handling!At, HandlerInv, Handling!allows, Length
<1> QED BY <1>5, <1>10, <1>11 DEF HandlerInv, Handling!OutcomeIsTrue

\* The command finds its workspace.
LEMMA ResolveStep == ASSUME Handling!Assumptions, HandlerInv, Handling!Resolve PROVE HandlerInv'
<1>1. Typed'
    BY DEF HandlerInv, Typed, Handling!TypeOK, Handling!Resolve, Handling!Keep, Handling!world,
       Handling!fixed, Handling!found, Handling!Stop, Handling!Advance, Handling!At
<1>2. CASE ws' = None
    BY <1>1, <1>2, Fails DEF Handling!Resolve, Handling!Keep, Handling!fixed
<1>3. CASE ws' # None
    <2>1. PICK k \in 0..Length : Coming(k)
        BY DEF HandlerInv, Handling!At, Handling!Resolve
    <2>2. k + 1 \in 1..Length /\ StepOf(k + 1) = "target"
        BY <2>1, NextStep DEF Handling!At, Coming, HandlerInv, Handling!Resolve
    <2>3. plan.server # "mcp"
        BY <2>2, PlanFacts DEF HandlerInv, Handling!WellFormed, Handling!KeepsPolicy
    <2>4. Scoped'
        BY <2>3 DEF Scoped, Handling!Resolve, Handling!Keep, Handling!fixed
    <2> QED BY <1>1, <1>3, <2>4, Chosen DEF Handling!Resolve, Handling!found
<1> QED BY <1>2, <1>3

\* The workspace is resolved from the flag, the link or the profile.
LEMMA ScopeStep == ASSUME Handling!Assumptions, HandlerInv, Handling!resolveWorkspace PROVE HandlerInv'
<1>1. Typed'
    BY DEF HandlerInv, Typed, Handling!TypeOK, Handling!resolveWorkspace, Handling!Keep,
       Handling!world, Handling!fixed, Handling!found, Handling!Stop, Handling!Advance, Handling!At,
           Handling!ScopedWorkspace, Policies
<1>2. CASE Handling!OutOfScope \/ Handling!ScopedWorkspace = None
    BY <1>1, <1>2, Fails DEF Handling!resolveWorkspace, Handling!Keep, Handling!fixed
<1>3. CASE ~(Handling!OutOfScope \/ Handling!ScopedWorkspace = None)
    <2>1. Scoped' /\ ws' # None
        BY <1>3 DEF Scoped, Handling!resolveWorkspace, Handling!Keep, Handling!fixed,
           Handling!ScopedWorkspace
    <2> QED BY <1>1, <1>3, <2>1, Chosen DEF Handling!resolveWorkspace, Handling!found
<1> QED BY <1>2, <1>3

\* A command that needs no workspace goes on without one.
LEMMA UnscopedStep == ASSUME Handling!Assumptions, HandlerInv, Handling!Unscoped PROVE HandlerInv'
<1>1. Typed'
    BY DEF HandlerInv, Typed, Handling!TypeOK, Handling!Unscoped, Handling!Keep, Handling!world,
       Handling!fixed, Handling!found, Handling!Stop, Handling!Advance, Handling!At
<1>2. CASE Handling!Stop("error")
    BY <1>1, <1>2, Fails DEF Handling!Unscoped, Handling!Keep, Handling!fixed
<1>3. CASE Handling!Advance
    BY <1>1, <1>3, GoesOn DEF Handling!Unscoped, Handling!found, Handling!Kinds
<1> QED BY <1>2, <1>3 DEF Handling!Unscoped

\* The branch is resolved.
LEMMA ResolveBranchStep == ASSUME Handling!Assumptions, HandlerInv, Handling!resolveBranchID PROVE HandlerInv'
<1>0. ws # None
    <2>1. PICK k \in 0..Length : Coming(k)
        BY DEF HandlerInv, Handling!At, Handling!resolveBranchID
    <2>2. k + 1 \in 1..Length /\ StepOf(k + 1) = "resolve"
        BY <2>1, NextStep DEF Handling!At, Coming, HandlerInv, Handling!resolveBranchID
    <2>3. Handling!Follow(plan, {"find", "resolve", "DeleteWorkspace"}, Locating)
        BY PlanFacts DEF Handling!WellFormed, HandlerInv, Locating
    <2> QED BY <2>1, <2>2, <2>3, Behind DEF Coming, Located, HandlerInv
<1>1. Typed'
    <2>1. branch' \in Branches \union {None}
        BY <1>0 DEF HandlerInv, Typed, Handling!TypeOK, Handling!resolveBranchID
    <2> QED BY <2>1 DEF HandlerInv, Typed, Handling!TypeOK, Handling!resolveBranchID,
             Handling!Keep, Handling!world, Handling!fixed, Handling!found, Handling!Stop,
             Handling!Advance, Handling!At
<1>2. CASE Handling!Stop("error")
    BY <1>1, <1>2, Fails DEF Handling!resolveBranchID, Handling!Keep, Handling!fixed
<1>3. CASE Handling!Advance
    BY <1>1, <1>3, GoesOn DEF Handling!resolveBranchID, Handling!found, Handling!Kinds
<1> QED BY <1>2, <1>3 DEF Handling!resolveBranchID

\* A read that changes nothing.
LEMMA ReadStep == ASSUME Handling!Assumptions, HandlerInv, Handling!Read PROVE HandlerInv'
<1>1. Typed'
    BY DEF HandlerInv, Typed, Handling!TypeOK, Handling!Read, Handling!Keep, Handling!world,
       Handling!fixed, Handling!found, Handling!Stop, Handling!Advance, Handling!At
<1>2. CASE Handling!Stop("error")
    BY <1>1, <1>2, Fails DEF Handling!Read, Handling!Keep, Handling!fixed
<1>3. CASE Handling!Advance
    BY <1>1, <1>3, GoesOn DEF Handling!Read, Handling!found, Handling!Kinds
<1> QED BY <1>2, <1>3 DEF Handling!Read

\* A handler that ends before it has written anything.
LEMMA EndsEmpty ==
    ASSUME HandlerInv, Typed', UNCHANGED <<plan, policy>>, log = <<>>, log' = <<>>,
           outcome' # "none", Handling!OutcomeIsTrue'
    PROVE  HandlerInv'
<1>1. Handling!ConfirmedOnly' /\ Handling!PolicyHolds'
    BY EmptySeq DEF Handling!ConfirmedOnly, Handling!PolicyHolds
<1>2. Handling!AtMostOnce'
    BY DEF HandlerInv, Handling!AtMostOnce
<1> QED BY <1>1, <1>2 DEF HandlerInv

\* The user says yes, or no.
LEMMA ConfirmStep == ASSUME Handling!Assumptions, HandlerInv, Handling!Confirm PROVE HandlerInv'
<1>1. Typed'
    <2>1. Handling!Target \in Handling!Targets
        BY DEF HandlerInv, Typed, Handling!TypeOK, Handling!Targets, Handling!Target
    <2> QED BY <2>1 DEF HandlerInv, Typed, Handling!TypeOK, Handling!Confirm, Handling!Keep,
             Handling!world, Handling!fixed, Handling!found, Handling!Stop, Handling!Advance,
             Handling!At
<1>2. CASE Handling!Stop("cancelled") /\ UNCHANGED confirmed
    <2>1. PICK k \in 0..Length : Coming(k)
        BY DEF HandlerInv, Handling!At, Handling!Confirm
    <2>2. k + 1 \in 1..Length /\ StepOf(k + 1) = "ask"
        BY <2>1, NextStep DEF Handling!At, Coming, HandlerInv, Handling!Confirm
    <2>3. log = <<>>
        BY <2>1, <2>2, NothingWritten DEF HandlerInv, Coming
    <2>4. Handling!OutcomeIsTrue'
        BY <1>2 DEF Handling!OutcomeIsTrue, Handling!Stop
    <2> QED BY <1>1, <1>2, <2>3, <2>4, EndsEmpty DEF Handling!Stop, Handling!Confirm,
             Handling!Keep, Handling!fixed
<1>3. CASE Handling!Advance /\ confirmed' = Handling!Target
    BY <1>1, <1>3, GoesOn DEF Handling!Confirm, Handling!found, Handling!Kinds
<1> QED BY <1>2, <1>3 DEF Handling!Confirm

\* A wake that finds the workspace running has nothing to do.
LEMMA CheckStep == ASSUME Handling!Assumptions, HandlerInv, Handling!Check PROVE HandlerInv'
<1>1. Typed'
    BY DEF HandlerInv, Typed, Handling!TypeOK, Handling!Check, Handling!Keep, Handling!world,
       Handling!fixed, Handling!found, Handling!Stop, Handling!Advance, Handling!At
<1>2. CASE Handling!Stop("error")
    BY <1>1, <1>2, Fails DEF Handling!Check, Handling!Keep, Handling!fixed
<1>3. ASSUME NEW s \in {"asleep", "echo", "role", "env"}, Handling!At(s), Handling!Advance
      PROVE  HandlerInv'
    BY <1>1, <1>3, GoesOn DEF Handling!Check, Handling!found, Handling!Kinds
<1>4. CASE Handling!At("asleep") /\ Handling!Stop("ok")
    <2>1. PICK k \in 0..Length : Coming(k)
        BY <1>4 DEF HandlerInv, Handling!At
    <2>2. k + 1 \in 1..Length /\ StepOf(k + 1) = "asleep"
        BY <1>4, <2>1, NextStep DEF Handling!At, Coming, HandlerInv
    <2>3. log = <<>>
        BY <2>1, <2>2, NothingWritten DEF HandlerInv, Coming
    <2>4. "asleep" \in Handling!Steps(plan)
        BY <2>2, PlanFacts DEF HandlerInv
    <2>5. "unlink" \notin Handling!Steps(plan)
        BY <2>4, PlanFacts DEF Handling!WellFormed, HandlerInv
    <2>6. Handling!OutcomeIsTrue'
        BY <1>4, <2>3, <2>4, <2>5 DEF Handling!OutcomeIsTrue, Handling!Stop, Handling!Check,
           Handling!Keep, Handling!fixed, Handling!Steps
    <2> QED BY <1>1, <1>4, <2>3, <2>6, EndsEmpty DEF Handling!Stop, Handling!Check, Handling!Keep,
             Handling!fixed
<1> QED BY <1>2, <1>3, <1>4 DEF Handling!Check

\* What the search still has to ask, and what it knows of the rest.
LEMMA SearchedTail ==
    ASSUME Handling!Assumptions, NEW r \in 0..Len(Regions),
           regions = SubSeq(Regions, r + 1, Len(Regions))
    PROVE  /\ regions # <<>> => /\ r + 1 \in 1..Len(Regions) /\ Head(regions) = Regions[r + 1]
                                /\ Tail(regions) = SubSeq(Regions, (r + 1) + 1, Len(Regions))
           /\ regions = <<>> => r = Len(Regions)
<1>1. Regions \in Seq(STRING) /\ Len(Regions) \in Nat
    BY DEF Handling!Assumptions
<1>2. CASE r < Len(Regions)
    BY <1>1, <1>2, SuffixFacts
<1>3. CASE r = Len(Regions)
    BY <1>1, <1>3, SuffixFacts
<1> QED BY <1>1, <1>2, <1>3

\* The next region is asked for the workspace.
LEMMA AskRegionStep == ASSUME Handling!Assumptions, HandlerInv, Handling!AskRegion PROVE HandlerInv'
<1>1. Typed'
    BY DEF HandlerInv, Typed, Handling!TypeOK, Handling!AskRegion, Handling!Keep, Handling!world,
       Handling!fixed, Handling!found, Handling!Stop, Handling!Advance, Handling!At
<1>2. CASE Handling!Stop("error")
    BY <1>1, <1>2, Fails DEF Handling!AskRegion, Handling!Keep, Handling!fixed
<1>3. CASE Handling!Advance /\ UNCHANGED <<regions, lastErr>>
    BY <1>1, <1>3, GoesOn DEF Handling!AskRegion, Handling!found, Handling!Kinds
<1>4. CASE /\ regions' = Tail(regions) /\ UNCHANGED <<todo, outcome>>
           /\ lastErr' \/ (lastErr' = lastErr /\ home[ws] # Head(regions))
    <2>1. PICK k \in 0..Length : Coming(k)
        BY DEF HandlerInv, Handling!At, Handling!AskRegion
    <2>2. k + 1 \in 1..Length /\ StepOf(k + 1) = "find"
        BY <2>1, NextStep DEF Handling!At, Coming, HandlerInv, Handling!AskRegion
    <2>u. UNCHANGED <<plan, policy, home, linked>>
        BY DEF Handling!AskRegion, Handling!Keep, Handling!fixed, Handling!world
    <2>3. Searched(k)'
        <3>1. PICK r \in 0..Len(Regions) :
                /\ regions = SubSeq(Regions, r + 1, Len(Regions))
                /\ lastErr \/ \A i \in 1..r : ws # None /\ home[ws] # Regions[i]
            BY <2>1 DEF Coming, Searched
        <3>2. /\ r + 1 \in 1..Len(Regions) /\ Head(regions) = Regions[r + 1]
              /\ Tail(regions) = SubSeq(Regions, (r + 1) + 1, Len(Regions))
            BY <3>1, SearchedTail DEF Handling!AskRegion
        <3>3. lastErr' \/ \A i \in 1..(r + 1) : ws' # None /\ home'[ws'] # Regions[i]
            <4>1. CASE lastErr'
                BY <4>1
            <4>2. CASE lastErr' = lastErr /\ ~lastErr /\ home[ws] # Head(regions)
                <5>1. \A i \in 1..(r + 1) : i \in 1..r \/ i = r + 1
                    BY <3>2
                <5>2. home' = home /\ ws' = ws
                    BY <2>u DEF Handling!AskRegion
                <5>3. ws # None
                    <6>1. Handling!Follow(plan, {"find", "resolve", "DeleteWorkspace"}, Locating)
                        BY PlanFacts DEF Handling!WellFormed, HandlerInv, Locating
                    <6> QED BY <2>1, <2>2, <6>1, Behind DEF Coming, Located, HandlerInv
                <5> QED BY <3>1, <3>2, <4>2, <5>1, <5>2, <5>3
            <4> QED BY <1>4, <4>1, <4>2
        <3>4. \A j \in (k + 1)..Length : StepOf(j) \notin Locating
            <4> SUFFICES ASSUME NEW j \in (k + 1)..Length, StepOf(j) \in Locating PROVE FALSE
                OBVIOUS
            <4>1. Handling!Precede(plan, Locating, {"find", "ask"} \union Handling!Writing(plan))
                BY PlanFacts DEF Handling!WellFormed, HandlerInv, Locating
            <4>2. j \in 1..Length
                BY <2>2, PlanFacts DEF HandlerInv
            <4>3. j < k + 1
                BY <2>2, <4>1, <4>2, PlanFacts DEF Handling!Precede, StepOf, Length, HandlerInv
            <4> QED BY <2>2, <4>3, PlanFacts DEF HandlerInv
        <3>5. regions' = SubSeq(Regions, (r + 1) + 1, Len(Regions)) /\ r + 1 \in 0..Len(Regions)
            BY <1>4, <3>2
        <3>6. \A j \in ((k + 1)..Length)' : StepOf(j)' \notin Locating
            BY <2>u, <3>4 DEF StepOf, Length
        <3> QED BY <3>3, <3>5, <3>6 DEF Searched
    <2>4. Coming(k)'
        <3>1. UNCHANGED <<plan, policy, todo, ws, branch, confirmed, log, home, linked, kept>>
            BY <1>4, <2>u DEF Handling!AskRegion
        <3>2. /\ Left(k) /\ Located(k) /\ Asked(k) /\ Logged(k) /\ Carried(k) /\ Once(k) /\ Scoped
              /\ Deleted(k) /\ Unlinked(k)
            BY <2>1 DEF Coming
        <3>3. Left(k)' /\ Located(k)' /\ Asked(k)'
            BY <3>1, <3>2 DEF Left, Rest, Length, StepOf, Located, Asked, Past
        <3>4. Logged(k)' /\ Carried(k)'
            BY <3>1, <3>2 DEF Logged, Carried, StepOf, Length
        <3>5. Once(k)'
            BY <3>1, <3>2 DEF Once, InOrder, StepOf
        <3>6. Scoped' /\ Deleted(k)' /\ Unlinked(k)'
            BY <3>1, <3>2 DEF Scoped, Deleted, Unlinked, Past, Rest, StepOf, Length
        <3> QED BY <2>3, <3>3, <3>4, <3>5, <3>6 DEF Coming
    <2>5. Handling!ConfirmedOnly' /\ Handling!AtMostOnce' /\ Handling!PolicyHolds' /\ outcome' = "none"
        BY <1>4, <2>u, LogKept DEF Handling!AskRegion, Handling!At
    <2>6. Handling!allows(plan)' /\ k \in (0..Length)'
        BY <2>u DEF HandlerInv, Handling!allows, Length, Handling!AskRegion, Handling!At
    <2> QED BY <1>1, <2>4, <2>5, <2>6 DEF HandlerInv, Handling!OutcomeIsTrue
<1> QED BY <1>2, <1>3, <1>4 DEF Handling!AskRegion

\* All regions were asked.
LEMMA AllRegionsAskedStep == ASSUME Handling!Assumptions, HandlerInv, Handling!AllRegionsAsked PROVE HandlerInv'
<1>1. Typed'
    BY DEF HandlerInv, Typed, Handling!TypeOK, Handling!AllRegionsAsked, Handling!Keep,
       Handling!world, Handling!fixed, Handling!found, Handling!Stop, Handling!At
<1>2. CASE Handling!Stop("error")
    BY <1>1, <1>2, Fails DEF Handling!AllRegionsAsked, Handling!Keep, Handling!fixed
<1>3. CASE ~lastErr /\ Handling!Stop("notfound")
    <2>1. PICK k \in 0..Length : Coming(k)
        BY DEF HandlerInv, Handling!At, Handling!AllRegionsAsked
    <2>2. k + 1 \in 1..Length /\ StepOf(k + 1) = "find"
        BY <2>1, NextStep DEF Handling!At, Coming, HandlerInv, Handling!AllRegionsAsked
    <2>3. log = <<>>
        BY <2>1, <2>2, NothingWritten DEF HandlerInv, Coming
    <2>4. PICK r \in 0..Len(Regions) :
            /\ regions = SubSeq(Regions, r + 1, Len(Regions))
            /\ lastErr \/ \A i \in 1..r : ws # None /\ home[ws] # Regions[i]
        BY <2>1 DEF Coming, Searched
    <2>5. r = Len(Regions)
        BY <2>4, SearchedTail DEF Handling!AllRegionsAsked
    <2>6. \A i \in DOMAIN Regions : home[ws] # Regions[i]
        BY <1>3, <2>4, <2>5, SeqFacts DEF Handling!Assumptions
    <2>7. Handling!OutcomeIsTrue'
        BY <1>3, <2>6 DEF Handling!OutcomeIsTrue, Handling!Stop, Handling!AllRegionsAsked,
           Handling!Keep, Handling!world
    <2> QED BY <1>1, <1>3, <2>3, <2>7, EndsEmpty DEF Handling!Stop, Handling!AllRegionsAsked,
             Handling!Keep, Handling!fixed
<1> QED BY <1>2, <1>3 DEF Handling!AllRegionsAsked

-----------------------------------------------------------------------------
(* Writes *)

Entry == [op |-> Head(todo), target |-> Handling!Target]

\* The log with one more write.
LEMMA Written ==
    ASSUME Typed, Entry.op \notin Handling!Kinds, Entry \in [op : STRING, target : Handling!Targets],
           log' = Append(log, Entry)
    PROVE  /\ DOMAIN log' = DOMAIN log \union {Len(log) + 1} /\ log' \in Seq(Entries)
           /\ \A i \in DOMAIN log : log'[i] = log[i]
           /\ log'[Len(log) + 1] = Entry
<1>1. log \in Seq(Entries) /\ Entry \in Entries
    BY DEF Typed, Entries
<1>2. \A S : \A l \in Seq(S) : \A e \in S :
        /\ DOMAIN Append(l, e) = DOMAIN l \union {Len(l) + 1} /\ Append(l, e) \in Seq(S)
        /\ \A i \in DOMAIN l : Append(l, e)[i] = l[i]
        /\ Append(l, e)[Len(l) + 1] = e
    OBVIOUS
<1> QED BY <1>1, <1>2

\* A write is the first request of its step, and all before it are behind.
LEMMA WrittenOnce ==
    ASSUME Handling!Assumptions, Typed, NEW k \in 0..Length, k + 1 \in 1..Length, Once(k), ~plan.retries,
           Entry.op = StepOf(k + 1), Entry.op \notin Handling!Kinds, Entry \in [op : STRING, target : Handling!Targets],
           log' = Append(log, Entry), UNCHANGED plan
    PROVE  Once(k + 1)'
<1>1. PICK at \in [DOMAIN log -> 1..k] :
        InOrder(at) /\ \A j \in 1..k : StepOf(j) \notin Handling!Kinds => \E i \in DOMAIN log : at[i] = j
    BY DEF Once
<1>2. /\ DOMAIN log' = DOMAIN log \union {Len(log) + 1}
      /\ \A i \in DOMAIN log : log'[i] = log[i]
      /\ log'[Len(log) + 1] = Entry
    BY Written
<1>3. Len(log) \in Nat /\ DOMAIN log = 1..Len(log) /\ k \in Nat
    BY LogFacts
<1>4. PICK then \in [DOMAIN log' -> 1..(k + 1)] :
        then[Len(log) + 1] = k + 1 /\ \A i \in DOMAIN log : then[i] = at[i]
    <2> DEFINE f == [i \in DOMAIN log' |-> IF i = Len(log) + 1 THEN k + 1 ELSE at[i]]
    <2>1. /\ f \in [DOMAIN log' -> 1..(k + 1)]
          /\ f[Len(log) + 1] = k + 1 /\ \A i \in DOMAIN log : f[i] = at[i]
        BY <1>2, <1>3
    <2> HIDE DEF f
    <2> QED BY <2>1
<1>5. \A i, j \in DOMAIN log' : i < j => then[i] < then[j]
    <2> SUFFICES ASSUME NEW i \in DOMAIN log', NEW j \in DOMAIN log', i < j
                 PROVE  then[i] < then[j]
        OBVIOUS
    <2>1. i \in DOMAIN log
        BY <1>2, <1>3
    <2>2. CASE j \in DOMAIN log
        BY <1>1, <1>4, <2>1, <2>2 DEF InOrder
    <2>3. CASE j = Len(log) + 1
        BY <1>3, <1>4, <2>1, <2>3
    <2> QED BY <1>2, <2>2, <2>3
<1>6. \A i \in DOMAIN log' : log'[i].op = StepOf(then[i])
    BY <1>1, <1>2, <1>3, <1>4 DEF InOrder
<1>7. \A j \in 1..(k + 1) : StepOf(j) \notin Handling!Kinds => \E i \in DOMAIN log' : then[i] = j
    <2> SUFFICES ASSUME NEW j \in 1..(k + 1), StepOf(j) \notin Handling!Kinds
                 PROVE  \E i \in DOMAIN log' : then[i] = j
        OBVIOUS
    <2>1. CASE j = k + 1
        BY <1>2, <1>4, <2>1
    <2>2. CASE j \in 1..k
        BY <1>1, <1>2, <1>4, <2>2
    <2> QED BY <1>3, <2>1, <2>2
<1>8. InOrder(then)'
    BY <1>5, <1>6 DEF InOrder, StepOf
<1>9. \A j \in 1..(k + 1) : StepOf(j)' \notin Handling!Kinds => \E i \in DOMAIN log' : then[i] = j
    BY <1>7 DEF StepOf
<1>10. then \in [DOMAIN log' -> 1..(k + 1)]
    BY <1>4
<1> QED BY <1>8, <1>9, <1>10 DEF Once

\* A plan that is gone through in order asks for nothing twice.
LEMMA OnceInOrder ==
    ASSUME Handling!Assumptions, Typed, UNCHANGED plan, NEW k \in 0..Length, Once(k)'
    PROVE  Handling!AtMostOnce'
<1> SUFFICES ASSUME ~plan.retries
             PROVE  \E at \in [DOMAIN log' -> DOMAIN plan.steps] :
                        /\ \A i, j \in DOMAIN log' : i < j => at[i] < at[j]
                        /\ \A i \in DOMAIN log' : log'[i].op = plan.steps[at[i]]
                        /\ \A i \in DOMAIN log' : \A n \in 1..at[i] :
                              plan.steps[n] \notin Handling!Kinds => \E j \in DOMAIN log' : at[j] = n
    BY DEF Handling!AtMostOnce
<1>1. PICK at \in [DOMAIN log' -> 1..k] :
        InOrder(at)' /\ \A j \in 1..k : StepOf(j)' \notin Handling!Kinds => \E i \in DOMAIN log' : at[i] = j
    BY DEF Once
<1>2. Length \in Nat /\ DOMAIN plan.steps = 1..Length
    BY PlanFacts, SeqFacts DEF Length
<1>3. at \in [DOMAIN log' -> DOMAIN plan.steps]
    BY <1>2
<1>4. \A i \in DOMAIN log' : \A n \in 1..at[i] : n \in 1..k
    BY <1>2
<1> QED BY <1>1, <1>3, <1>4 DEF InOrder, StepOf

\* A write is one that the user has asked for and that the policy allows.
LEMMA WrittenAsAsked ==
    ASSUME Handling!Assumptions, HandlerInv, Handling!allows(plan), NEW k \in 0..Length, Coming(k), k + 1 \in 1..Length,
           Entry.op = StepOf(k + 1), Entry.op \notin Handling!Kinds, Entry \in [op : STRING, target : Handling!Targets],
           log' = Append(log, Entry), UNCHANGED <<plan, policy, confirmed>>,
           outcome' \in {"none", "error"}
    PROVE  Handling!ConfirmedOnly' /\ Handling!PolicyHolds'
<1>t. Typed
    BY DEF HandlerInv
<1>1. /\ DOMAIN log' = DOMAIN log \union {Len(log) + 1}
      /\ \A i \in DOMAIN log : log'[i] = log[i]
      /\ log'[Len(log) + 1].target = Handling!Target
    BY <1>t, Written DEF Entry
<1>w. StepOf(k + 1) \in Handling!Writing(plan)
    BY <1>t, PlanFacts DEF Handling!Writing
<1>2. Handling!ConfirmedOnly'
    <2> SUFFICES ASSUME "ask" \in Handling!Steps(plan), NEW i \in DOMAIN log'
                 PROVE  /\ confirmed # None /\ log'[i].target.ws = confirmed.ws
                        /\ confirmed.branch \in {None, log'[i].target.branch}
        BY DEF Handling!ConfirmedOnly
    <2>1. CASE i \in DOMAIN log
        BY <1>1, <2>1 DEF HandlerInv, Handling!ConfirmedOnly
    <2>2. CASE i = Len(log) + 1
        <3>1. PICK j \in 1..Length : StepOf(j) = "ask"
            BY SMTT(60), <1>t, PlanFacts, SeqFacts DEF Handling!Steps, Length, StepOf
        <3>2. Handling!Precede(plan, {"find", "ask", "asleep"}, Handling!Writing(plan))
            BY <1>t, PlanFacts DEF Handling!WellFormed
        <3>3. j < k + 1
            BY <1>t, <1>w, <3>1, <3>2, PlanFacts, SeqFacts DEF Handling!Precede, Length, StepOf
        <3>4. "ask" \in Past(k)
            BY <1>t, <3>1, <3>3, PlanFacts DEF Past
        <3>5. confirmed # None /\ confirmed.ws = ws /\ confirmed.branch \in {None, branch}
            BY <3>4 DEF Coming, Asked
        <3> QED BY <1>1, <2>2, <3>5 DEF Handling!Target
    <2> QED BY <1>1, <2>1, <2>2
<1>3. Handling!PolicyHolds'
    <2> SUFFICES ASSUME plan.server = "mcp"
                 PROVE  /\ ~policy.readOnly
                        /\ policy.ref # None =>
                              \A i \in DOMAIN log' :
                                  \/ log'[i].target.ws = policy.ref
                                  \/ log'[i].target.ws = None /\ plan.feature = "pages"
        BY DEF Handling!PolicyHolds
    <2>1. Handling!KeepsPolicy(plan)
        BY <1>t, PlanFacts DEF Handling!WellFormed
    <2>2. plan.mutating /\ plan.feature # "none"
        BY <1>w, <2>1 DEF Handling!KeepsPolicy
    <2>3. ~policy.readOnly /\ ~(plan.feature = "account" /\ policy.ref # None)
        BY <2>2 DEF Handling!allows
    <2>4. ASSUME policy.ref # None, plan.feature # "pages"
          PROVE  ws = policy.ref
        <3>1. Handling!Follow(plan, Handling!Writing(plan), {"scope"})
            BY <2>1, <2>3, <2>4 DEF Handling!KeepsPolicy
        <3>2. Past(k) \intersect {"scope"} # {}
            BY <1>t, <1>w, <3>1, Behind
        <3>3. ws # None
            BY <3>2 DEF Coming, Located, Locating
        <3> QED BY <2>4, <3>3 DEF Coming, Scoped
    <2>5. policy.ref # None => ws \in {None, policy.ref}
        BY DEF Coming, Scoped
    <2>6. policy.ref # None =>
            \A i \in DOMAIN log :
                \/ log[i].target.ws = policy.ref
                \/ log[i].target.ws = None /\ plan.feature = "pages"
        BY DEF HandlerInv, Handling!PolicyHolds
    <2>7. Handling!Target.ws = ws
        BY DEF Handling!Target
    <2> QED BY <1>1, <2>3, <2>4, <2>5, <2>6, <2>7
<1> QED BY <1>2, <1>3

\* What does not depend on the log stays when a write is carried out: the
\* workspace that is worked on stays, or is gone.
LEMMA CarriedOut ==
    ASSUME Handling!Assumptions, Typed, NEW k \in 0..Length, Coming(k), k + 1 \in 1..Length,
           Head(todo) = StepOf(k + 1), Head(todo) \notin Handling!Kinds, Handling!CarryOut(Head(todo)),
           UNCHANGED <<Handling!fixed, regions, lastErr, ws, branch, confirmed, kept>>
    PROVE  /\ Located(k)' /\ Asked(k)' /\ Searched(k)' /\ Scoped' /\ Deleted(k)'
           /\ Located(k + 1)' /\ Asked(k + 1)' /\ Searched(k + 1)' /\ Deleted(k + 1)'
           /\ "unlink" \in Past(k + 1)' => "unlink" \in Past(k)
<1>1. Past(k)' = Past(k) /\ Past(k + 1)' = Past(k) \union {Head(todo)}
    <2>1. 1..(k + 1) = 1..k \union {k + 1}
        OBVIOUS
    <2> QED BY <2>1 DEF Past, StepOf, Handling!fixed
<1>2. Head(todo) \notin {"target", "scope", "ask", "unlink"}
    BY DEF Handling!Kinds
<1>3. UNCHANGED <<ws, branch, confirmed, plan, policy>>
    BY DEF Handling!fixed
<1>4. Located(k)' /\ Asked(k)' /\ Located(k + 1)' /\ Asked(k + 1)' /\ Scoped'
    BY <1>1, <1>2, <1>3 DEF Coming, Located, Asked, Scoped, Locating
<1>5. ws # None => home'[ws] = home[ws] \/ home'[ws] = None
    BY DEF Handling!CarryOut, Typed, Handling!TypeOK
<1>6. Searched(k)' /\ Searched(k + 1)'
    <2>1. PICK r \in 0..Len(Regions) :
            /\ regions = SubSeq(Regions, r + 1, Len(Regions))
            /\ lastErr \/ \A i \in 1..r : ws # None /\ home[ws] # Regions[i]
            /\ r > 0 \/ lastErr => \A j \in (k + 1)..Length : StepOf(j) \notin Locating
        BY DEF Coming, Searched
    <2>2. \A i \in 1..r : Regions[i] # None
        BY SeqFacts DEF Handling!Assumptions
    <2>3. lastErr' \/ \A i \in 1..r : ws' # None /\ home'[ws'] # Regions[i]
        BY <1>3, <1>5, <2>1, <2>2
    <2>4. regions' = SubSeq(Regions, r + 1, Len(Regions))
        BY <2>1
    <2>5. Length' = Length /\ \A j : StepOf(j)' = StepOf(j)
        BY <1>3 DEF Length, StepOf
    <2>6. Length \in Nat /\ k \in Nat
        BY PlanFacts
    <2>7. r > 0 \/ lastErr' => \A j \in (k + 1)..Length' : StepOf(j)' \notin Locating
        BY <2>1, <2>5
    <2>8. r > 0 \/ lastErr' => \A j \in ((k + 1) + 1)..Length' : StepOf(j)' \notin Locating
        BY <2>5, <2>6, <2>7
    <2>9. Searched(k)'
        BY <2>3, <2>4, <2>7 DEF Searched
    <2> QED BY <2>3, <2>4, <2>8, <2>9 DEF Searched
<1>7. Deleted(k)' /\ Deleted(k + 1)'
    <2>1. ASSUME Head(todo) = "DeleteWorkspace"
          PROVE  ws # None /\ home'[ws] = None
        <3>1. Handling!Follow(plan, {"find", "resolve", "DeleteWorkspace"}, Locating)
            BY PlanFacts DEF Handling!WellFormed, Locating
        <3>2. Past(k) \intersect Locating # {}
            BY <2>1, <3>1, Behind
        <3>3. ws \in Workspaces
            BY <3>2 DEF Coming, Located, Typed, Handling!TypeOK
        <3> QED BY <2>1, <3>3 DEF Handling!CarryOut, Typed, Handling!TypeOK, Handling!Assumptions
    <2>2. "DeleteWorkspace" \in Past(k) => ws # None /\ home'[ws] = None
        BY <1>5 DEF Coming, Deleted
    <2> QED BY <1>1, <1>3, <2>1, <2>2 DEF Deleted
<1>8. "unlink" \in Past(k + 1)' => "unlink" \in Past(k)
    BY <1>1, <1>2
<1> QED BY <1>4, <1>6, <1>7, <1>8

\* Nothing that Coming speaks of changes.
LEMMA ComingKept ==
    ASSUME NEW k \in 0..Length, Coming(k),
           UNCHANGED <<plan, policy, todo, ws, branch, confirmed, log, home, linked, kept,
           regions,
                       lastErr>>
    PROVE  Coming(k)'
<1>1. Left(k)' /\ Located(k)' /\ Asked(k)'
    BY DEF Coming, Left, Rest, Length, StepOf, Located, Asked, Past
<1>2. Logged(k)' /\ Carried(k)'
    BY DEF Coming, Logged, Carried, StepOf, Length
<1>3. Once(k)'
    BY DEF Coming, Once, InOrder, StepOf
<1>4. Scoped' /\ Deleted(k)' /\ Unlinked(k)'
    BY DEF Coming, Scoped, Deleted, Unlinked, Past, Rest, StepOf, Length
<1>5. Searched(k)'
    BY DEF Coming, Searched, StepOf, Length
<1> QED BY <1>1, <1>2, <1>3, <1>4, <1>5 DEF Coming

\* When a request fails nothing is known, and it is sent again or given up.
LEMMA FailedStep ==
    ASSUME Handling!Assumptions, HandlerInv, Handling!Failed, UNCHANGED <<Handling!world, log,
    Handling!fixed, Handling!found, ws, branch, confirmed, kept>>
    PROVE  HandlerInv'
<1>1. CASE Handling!Stop("error")
    <2>0. tries' = tries \/ (tries < Retries /\ tries' = tries + 1)
        BY DEF Handling!Failed
    <2>1. Typed'
        BY <1>1, <2>0 DEF HandlerInv, Typed, Handling!TypeOK, Handling!Stop, Handling!world,
           Handling!fixed, Handling!Assumptions
    <2> QED BY <1>1, <2>1, Fails DEF Handling!fixed
<1>2. CASE plan.retries /\ tries < Retries /\ tries' = tries + 1 /\ UNCHANGED <<todo, outcome>>
    <2>1. Typed'
        BY <1>2 DEF HandlerInv, Typed, Handling!TypeOK, Handling!world, Handling!fixed,
           Handling!Assumptions
    <2>2. UNCHANGED <<plan, policy, todo, outcome, ws, branch, confirmed, log, home, linked, kept,
                      regions, lastErr>>
        BY <1>2 DEF Handling!world, Handling!fixed, Handling!found
    <2>3. Handling!ConfirmedOnly' /\ Handling!AtMostOnce' /\ Handling!PolicyHolds' /\ Handling!OutcomeIsTrue'
        BY <2>2 DEF HandlerInv, Handling!ConfirmedOnly, Handling!AtMostOnce, Handling!PolicyHolds,
           Handling!OutcomeIsTrue, Handling!Steps, Handling!Writing
    <2>5. outcome' = "none" => Handling!allows(plan)' /\ \E k \in (0..Length)' : Coming(k)'
        BY <2>2, ComingKept DEF HandlerInv, Handling!allows, Length
    <2> QED BY <2>1, <2>3, <2>5 DEF HandlerInv
<1> QED BY <1>1, <1>2 DEF Handling!Failed

\* A request that is carried out, whatever becomes of its answer.
LEMMA CarriedOutStep ==
    ASSUME Handling!Assumptions, HandlerInv, outcome = "none", todo # <<>>, Head(todo) \notin Handling!Kinds, Handling!Known,
           Handling!CarryOut(Head(todo)),
           log' = Append(log, [op |-> Head(todo), target |-> Handling!WriteTarget]),
           (Handling!Advance /\ tries' = 0) \/ Handling!Failed,
           UNCHANGED <<Handling!fixed, Handling!found, ws, branch, confirmed, kept>>
    PROVE  HandlerInv'
<1>t. Typed /\ Handling!allows(plan)
    BY DEF HandlerInv
<1>1. PICK k \in 0..Length : Coming(k)
    BY DEF HandlerInv
<1>2. /\ k + 1 \in 1..Length /\ StepOf(k + 1) = Head(todo)
      /\ todo = Rest(k) /\ Tail(todo) = Rest(k + 1)
    BY <1>1, NextStep DEF Coming, HandlerInv, Handling!Kinds
<1>3. Entry.op = Head(todo) /\ Entry \in [op : STRING, target : Handling!Targets] /\ log' = Append(log, Entry)
    <2>1. Head(todo) \in STRING
        BY <1>t, <1>2, PlanFacts
    <2> QED BY <2>1 DEF Entry, Handling!WriteTarget, Handling!Target, Handling!Targets,
             HandlerInv, Typed, Handling!TypeOK
<1>4. /\ DOMAIN log' = DOMAIN log \union {Len(log) + 1} /\ log' \in Seq(Entries)
      /\ \A i \in DOMAIN log : log'[i] = log[i]
      /\ log'[Len(log) + 1] = Entry
    BY <1>t, <1>3, Written
<1>u. /\ UNCHANGED <<plan, policy, args, regions, lastErr, region, linked, others>>
      /\ outcome' \in {"none", "error"}
    BY DEF Handling!fixed, Handling!found, Handling!CarryOut, Handling!Advance, Handling!Failed,
       Handling!Stop
<1>5. Typed'
    <2>1. home' \in [Workspaces -> {Regions[i] : i \in DOMAIN Regions} \union {None}]
        BY <1>t DEF Typed, Handling!TypeOK, Handling!CarryOut
    <2>2. default' \in [Workspaces -> Branches]
        <3>1. Head(todo) = "SetAsDefaultBranch" => branch # None
            BY <1>t, <1>2, PlanFacts DEF Handling!WellFormed, Typed
        <3> QED BY <1>t, <3>1 DEF Typed, Handling!TypeOK, Handling!CarryOut
    <2>3. \A i \in DOMAIN log' : log'[i].target \in Handling!Targets
        BY <1>t, <1>3, <1>4, LogFacts
    <2>4. tries' \in 0..Retries
        BY <1>t DEF Typed, Handling!TypeOK, Handling!Failed, Handling!Stop, Handling!Assumptions
    <2> QED BY <1>t, <1>4, <1>u, <2>1, <2>2, <2>3, <2>4 DEF Typed, Handling!TypeOK
<1>6. Handling!ConfirmedOnly' /\ Handling!PolicyHolds'
    BY <1>t, <1>1, <1>2, <1>3, <1>u, WrittenAsAsked
<1>7. Once(k + 1)'
    <2>1. CASE plan.retries
        BY <2>1, <1>u DEF Once
    <2>2. CASE ~plan.retries
        BY <1>t, <1>1, <1>2, <1>3, <1>u, <2>2, WrittenOnce DEF Coming
    <2> QED BY <2>1, <2>2
<1>8. Handling!AtMostOnce'
    <2>1. CASE plan.retries
        BY <2>1, <1>u DEF Handling!AtMostOnce
    <2>2. k + 1 \in 0..Length
        BY <1>2
    <2> QED BY <1>t, <1>u, <1>7, <2>2, OnceInOrder
<1>9. CASE Handling!Stop("error")
    BY <1>5, <1>6, <1>8, <1>9 DEF HandlerInv, Handling!OutcomeIsTrue, Handling!Stop
<1>c. /\ Located(k)' /\ Asked(k)' /\ Searched(k)' /\ Scoped' /\ Deleted(k)'
      /\ Located(k + 1)' /\ Asked(k + 1)' /\ Searched(k + 1)' /\ Deleted(k + 1)'
      /\ "unlink" \in Past(k + 1)' => "unlink" \in Past(k)
    BY <1>1, <1>2, <1>t, <1>u, CarriedOut
<1>10. ASSUME outcome' = "none", NEW n \in {k, k + 1}, Left(n)', Logged(n)', Carried(n)', Once(n)',
              Unlinked(n)'
       PROVE  HandlerInv'
    <2>1. Coming(n)'
        BY <1>10, <1>c DEF Coming
    <2>2. n \in (0..Length)' /\ Handling!allows(plan)'
        BY <1>t, <1>2, <1>u DEF Length, Handling!allows
    <2> QED BY <1>5, <1>6, <1>8, <1>10, <2>1, <2>2 DEF HandlerInv, Handling!OutcomeIsTrue
<1>11. Logged(k)' /\ Logged(k + 1)'
    <2>1. \A i \in DOMAIN log : \E j \in 1..(k + 1) : j <= Length /\ log[i].op = StepOf(j)
        BY <1>1 DEF Coming, Logged
    <2>2. \A i \in DOMAIN log' : \E j \in 1..(k + 1) : j <= Length /\ log'[i].op = StepOf(j)
        BY SMTT(60), <1>2, <1>3, <1>4, <2>1
    <2>3. \A i \in DOMAIN log' : \E j \in 1..((k + 1) + 1) : j <= Length /\ log'[i].op = StepOf(j)
        BY <2>2
    <2> QED BY <1>u, <2>2, <2>3 DEF Logged, Length, StepOf
<1>12. Carried(k)' /\ Carried(k + 1)'
    <2>1. \A j \in 1..(k + 1) : StepOf(j) \notin Handling!Kinds => \E i \in DOMAIN log' : log'[i].op = StepOf(j)
        <3> SUFFICES ASSUME NEW j \in 1..(k + 1), StepOf(j) \notin Handling!Kinds
                     PROVE  \E i \in DOMAIN log' : log'[i].op = StepOf(j)
            OBVIOUS
        <3>1. CASE j = k + 1
            BY <1>2, <1>3, <1>4, <3>1
        <3>2. CASE j \in 1..k
            BY <1>1, <1>4, <3>2 DEF Coming, Carried
        <3> QED BY <3>1, <3>2
    <2> QED BY <1>u, <2>1 DEF Carried, StepOf
<1>13. CASE Handling!Advance /\ tries' = 0
    <2>1. Left(k + 1)' /\ outcome' = "none"
        BY <1>2, <1>13, <1>u DEF Left, Rest, Length, Handling!Advance
    <2>2. Unlinked(k + 1)'
        BY <1>1, <1>2, <1>u, <1>c DEF Coming, Unlinked
    <2> QED BY <1>7, <1>10, <1>11, <1>12, <2>1, <2>2
<1>14. CASE plan.retries /\ UNCHANGED <<todo, outcome>>
    <2>1. Left(k)' /\ outcome' = "none"
        BY <1>1, <1>14, <1>u DEF Left, Rest, Length, Coming, StepOf
    <2>2. Unlinked(k)'
        BY <1>1, <1>14, <1>u DEF Coming, Unlinked, Past, Rest, Length, StepOf
    <2>3. Once(k)'
        BY <1>14, <1>u DEF Once
    <2> QED BY <1>10, <1>11, <1>12, <2>1, <2>2, <2>3
<1> QED BY <1>9, <1>13, <1>14 DEF Handling!Failed

\* A write of the plan is sent, and answered, refused or lost.
LEMMA WriteStepHolds == ASSUME Handling!Assumptions, HandlerInv, Handling!WriteStep PROVE HandlerInv'
<1>1. CASE Handling!Failed /\ UNCHANGED <<Handling!world, log>>
    BY <1>1, FailedStep DEF Handling!WriteStep
<1>2. CASE Handling!Stop("error") /\ UNCHANGED <<Handling!world, log, tries>>
    <2>1. Typed'
        BY <1>2 DEF HandlerInv, Typed, Handling!TypeOK, Handling!Stop, Handling!WriteStep,
           Handling!world, Handling!fixed
    <2> QED BY <1>2, <2>1, Fails DEF Handling!fixed, Handling!WriteStep
<1>3. CASE /\ Handling!Known /\ Handling!CarryOut(Head(todo))
           /\ log' = Append(log, [op |-> Head(todo), target |-> Handling!WriteTarget])
           /\ (Handling!Advance /\ tries' = 0) \/ Handling!Failed
    BY <1>3, CarriedOutStep DEF Handling!WriteStep
<1> QED BY <1>1, <1>2, <1>3 DEF Handling!WriteStep

-----------------------------------------------------------------------------
(* The link, the end and the others *)

\* After a delete the workspace of the handler has gone.
LEMMA UnlinkFollows ==
    ASSUME Handling!Assumptions, Typed, NEW k \in 0..Length, "unlink" \in Past(k), Deleted(k)
    PROVE  ws # None /\ home[ws] = None
<1>1. PICK j \in 1..k : StepOf(j) = "unlink"
    BY DEF Past
<1>2. Handling!Follow(plan, {"unlink"}, {"DeleteWorkspace"})
    BY PlanFacts DEF Handling!WellFormed
<1>3. PICK i \in 1..(j - 1) : StepOf(i) = "DeleteWorkspace"
    BY <1>1, <1>2, PlanFacts, SeqFacts DEF Handling!Follow, StepOf, Length
<1>4. "DeleteWorkspace" \in Past(k)
    BY <1>3, PlanFacts DEF Past
<1> QED BY <1>4 DEF Deleted

\* After a delete, the link is compared with what was deleted, if it can be read.
LEMMA CheckLinkStep == ASSUME Handling!Assumptions, HandlerInv, Handling!CheckLink PROVE HandlerInv'
<1>1. Typed'
    BY DEF HandlerInv, Typed, Handling!TypeOK, Handling!CheckLink, Handling!Keep, Handling!world,
       Handling!fixed, Handling!found, Handling!At
<1>t. Typed /\ outcome = "none" /\ todo # <<>>
    BY DEF HandlerInv, Handling!CheckLink, Handling!At
<1>2. PICK k \in 0..Length : Coming(k)
    BY DEF HandlerInv, Handling!At, Handling!CheckLink
<1>3. /\ k + 1 \in 1..Length /\ StepOf(k + 1) = "unlink"
      /\ todo = Rest(k) /\ Tail(todo) = Rest(k + 1)
      /\ Past(k + 1) = Past(k) \union {"unlink"}
    BY <1>2, <1>t, NextStep DEF Handling!At, Coming, Handling!CheckLink
<1>u. UNCHANGED <<plan, policy, home, linked, ws, branch, confirmed, log, regions, lastErr, outcome>>
    BY DEF Handling!CheckLink, Handling!Keep, Handling!fixed, Handling!world, Handling!found
<1>p. /\ Past(k + 1)' = Past(k) \union {"unlink"} /\ Rest(k + 1)' = Rest(k + 1)
      /\ Length' = Length
    BY <1>3, <1>u DEF Past, StepOf, Rest, Length
<1>4. Logged(k + 1)' /\ Carried(k + 1)' /\ Once(k + 1)'
    <2>1. StepOf(k + 1) \in Handling!Kinds
        BY <1>3 DEF Handling!Kinds
    <2> QED BY <1>2, <1>3, <1>t, <1>u, <2>1, LogBehind DEF Coming
<1>5. Handling!ConfirmedOnly' /\ Handling!AtMostOnce' /\ Handling!PolicyHolds'
    BY <1>t, <1>u, LogKept
<1>6. Rest(k + 1) \in Seq(STRING)
    BY <1>3, <1>t, PlanFacts, SuffixFacts DEF Rest, Length
<1>7. \/ todo' = (IF linked = ws THEN <<"clear">> \o Rest(k + 1) ELSE Rest(k + 1)) /\ kept' = kept
      \/ todo' = Rest(k + 1) /\ kept' = TRUE
    BY <1>3, <1>6, ConcatEmptySeq DEF Handling!CheckLink
<1>8. Left(k + 1)' /\ Unlinked(k + 1)'
    <2>1. k + 1 > 0 /\ StepOf(k + 1)' = "unlink"
        BY <1>3, <1>u DEF StepOf
    <2>2. Left(k + 1)'
        BY <1>7, <1>p, <2>1 DEF Left
    <2>3. <<"clear">> \o Rest(k + 1) # Rest(k + 1)
        <3>1. Len(<<"clear">> \o Rest(k + 1)) = Len(Rest(k + 1)) + 1 /\ Len(Rest(k + 1)) \in Nat
            BY <1>6
        <3> QED BY <3>1
    <2>4. Unlinked(k + 1)'
        BY <1>7, <1>p, <1>u, <2>3 DEF Unlinked
    <2> QED BY <2>2, <2>4
<1>9. Located(k + 1)' /\ Asked(k + 1)' /\ Scoped' /\ Deleted(k + 1)'
    BY <1>2, <1>p, <1>u DEF Coming, Located, Asked, Scoped, Deleted, Locating
<1>10. Searched(k + 1)'
    <2>1. Length \in Nat /\ k \in Nat
        BY <1>t, PlanFacts
    <2>2. PICK r \in 0..Len(Regions) :
            /\ regions = SubSeq(Regions, r + 1, Len(Regions))
            /\ lastErr \/ \A i \in 1..r : ws # None /\ home[ws] # Regions[i]
            /\ r > 0 \/ lastErr => \A j \in (k + 1)..Length : StepOf(j) \notin Locating
        BY <1>2 DEF Coming, Searched
    <2>3. r > 0 \/ lastErr => \A j \in ((k + 1) + 1)..Length : StepOf(j) \notin Locating
        BY <2>1, <2>2
    <2> QED BY <1>u, <2>2, <2>3 DEF Searched, StepOf, Length
<1>11. Coming(k + 1)'
    BY <1>4, <1>8, <1>9, <1>10 DEF Coming
<1>12. outcome' = "none" /\ Handling!allows(plan)' /\ k + 1 \in (0..Length)'
    BY <1>3, <1>t, <1>u, <1>p DEF HandlerInv, Handling!allows
<1> QED BY <1>1, <1>5, <1>11, <1>12 DEF HandlerInv, Handling!OutcomeIsTrue

\* The link to what was deleted is removed, or cannot be.
LEMMA UnlinkStep == ASSUME Handling!Assumptions, HandlerInv, Handling!Unlink PROVE HandlerInv'
<1>1. Typed'
    BY DEF HandlerInv, Typed, Handling!TypeOK, Handling!Unlink, Handling!fixed, Handling!found,
       Handling!Advance, Handling!At
<1>t. Typed /\ outcome = "none" /\ todo # <<>>
    BY DEF HandlerInv, Handling!Unlink, Handling!At
<1>2. PICK k \in 0..Length : Coming(k)
    BY DEF HandlerInv, Handling!At, Handling!Unlink
<1>3. k > 0 /\ StepOf(k) = "unlink" /\ Tail(todo) = Rest(k)
    BY <1>2, <1>t, ClearStep DEF Handling!At, Coming, Handling!Unlink
<1>u. UNCHANGED <<plan, policy, home, ws, branch, confirmed, log, regions, lastErr, outcome>>
    BY DEF Handling!Unlink, Handling!fixed, Handling!found, Handling!Advance
<1>4. ws # None
    <2>1. "unlink" \in Past(k)
        BY <1>3 DEF Past
    <2> QED BY <1>2, <1>t, <2>1, UnlinkFollows DEF Coming
<1>5. Handling!ConfirmedOnly' /\ Handling!AtMostOnce' /\ Handling!PolicyHolds'
    BY <1>t, <1>u, LogKept
<1>6. Left(k)' /\ Unlinked(k)'
    <2>1. todo' = Rest(k)'
        BY <1>3, <1>u DEF Handling!Unlink, Handling!Advance, Rest, Length
    <2>2. linked' # ws' \/ kept'
        BY <1>4, <1>u DEF Handling!Unlink
    <2> QED BY <2>1, <2>2 DEF Left, Unlinked
<1>7. Located(k)' /\ Asked(k)' /\ Scoped' /\ Deleted(k)'
    BY <1>2, <1>u DEF Coming, Located, Asked, Scoped, Deleted, Past, StepOf
<1>8. Logged(k)' /\ Carried(k)'
    BY <1>2, <1>u DEF Coming, Logged, Carried, StepOf, Length
<1>9. Once(k)'
    BY <1>2, <1>u DEF Coming, Once, InOrder, StepOf
<1>10. Searched(k)'
    BY <1>2, <1>u DEF Coming, Searched, StepOf, Length
<1>11. Coming(k)'
    BY <1>6, <1>7, <1>8, <1>9, <1>10 DEF Coming
<1>12. outcome' = "none" /\ Handling!allows(plan)' /\ k \in (0..Length)'
    BY <1>t, <1>u DEF HandlerInv, Handling!allows, Length
<1> QED BY <1>1, <1>5, <1>11, <1>12 DEF HandlerInv, Handling!OutcomeIsTrue

\* A handler that has come to its end has written all, and left no link.
LEMMA DoneStep == ASSUME Handling!Assumptions, HandlerInv, Handling!Done PROVE HandlerInv'
<1>1. Typed'
    BY DEF HandlerInv, Typed, Handling!TypeOK, Handling!Done, Handling!Keep, Handling!world,
       Handling!fixed, Handling!found
<1>t. Typed
    BY DEF HandlerInv
<1>u. UNCHANGED <<plan, policy, confirmed, log, home, linked, ws, kept>> /\ outcome' = "ok"
    BY DEF Handling!Done, Handling!Keep, Handling!fixed, Handling!world
<1>2. PICK k \in 0..Length : Coming(k)
    BY DEF HandlerInv, Handling!Done
<1>3. k = Length /\ todo = Rest(k)
    BY <1>2, <1>t, LastStep DEF Handling!Done, Coming
<1>4. Past(k) = Handling!Steps(plan)
    BY <1>3, <1>t, PlanFacts, SeqFacts DEF Past, Handling!Steps, StepOf, Length
<1>5. \A w \in Handling!Writing(plan) : \E i \in DOMAIN log : log[i].op = w
    BY <1>2, <1>4 DEF Coming, Carried, Handling!Writing, Past
<1>6. "unlink" \in Handling!Steps(plan) => home[ws] = None /\ (linked # ws \/ kept)
    BY <1>2, <1>3, <1>4, <1>t, UnlinkFollows DEF Coming, Unlinked
<1>7. Handling!OutcomeIsTrue'
    BY <1>5, <1>6, <1>u DEF Handling!OutcomeIsTrue, Handling!Writing, Handling!Steps
<1>8. Handling!ConfirmedOnly' /\ Handling!AtMostOnce' /\ Handling!PolicyHolds'
    BY <1>u, LogKept
<1> QED BY <1>1, <1>u, <1>7, <1>8 DEF HandlerInv

\* Others delete workspaces and link the directory to one that is there.
LEMMA OtherStep == ASSUME Handling!Assumptions, HandlerInv, Handling!Other PROVE HandlerInv'
<1>1. Typed'
    <2>1. PICK w \in Workspaces :
            \/ \E b \in Branches : default' = [default EXCEPT ![w] = b] /\ UNCHANGED <<home, linked>>
            \/ home' = [home EXCEPT ![w] = None] /\ UNCHANGED <<default, linked>>
            \/ linked' = w /\ UNCHANGED <<home, default>>
        BY DEF Handling!Other
    <2>2. home' \in [Workspaces -> {Regions[i] : i \in DOMAIN Regions} \union {None}]
        BY <2>1 DEF HandlerInv, Typed, Handling!TypeOK
    <2>3. default' \in [Workspaces -> Branches] /\ linked' \in Workspaces \union {None}
        BY <2>1 DEF HandlerInv, Typed, Handling!TypeOK
    <2>4. others' \in 0..Others
        BY DEF HandlerInv, Typed, Handling!TypeOK, Handling!Other, Handling!Assumptions
    <2> QED BY <2>2, <2>3, <2>4 DEF HandlerInv, Typed, Handling!TypeOK, Handling!Other,
             Handling!fixed, Handling!found
<1>t. Typed /\ outcome = "none"
    BY DEF HandlerInv, Handling!Other
<1>u. UNCHANGED <<plan, policy, ws, branch, confirmed, log, kept, regions, lastErr, outcome, todo>>
    BY DEF Handling!Other, Handling!fixed, Handling!found
<1>2. PICK k \in 0..Length : Coming(k)
    BY <1>t DEF HandlerInv
<1>h. ws # None => home'[ws] = home[ws] \/ home'[ws] = None
    <2>1. home' = home \/ \E w \in Workspaces : home' = [home EXCEPT ![w] = None]
        BY DEF Handling!Other
    <2> QED BY <1>t, <2>1 DEF Typed, Handling!TypeOK
<1>5. Handling!ConfirmedOnly' /\ Handling!AtMostOnce' /\ Handling!PolicyHolds'
    BY <1>t, <1>u, LogKept
<1>6. Left(k)' /\ Located(k)' /\ Asked(k)' /\ Scoped' /\ Deleted(k)'
    BY <1>2, <1>u, <1>h DEF Coming, Left, Located, Asked, Scoped, Deleted, Past, StepOf, Rest,
       Length
<1>7. Unlinked(k)'
    <2> SUFFICES ASSUME "unlink" \in Past(k), todo = Rest(k)
                 PROVE  linked' # ws \/ kept
        BY <1>u DEF Unlinked, Past, StepOf, Rest, Length
    <2>1. linked # ws \/ kept
        BY <1>2 DEF Coming, Unlinked
    <2>2. home[ws] = None
        BY <1>2, <1>t, UnlinkFollows DEF Coming
    <2>3. linked' = linked \/ \E w \in Workspaces : home[w] # None /\ linked' = w
        BY DEF Handling!Other
    <2> QED BY <2>1, <2>2, <2>3
<1>8. Logged(k)' /\ Carried(k)'
    BY <1>2, <1>u DEF Coming, Logged, Carried, StepOf, Length
<1>9. Once(k)'
    BY <1>2, <1>u DEF Coming, Once, InOrder, StepOf
<1>10. Searched(k)'
    <2>1. PICK r \in 0..Len(Regions) :
            /\ regions = SubSeq(Regions, r + 1, Len(Regions))
            /\ lastErr \/ \A i \in 1..r : ws # None /\ home[ws] # Regions[i]
            /\ r > 0 \/ lastErr => \A j \in (k + 1)..Length : StepOf(j) \notin Locating
        BY <1>2 DEF Coming, Searched
    <2>2. \A i \in 1..r : Regions[i] # None
        BY SeqFacts DEF Handling!Assumptions
    <2>3. lastErr' \/ \A i \in 1..r : ws' # None /\ home'[ws'] # Regions[i]
        BY <1>u, <1>h, <2>1, <2>2
    <2> QED BY <1>u, <2>1, <2>3 DEF Searched, StepOf, Length
<1>11. Coming(k)'
    BY <1>6, <1>7, <1>8, <1>9, <1>10 DEF Coming
<1>12. outcome' = "none" /\ Handling!allows(plan)' /\ k \in (0..Length)'
    BY <1>t, <1>u DEF HandlerInv, Handling!allows, Length
<1> QED BY <1>1, <1>5, <1>11, <1>12 DEF HandlerInv, Handling!OutcomeIsTrue

-----------------------------------------------------------------------------
(* The theorems *)

\* The invariant holds at first.
LEMMA HandlerInvInit == ASSUME Handling!Assumptions PROVE Handling!Init => HandlerInv
<1> SUFFICES ASSUME Handling!Init PROVE HandlerInv
    OBVIOUS
<1>0. plan \in Handlers /\ Handling!WellFormed(plan) /\ args \in Handling!Arguments(plan)
    BY DEF Handling!Init, Handling!Assumptions
<1>1. Typed
    <2>1. /\ args \in [ws : Workspaces \union {None}, branch : Branches \union {None}, env : BOOLEAN]
          /\ plan.branch = "given" => args.branch # None
        BY <1>0 DEF Handling!Arguments
    <2>2. branch \in Branches \union {None} /\ (plan.branch = "given" => branch # None)
        BY <2>1 DEF Handling!Init
    <2>3. log \in Seq(Entries) /\ \A i \in DOMAIN log : log[i].target \in Handling!Targets
        BY EmptySeq DEF Handling!Init
    <2>4. others \in 0..Others /\ tries \in 0..Retries
        BY DEF Handling!Init, Handling!Assumptions
    <2>5. outcome \in {"none", "refused"}
        BY DEF Handling!Init
    <2> QED BY <2>1, <2>2, <2>3, <2>4, <2>5 DEF Handling!Init, Typed, Handling!TypeOK, Policies
<1>2. log = <<>> /\ DOMAIN log = {}
    BY DEF Handling!Init
<1>e. \A S : \E at \in [DOMAIN log -> S] : TRUE
    <2>1. \A S : [i \in DOMAIN log |-> 0] \in [DOMAIN log -> S]
        BY <1>2
    <2> QED BY <2>1
<1>3. Handling!ConfirmedOnly /\ Handling!OutcomeIsTrue /\ Handling!PolicyHolds
    BY <1>2 DEF Handling!Init, Handling!ConfirmedOnly, Handling!OutcomeIsTrue, Handling!PolicyHolds
<1>4. Handling!AtMostOnce
    BY <1>2, <1>e DEF Handling!AtMostOnce
<1>5. ASSUME outcome = "none"
      PROVE  Handling!allows(plan) /\ Coming(0)
    <2>1. Handling!allows(plan) /\ todo = plan.steps
        BY <1>5 DEF Handling!Init
    <2>2. Past(0) = {}
        BY DEF Past
    <2>3. Left(0)
        BY <1>1, <2>1, PlanFacts, SubSeqFull DEF Left, Rest, Length
    <2>4. Logged(0) /\ Carried(0) /\ Once(0)
        BY <1>2, <1>e DEF Logged, Carried, Once, InOrder
    <2>5. Searched(0)
        <3>1. Regions \in Seq(STRING) /\ Len(Regions) \in Nat
            BY DEF Handling!Assumptions
        <3>2. regions = SubSeq(Regions, 0 + 1, Len(Regions)) /\ lastErr = FALSE
            BY <3>1, SubSeqFull DEF Handling!Init
        <3> QED BY <3>1, <3>2 DEF Searched
    <2>6. Located(0) /\ Asked(0) /\ Scoped /\ Deleted(0) /\ Unlinked(0)
        BY <2>2 DEF Located, Asked, Scoped, Deleted, Unlinked, Handling!Init
    <2> QED BY <2>1, <2>3, <2>4, <2>5, <2>6 DEF Coming
<1>6. 0 \in 0..Length
    BY <1>1, PlanFacts
<1> QED BY <1>1, <1>3, <1>4, <1>5, <1>6 DEF HandlerInv

\* The invariant is inductive.
LEMMA HandlerInvNext == ASSUME Handling!Assumptions PROVE HandlerInv /\ [Handling!Next]_handlerVars => HandlerInv'
<1> SUFFICES ASSUME HandlerInv, [Handling!Next]_handlerVars PROVE HandlerInv'
    OBVIOUS
<1>1. CASE UNCHANGED handlerVars
    <2>1. UNCHANGED <<home, default, linked, others, policy, plan, args, todo, regions, lastErr,
                      region, ws, branch, confirmed, tries, log, kept, outcome>>
        BY <1>1 DEF handlerVars
    <2>2. Typed'
        BY <2>1 DEF HandlerInv, Typed, Handling!TypeOK
    <2>3. Handling!ConfirmedOnly' /\ Handling!AtMostOnce' /\ Handling!PolicyHolds' /\ Handling!OutcomeIsTrue'
        BY <2>1 DEF HandlerInv, Handling!ConfirmedOnly, Handling!AtMostOnce, Handling!PolicyHolds,
           Handling!OutcomeIsTrue, Handling!Steps, Handling!Writing
    <2>4. outcome' = "none" => Handling!allows(plan)' /\ \E k \in (0..Length)' : Coming(k)'
        BY <2>1, ComingKept DEF HandlerInv, Handling!allows, Length
    <2> QED BY <2>2, <2>3, <2>4 DEF HandlerInv
<1>2. CASE Handling!Resolve
    BY <1>2, ResolveStep
<1>3. CASE Handling!resolveWorkspace
    BY <1>3, ScopeStep
<1>4. CASE Handling!Unscoped
    BY <1>4, UnscopedStep
<1>5. CASE Handling!AskRegion
    BY <1>5, AskRegionStep
<1>6. CASE Handling!AllRegionsAsked
    BY <1>6, AllRegionsAskedStep
<1>7. CASE Handling!resolveBranchID
    BY <1>7, ResolveBranchStep
<1>8. CASE Handling!Read
    BY <1>8, ReadStep
<1>9. CASE Handling!Confirm
    BY <1>9, ConfirmStep
<1>10. CASE Handling!Check
    BY <1>10, CheckStep
<1>11. CASE Handling!WriteStep
    BY <1>11, WriteStepHolds
<1>12. CASE Handling!CheckLink
    BY <1>12, CheckLinkStep
<1>13. CASE Handling!Unlink
    BY <1>13, UnlinkStep
<1>14. CASE Handling!Done
    BY <1>14, DoneStep
<1>15. CASE Handling!Other
    BY <1>15, OtherStep
<1> QED BY <1>1, <1>2, <1>3, <1>4, <1>5, <1>6, <1>7, <1>8, <1>9, <1>10, <1>11, <1>12, <1>13, <1>14,
           <1>15 DEF Handling!Next

\* The invariant holds always.
LEMMA HandlerInvAlways == ASSUME Handling!Assumptions PROVE Handling!Spec => []HandlerInv
<1>1. [Handling!Next]_(Handling!vars) => [Handling!Next]_handlerVars
    BY DEF Handling!vars, Handling!world, Handling!fixed, Handling!found, handlerVars
<1> QED BY <1>1, HandlerInvInit, HandlerInvNext, PTL DEF Handling!Spec

\* Every variable keeps its type, and the arguments theirs.
THEOREM HandlerTypes == ASSUME Handling!Assumptions PROVE Handling!Spec => []Handling!TypeOK
<1>1. HandlerInv => Handling!TypeOK
    BY DEF HandlerInv, Typed
<1> QED BY <1>1, HandlerInvAlways, PTL

\* A command that asks writes only after a yes, and what the prompt showed.
THEOREM ConfirmedOnlyAlways == ASSUME Handling!Assumptions PROVE Handling!Spec => []Handling!ConfirmedOnly
<1>1. HandlerInv => Handling!ConfirmedOnly
    BY DEF HandlerInv
<1> QED BY <1>1, HandlerInvAlways, PTL

\* With the client for writing no write is carried out twice, left out or
\* out of order.
THEOREM AtMostOnceAlways == ASSUME Handling!Assumptions PROVE Handling!Spec => []Handling!AtMostOnce
<1>1. HandlerInv => Handling!AtMostOnce
    BY DEF HandlerInv
<1> QED BY <1>1, HandlerInvAlways, PTL

\* What a handler ends with is true: of its writes, of the link, of the search.
THEOREM OutcomeIsTrueAlways == ASSUME Handling!Assumptions PROVE Handling!Spec => []Handling!OutcomeIsTrue
<1>1. HandlerInv => Handling!OutcomeIsTrue
    BY DEF HandlerInv
<1> QED BY <1>1, HandlerInvAlways, PTL

\* A read-only server changes nothing, and one with a scope writes to no other.
THEOREM PolicyHoldsAlways == ASSUME Handling!Assumptions PROVE Handling!Spec => []Handling!PolicyHolds
<1>1. HandlerInv => Handling!PolicyHolds
    BY DEF HandlerInv
<1> QED BY <1>1, HandlerInvAlways, PTL

-----------------------------------------------------------------------------
(* All commands: the invariants of the other modules, for their instances *)

Served ==
    INSTANCE SourcesAndProgramProofs
        WITH Slugs <- {"a", "b"}, Branches <- {"main", "dev"}, Calls <- 2, Edits <- 1,
             Initial <- {<<"a", "index.ts">>, <<"a", "helper.ts">>, <<"a", "deno.json">>,
                         <<"_shared", "util.ts">>},
             default <- main, todo <- left, outcome <- result,
             Ids <- {"s1", "s2", "s3"}, Matching <- {"s1", "s2"}, Limit <- 2, Changes <- 1,
             summary <- end,
             Procs <- 1..3, Starts <- 3, proc <- launchers,
             Hosts <- MCWorkspaces, Commits <- MCBranches, Last <- 3, Runs <- 3

\* The one that runs keeps its invariant.  The links do in every behavior: when
\* another runs they rest in a first state of theirs.
AllInv ==
    /\ which = "handler" => HandlerInv
    /\ which = "sources" => Served!IInv
    /\ which = "kill" => Served!KillInv
    /\ LinkInvariant
    /\ which = "launcher" => Served!LockInv /\ Served!SharedType
    /\ which = "release" => Served!ReleaseInv

\* Both instances of FunctionSources are the same,
LEMMA SameSources ==
    /\ Sources!Assumptions <=> Served!Assumptions
    /\ Sources!Init <=> Served!Init
    /\ [Sources!Next]_sourcesVars => [Served!Next]_(Served!vars)
<1>1. Sources!Assumptions <=> Served!Assumptions
    BY DEF Sources!Assumptions, Served!Assumptions
<1> USE DEF Sources!Paths, Served!Paths, Sources!Names, Served!Names,
         Sources!shared, Served!shared, Sources!PythonFiles, Served!PythonFiles,
         Sources!Exists, Served!Exists, Sources!NoFunction, Served!NoFunction,
         Sources!environment, Served!environment, Sources!walk, Served!walk
<1>2. Sources!Init <=> Served!Init
    BY DEF Sources!Init, Served!Init
<1> USE DEF Sources!Start, Served!Start, Sources!End, Served!End, Sources!Going, Served!Going,
         Sources!Ended, Served!Ended
<1>3. Sources!CallNew <=> Served!CallNew
    BY DEF Sources!CallNew, Served!CallNew, Sources!New, Served!New
<1>4. Sources!CreateFile <=> Served!CreateFile
    BY DEF Sources!CreateFile, Served!CreateFile
<1>5. Sources!appendConfigFile <=> Served!appendConfigFile
    BY DEF Sources!appendConfigFile, Served!appendConfigFile
<1>6. Sources!CallDeploy <=> Served!CallDeploy
    BY DEF Sources!CallDeploy, Served!CallDeploy, Sources!AllFunctions, Served!AllFunctions
<1>7. Sources!Skip <=> Served!Skip
    BY DEF Sources!Skip, Served!Skip
<1>8. Sources!BeginFunction <=> Served!BeginFunction
    BY DEF Sources!BeginFunction, Served!BeginFunction, Sources!Entrypoint, Served!Entrypoint,
         Sources!Python, Served!Python
<1>9. Sources!WalkFile <=> Served!WalkFile
    BY DEF Sources!WalkFile, Served!WalkFile, Sources!Imports, Served!Imports
<1>10. Sources!deployVolcengineFunction <=> Served!deployVolcengineFunction
    BY DEF Sources!deployVolcengineFunction, Served!deployVolcengineFunction,
         Sources!Files, Served!Files, Sources!DeployTo, Served!DeployTo
<1>11. Sources!DeployReturns <=> Served!DeployReturns
    BY DEF Sources!DeployReturns, Served!DeployReturns
<1>12. Sources!CallDownload <=> Served!CallDownload
    BY DEF Sources!CallDownload, Served!CallDownload
<1>13. Sources!GetBody <=> Served!GetBody
    BY DEF Sources!GetBody, Served!GetBody
<1>14. Sources!WriteDownloaded <=> Served!WriteDownloaded
    BY DEF Sources!WriteDownloaded, Served!WriteDownloaded,
         Sources!DownloadPath, Served!DownloadPath
<1>15. Sources!DownloadReturns <=> Served!DownloadReturns
    BY DEF Sources!DownloadReturns, Served!DownloadReturns
<1>16. Sources!RequestFails <=> Served!RequestFails
    BY DEF Sources!RequestFails, Served!RequestFails
<1>17. Sources!Edit <=> Served!Edit
    BY DEF Sources!Edit, Served!Edit, Sources!run, Served!run
<1>18. Sources!Next <=> Served!Next
    BY <1>3, <1>4, <1>5, <1>6, <1>7, <1>8, <1>9, <1>10, <1>11, <1>12, <1>13, <1>14, <1>15, <1>16,
       <1>17
    DEF Sources!Next, Served!Next
<1> QED BY <1>1, <1>2, <1>18 DEF sourcesVars, Served!vars, Served!run

\* of Sandboxes,
LEMMA SameKill ==
    /\ Kill!Assumptions <=> Served!Killing!Assumptions
    /\ Kill!Init <=> Served!Killing!Init
    /\ [Kill!Next]_killVars => [Served!Killing!Next]_(Served!Killing!vars)
<1>1. Kill!Assumptions <=> Served!Killing!Assumptions
    BY DEF Kill!Assumptions, Served!Killing!Assumptions, Kill!IsFiniteSet,
         Served!Killing!IsFiniteSet
<1>2. Kill!Init <=> Served!Killing!Init
    BY DEF Kill!Init, Served!Killing!Init
<1>3. Kill!Next <=> Served!Killing!Next
    BY DEF Kill!Next, Served!Killing!Next, Kill!Confirm, Served!Killing!Confirm,
         Kill!sandboxDataPlaneClient, Served!Killing!sandboxDataPlaneClient,
         Kill!ListSandboxes, Served!Killing!ListSandboxes, Kill!Listed, Served!Killing!Listed,
         Kill!KillNext, Served!Killing!KillNext, Kill!Kill, Served!Killing!Kill,
         Kill!Summary, Served!Killing!Summary, Kill!Change, Served!Killing!Change,
         Kill!Stop, Served!Killing!Stop, Kill!Cardinality, Served!Killing!Cardinality
<1> QED BY <1>1, <1>2, <1>3 DEF killVars, Served!Killing!vars

\* of Launcher,
LEMMA SameLaunch ==
    /\ Launch!Assumptions <=> Served!Launch!Assumptions
    /\ Launch!Init <=> Served!Launch!Init
    /\ [Launch!Next]_launchVars => [Served!Launch!Next]_(Served!Launch!vars)
<1> USE DEF Launch!Kinds, Served!Launch!Kinds, Launch!Ended, Served!Launch!Ended,
         Launch!Cached, Served!Launch!Cached, Launch!Goes, Served!Launch!Goes, Launch!Ends, Served!Launch!Ends,
         Launch!Returns, Served!Launch!Returns
<1>1. Launch!Assumptions <=> Served!Launch!Assumptions
    BY DEF Launch!Assumptions, Served!Launch!Assumptions
<1>2. Launch!Init <=> Served!Launch!Init
    BY DEF Launch!Init, Served!Launch!Init
<1>3. Launch!Next <=> Served!Launch!Next
    BY DEF Launch!Next, Served!Launch!Next, Launch!Start, Served!Launch!Start, Launch!Locate,
         Served!Launch!Locate, Launch!StartDetachedDownload,
         Served!Launch!StartDetachedDownload, Launch!MirrorMkdir, Served!Launch!MirrorMkdir,
         Launch!MirrorLink, Served!Launch!MirrorLink, Launch!MirrorPublish,
         Served!Launch!MirrorPublish, Launch!Check, Served!Launch!Check, Launch!Acquire,
         Served!Launch!Acquire, Launch!Stat, Served!Launch!Stat, Launch!Steal,
         Served!Launch!Steal, Launch!Remake, Served!Launch!Remake, Launch!Locked,
         Served!Launch!Locked, Launch!Download, Served!Launch!Download, Launch!Rename,
         Served!Launch!Rename, Launch!Release, Served!Launch!Release, Launch!Wait,
         Served!Launch!Wait, Launch!Kill, Served!Launch!Kill, Launch!Age, Served!Launch!Age
<1> QED BY <1>1, <1>2, <1>3 DEF launchVars, Served!Launch!vars

\* and of Release.
LEMMA SameRelease ==
    /\ Releasing!Assumptions <=> Served!Rel!Assumptions
    /\ Releasing!Init <=> Served!Rel!Init
    /\ [Releasing!Next]_releaseVars => [Served!Rel!Next]_(Served!Rel!vars)
<1>1. Releasing!Assumptions <=> Served!Rel!Assumptions
    BY DEF Releasing!Assumptions, Served!Rel!Assumptions
<1>2. Releasing!Init <=> Served!Rel!Init
    BY DEF Releasing!Init, Served!Rel!Init, Releasing!Packages, Served!Rel!Packages
<1>3. Releasing!Next <=> Served!Rel!Next
    BY DEF Releasing!Next, Served!Rel!Next, Releasing!Start, Served!Rel!Start,
         Releasing!Check, Served!Rel!Check, Releasing!Skip, Served!Rel!Skip,
         Releasing!Publish, Served!Rel!Publish, Releasing!Verify, Served!Rel!Verify,
         Releasing!Stop, Served!Rel!Stop, Releasing!Goes, Served!Rel!Goes,
         Releasing!Found, Served!Rel!Found, Releasing!Resumes, Served!Rel!Resumes,
         Releasing!Advances, Served!Rel!Advances, Releasing!Verified, Served!Rel!Verified,
         Releasing!Packages, Served!Rel!Packages
<1> QED BY <1>1, <1>2, <1>3 DEF releaseVars, Served!Rel!vars

\* What the first states and the steps of the six are.
LEMMA AllInvInit == AllInit => AllInv
<1> SUFFICES ASSUME AllInit PROVE AllInv
    OBVIOUS
<1>1. /\ Handling!Assumptions /\ Served!Assumptions /\ Served!Killing!Assumptions /\ Assumptions
      /\ Served!Launch!Assumptions /\ Served!Rel!Assumptions
    BY AllAssumptions, SameSources, SameKill, SameLaunch, SameRelease
<1>2. LinkInvariant
    <2>1. Init
        BY DEF AllInit, LinkRests
    <2> QED BY <1>1, <2>1, LinkInvariantInit
<1>3. which = "handler" => HandlerInv
    <2>1. which = "handler" => Handling!Init
        BY DEF AllInit
    <2> QED BY <1>1, <2>1, HandlerInvInit
<1>4. which = "sources" => Served!IInv
    <2>1. which = "sources" => Served!Init
        BY SameSources DEF AllInit
    <2> QED BY <1>1, <2>1, Served!IInvInit
<1>5. which = "kill" => Served!KillInv
    <2>1. which = "kill" => Served!Killing!Init
        BY SameKill DEF AllInit
    <2> QED BY <2>1, Served!KillInvInit
<1>6. which = "launcher" => Served!LockInv /\ Served!SharedType
    <2>1. which = "launcher" => Served!Launch!Init
        BY SameLaunch DEF AllInit
    <2> QED BY <1>1, <2>1, Served!LockInit, Served!SharedTypeInit
<1>7. which = "release" => Served!ReleaseInv
    <2>1. which = "release" => Served!Rel!Init
        BY SameRelease DEF AllInit
    <2> QED BY <1>1, <2>1, Served!ReleaseInvInit
<1> QED BY <1>2, <1>3, <1>4, <1>5, <1>6, <1>7 DEF AllInv

\* A step of all is a step of the one that runs, and the others rest.
LEMMA AllStep ==
    ASSUME [AllNext]_allVars
    PROVE  /\ which' = which
           /\ which = "handler" => [Handling!Next]_handlerVars
           /\ which = "sources" => [Sources!Next]_sourcesVars
           /\ which = "kill" => [Kill!Next]_killVars
           /\ [Next]_vars
           /\ which = "launcher" => [Launch!Next]_launchVars
           /\ which = "release" => [Releasing!Next]_releaseVars
<1>1. CASE AllNext
    BY <1>1 DEF AllNext
<1>2. CASE UNCHANGED allVars
    BY <1>2 DEF allVars
<1> QED BY <1>1, <1>2

\* Every step keeps the invariant.
LEMMA AllInvNext == AllInv /\ [AllNext]_allVars => AllInv'
<1> SUFFICES ASSUME AllInv, [AllNext]_allVars PROVE AllInv'
    OBVIOUS
<1>1. /\ Handling!Assumptions /\ Served!Assumptions /\ Served!Killing!Assumptions /\ Assumptions
      /\ Served!Launch!Assumptions /\ Served!Rel!Assumptions
    BY AllAssumptions, SameSources, SameKill, SameLaunch, SameRelease
<1>2. /\ which' = which /\ [Next]_vars
      /\ which = "handler" => [Handling!Next]_handlerVars
      /\ which = "sources" => [Served!Next]_(Served!vars)
      /\ which = "kill" => [Served!Killing!Next]_(Served!Killing!vars)
      /\ which = "launcher" => [Served!Launch!Next]_(Served!Launch!vars)
      /\ which = "release" => [Served!Rel!Next]_(Served!Rel!vars)
    BY AllStep, SameSources, SameKill, SameLaunch, SameRelease
<1>3. LinkInvariant'
    BY <1>1, <1>2, LinkInvariantNext DEF AllInv
<1>4. which = "handler" => HandlerInv'
    BY <1>1, <1>2, HandlerInvNext DEF AllInv
<1>5. which = "sources" => Served!IInv'
    BY <1>1, <1>2, Served!IInvNext DEF AllInv
<1>6. which = "kill" => Served!KillInv'
    BY <1>1, <1>2, Served!KillInvNext DEF AllInv
<1>7. which = "launcher" => Served!LockInv' /\ Served!SharedType'
    BY <1>1, <1>2, Served!LockNext, Served!SharedTypeNext DEF AllInv
<1>8. which = "release" => Served!ReleaseInv'
    BY <1>1, <1>2, Served!ReleaseInvNext DEF AllInv
<1> QED BY <1>2, <1>3, <1>4, <1>5, <1>6, <1>7, <1>8 DEF AllInv

\* The invariant of all parts holds always.
LEMMA AllInvAlways == AllSpec => []AllInv
BY AllInvInit, AllInvNext, PTL DEF AllSpec

\* What the invariant says: of the handlers,
LEMMA HandlerSays ==
    AllInv /\ which = "handler" =>
        /\ Handling!TypeOK /\ Handling!ConfirmedOnly /\ Handling!AtMostOnce
        /\ Handling!OutcomeIsTrue /\ Handling!PolicyHolds
<1> SUFFICES ASSUME AllInv, which = "handler"
             PROVE  /\ Handling!TypeOK /\ Handling!ConfirmedOnly /\ Handling!AtMostOnce
                    /\ Handling!OutcomeIsTrue /\ Handling!PolicyHolds
    OBVIOUS
<1>1. HandlerInv
    BY DEF AllInv
<1> QED BY <1>1 DEF HandlerInv, Typed

\* of the commands on function sources and of "sandbox kill",
LEMMA ServedSays ==
    AllInv =>
        /\ which = "sources" => Sources!TypeOK /\ Sources!SentIsClosed /\ Sources!DeployedAsAsked
        /\ which = "kill" => Kill!TypeOK /\ Kill!SummaryIsTrue
<1> SUFFICES ASSUME AllInv
             PROVE  /\ which = "sources" =>
                          Sources!TypeOK /\ Sources!SentIsClosed /\ Sources!DeployedAsAsked
                    /\ which = "kill" => Kill!TypeOK /\ Kill!SummaryIsTrue
    OBVIOUS
<1>1. which = "kill" => Served!Killing!TypeOK /\ Served!Killing!SummaryIsTrue
    BY DEF AllInv, Served!KillInv
<1>2. Served!Assumptions
    BY AllAssumptions, SameSources
<1>3. which = "sources" => Served!IInv
    BY DEF AllInv
<1>4. which = "sources" => Served!TypeOK /\ Served!DeployedAsAsked
    BY <1>2, <1>3, Served!IInvSays
<1>5. which = "sources" => Served!SentIsClosed
    BY <1>3 DEF Served!IInv
<1>6. which = "kill" => Kill!TypeOK /\ Kill!SummaryIsTrue
    BY <1>1 DEF Kill!TypeOK, Served!Killing!TypeOK, Kill!SummaryIsTrue, Served!Killing!SummaryIsTrue
<1>7. which = "sources" => Sources!TypeOK
    BY <1>4 DEF Sources!TypeOK, Served!TypeOK, Sources!Paths, Served!Paths, Sources!Names,
         Served!Names, Sources!shared, Served!shared, Sources!PythonFiles, Served!PythonFiles
<1>8. which = "sources" => Sources!SentIsClosed
    BY <1>5 DEF Sources!SentIsClosed, Served!SentIsClosed, Sources!Imports, Served!Imports,
         Sources!Paths, Served!Paths, Sources!Names, Served!Names, Sources!shared, Served!shared,
         Sources!PythonFiles, Served!PythonFiles
<1>9. which = "sources" => Sources!DeployedAsAsked
    BY <1>4 DEF Sources!DeployedAsAsked, Served!DeployedAsAsked, Sources!NoFunction,
         Served!NoFunction
<1> QED BY <1>6, <1>7, <1>8, <1>9

\* and of the launchers and the releases.
LEMMA FetchedSays ==
    AllInv =>
        /\ which = "launcher" => Launch!TypeOK /\ Launch!RunsInstalled /\ Launch!OneDownload
        /\ which = "release" =>
              Releasing!TypeOK /\ Releasing!MainIsComplete /\ Releasing!PublishedIsOwn
<1>1. ASSUME AllInv, which = "launcher"
      PROVE  Launch!TypeOK /\ Launch!RunsInstalled /\ Launch!OneDownload
    <2>1. Served!Launch!TypeOK /\ Served!Launch!RunsInstalled /\ Served!Launch!OneDownload
        BY <1>1, Served!LockInvSays DEF AllInv
    <2>2. Launch!TypeOK
        BY <2>1 DEF Launch!TypeOK, Served!Launch!TypeOK, Launch!Kinds, Served!Launch!Kinds
    <2>3. Launch!RunsInstalled /\ Launch!OneDownload
        BY <2>1 DEF Launch!RunsInstalled, Served!Launch!RunsInstalled, Launch!OneDownload,
             Served!Launch!OneDownload
    <2> QED BY <2>2, <2>3
<1>2. ASSUME AllInv, which = "release"
      PROVE  Releasing!TypeOK /\ Releasing!MainIsComplete /\ Releasing!PublishedIsOwn
    <2>1. Served!Rel!Assumptions /\ Served!ReleaseInv
        BY <1>2, AllAssumptions, SameRelease DEF AllInv
    <2>2. Served!Rel!TypeOK /\ Served!Rel!MainIsComplete /\ Served!Rel!PublishedIsOwn
        BY <2>1, Served!ReleaseInvSays
    <2> QED BY <2>2 DEF Releasing!TypeOK, Served!Rel!TypeOK, Releasing!MainIsComplete,
                 Served!Rel!MainIsComplete, Releasing!PublishedIsOwn, Served!Rel!PublishedIsOwn,
                 Releasing!Packages, Served!Rel!Packages
<1> QED BY <1>1, <1>2

\* Every variable of the six keeps its type.
THEOREM AllTypeOKAlways == AllSpec => []AllTypeOK
<1>1. AllInv => AllTypeOK
    <2>1. AllInv => TypeOK
        BY LinkInvariantSays DEF AllInv
    <2> QED BY <2>1, HandlerSays, ServedSays, FetchedSays DEF AllTypeOK
<1> QED BY <1>1, AllInvAlways, PTL

\* Nothing is written that was not asked for and confirmed: not by a management
\* command that shows a prompt, nor by a command of a linked directory.
THEOREM AskedAndConfirmedAlways == AllSpec => []AskedAndConfirmed
<1>1. AllInv => AskedAndConfirmed
    <2>1. AllInv => AskedFirst
        BY LinkInvariantSays DEF AllInv
    <2> QED BY <2>1, HandlerSays DEF AskedAndConfirmed
<1> QED BY <1>1, AllInvAlways, PTL

\* No write is carried out twice though answers are lost, and no two launchers
\* download at the same time though they are killed and take locks over.
THEOREM DoneOnceAlways == AllSpec => []DoneOnce
<1>1. AllInv => DoneOnce
    BY HandlerSays, FetchedSays DEF DoneOnce
<1> QED BY <1>1, AllInvAlways, PTL

\* What a command, a kill or a release reports when it ends has happened.
THEOREM ReportsAreTrueAlways == AllSpec => []ReportsAreTrue
<1>1. AllInv => ReportsAreTrue
    BY HandlerSays, ServedSays, FetchedSays DEF ReportsAreTrue
<1> QED BY <1>1, AllInvAlways, PTL

\* The policy of the MCP server holds for every tool and every command.
THEOREM PolicyAlwaysHolds == AllSpec => []PolicyHolds
<1>1. AllInv => PolicyHolds
    BY HandlerSays DEF PolicyHolds
<1> QED BY <1>1, AllInvAlways, PTL

\* What is deployed goes together, though files are edited meanwhile.
THEOREM SentIsClosedAlways == AllSpec => []SentIsClosed
<1>1. AllInv => SentIsClosed
    BY ServedSays DEF SentIsClosed
<1> QED BY <1>1, AllInvAlways, PTL

\* A deploy that comes to its end has deployed what it was asked for.
THEOREM DeployedAsAskedAlways == AllSpec => []DeployedAsAsked
<1>1. AllInv => DeployedAsAsked
    BY ServedSays DEF DeployedAsAsked
<1> QED BY <1>1, AllInvAlways, PTL

\* "functions new" changes no file that exists.
THEOREM NewKeepsFilesAlways == AllSpec => NewKeepsFiles
<1>1. AllInv /\ [AllNext]_allVars => [which = "sources" => Sources!NewKeepsFilesStep]_allVars
    <2> SUFFICES ASSUME AllInv, [AllNext]_allVars, which = "sources"
                 PROVE  Sources!NewKeepsFilesStep
        OBVIOUS
    <2>1. Served!Assumptions
        BY AllAssumptions, SameSources
    <2>2. [Served!Next]_(Served!vars)
        BY AllStep, SameSources
    <2>3. Served!NewKeepsFilesStep
        BY <2>1, <2>2, Served!StepKeepsFiles DEF AllInv
    <2> QED BY <2>3 DEF Sources!NewKeepsFilesStep, Served!NewKeepsFilesStep, Sources!Paths,
                 Served!Paths, Sources!Exists, Served!Exists, Sources!Names, Served!Names,
                 Sources!shared, Served!shared, Sources!PythonFiles, Served!PythonFiles
<1> QED BY <1>1, AllInvAlways, PTL DEF AllSpec, NewKeepsFiles

\* A launcher runs a whole binary, and one that npm has installed.
THEOREM RunsInstalledAlways == AllSpec => []RunsInstalled
<1>1. AllInv => RunsInstalled
    BY FetchedSays DEF RunsInstalled
<1> QED BY <1>1, AllInvAlways, PTL

\* A version that can be installed is complete and from one commit.
THEOREM MainIsCompleteAlways == AllSpec => []MainIsComplete
<1>1. AllInv => MainIsComplete
    BY FetchedSays DEF MainIsComplete
<1> QED BY <1>1, AllInvAlways, PTL
=============================================================================
