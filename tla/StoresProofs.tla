---------------------------- MODULE StoresProofs ----------------------------
(***************************************************************************)
(* Theorems about what commands keep in files and tables, for any number   *)
(* of commands, names, sessions, attempts, developers and versions:        *)
(*   - the profiles, their sessions and their cache files, for any number  *)
(*     of command lines at once (CredentialStore): an invariant of what    *)
(*     each command still has to do, CommandInv, and of the files, Turns   *)
(*     and CacheInv;                                                       *)
(*   - the token of a session that several command lines refresh           *)
(*     (LoginToken): where its newest refresh token is, TokenInv;          *)
(*   - both of them, the histories of MigrationHistoryProofs and the       *)
(*     tokenizer of SqlTokenizerProofs in the model that the run checks    *)
(*     (MCStores).                                                         *)
(***************************************************************************)
EXTENDS MCStores, SequenceTheorems, FiniteSetTheorems, WellFoundedInduction, TLAPS

-----------------------------------------------------------------------------
(* The inductive invariant *)

Command ==
    [cmd : AllCommands \union {"idle"}, todo : Seq(Steps), name : Names,
     session : Sessions \union {NoSession}, old : Sessions \union {NoSession},
     plan : {"keep", "set", "delete"}, edit : Config, planEdit : SUBSET Names,
     victims : SUBSET Names]

Shape ==
    /\ config \in Config
    /\ plans \subseteq Names
    /\ proc \in [Procs -> Command]
    /\ scene \in Scenes

Pending(todo, step) == \E k \in DOMAIN todo : todo[k] = step

\* What the programs and their remainders have in common: the load comes first,
\* one save, one change of the plans in two steps side by side, and logout --all
\* goes through its victims just before its save.
Ordered(todo) ==
    /\ \A k \in DOMAIN todo : todo[k] = "load" => k = 1
    /\ \A step \in {"save", "loadPlans", "savePlans"} : \A k, m \in DOMAIN todo :
          todo[k] = step /\ todo[m] = step => k = m
    /\ \A k \in DOMAIN todo : todo[k] = "loadPlans" =>
          k + 1 \in DOMAIN todo /\ todo[k + 1] = "savePlans"
    /\ \A k \in DOMAIN todo : todo[k] = "purge" =>
          Len(todo) = k + 1 /\ todo[k + 1] = "save"

\* A command that has not loaded yet has its whole program before it.
Form(c) ==
    /\ Ordered(c.todo)
    /\ Pending(c.todo, "load") => c.plan \in PlanChoices(c.cmd) /\ c.todo = Program(c.cmd, c.plan)

\* The profiles there will be when the command has saved.
Target(c, cfg) == Existing(IF Pending(c.todo, "save") THEN c.edit ELSE cfg)

\* The plans of a running command agree with these profiles, except for the entry
\* it is about to remove.
Agrees(c, cfg, entries) ==
    IF Pending(c.todo, "load") THEN entries \subseteq Existing(cfg)
    ELSE IF Pending(c.todo, "loadPlans")
    THEN \/ c.plan = "set" /\ c.name \in Target(c, cfg) /\ entries \subseteq Target(c, cfg)
         \/ c.plan = "delete" /\ entries \ {c.name} \subseteq Target(c, cfg)
    ELSE IF Pending(c.todo, "savePlans") THEN c.planEdit \subseteq Target(c, cfg)
    ELSE entries \subseteq Target(c, cfg)

\* One command at a time, and what holds of its plans.
Turns ==
    /\ \A p, q \in Procs : proc[p].cmd # "idle" /\ proc[q].cmd # "idle" => p = q
    /\ \A p \in Procs : proc[p].cmd # "idle" => Agrees(proc[p], config, plans)
    /\ Quiet => plans \subseteq Existing(config)

IInv ==
    /\ Shape
    /\ CurrentIsAProfile
    /\ \A p \in Procs : IF proc[p].cmd = "idle" THEN proc[p].todo = <<>> ELSE Form(proc[p])
    /\ Serial => Turns

-----------------------------------------------------------------------------
(* Copies of config.json *)

\* The names of the profiles there are can be compared.
LEMMA ExistingNames ==
    ASSUME Assumptions, NEW cfg \in Config
    PROVE  Existing(cfg) \subseteq Names /\ Existing(cfg) \subseteq Nat
BY DEF Assumptions, Existing

\* The smallest name there is.
LEMMA MinIsThere ==
    ASSUME NEW S, S \subseteq Nat, S # {}
    PROVE  Min(S) \in S
<1>1. \E x \in S : \A y \in S : <<y, x>> \notin OpToRel(<, Nat)
    BY NatLessThanWellFounded, WFMin
<1>2. PICK x \in S : \A y \in S : <<y, x>> \notin OpToRel(<, Nat)
    BY <1>1
<1>3. ASSUME NEW y \in Nat, NEW z \in Nat, y < z PROVE <<y, z>> \in OpToRel(<, Nat)
    BY <1>3 DEF OpToRel
<1>4. \A y \in S : ~(y < x)
    BY <1>2, <1>3
<1>5. \A y \in S : x <= y
    BY <1>4
<1> QED BY <1>5 DEF Min

\* A file without profiles is consistent.
LEMMA EmptyIsConsistent ==
    ASSUME Assumptions
    PROVE  EmptyConfig \in Config /\ Existing(EmptyConfig) = {} /\ Consistent(EmptyConfig)
BY DEF Assumptions, EmptyConfig, Config, Profile, Absent, Existing, Consistent

\* Deleting a profile leaves a consistent file without it.
LEMMA DeleteKeeps ==
    ASSUME Assumptions, NEW cfg \in Config, Consistent(cfg), NEW name \in Names
    PROVE  /\ Delete(cfg, name) \in Config
           /\ Existing(Delete(cfg, name)) = Existing(cfg) \ {name}
           /\ Consistent(Delete(cfg, name))
<1> DEFINE less == [cfg EXCEPT !.profiles[name] = Absent]
<1>1. /\ less \in Config /\ less.current = cfg.current
      /\ less.profiles = [cfg.profiles EXCEPT ![name] = Absent]
    BY DEF Config, Profile, Absent
<1>2. Existing(less) = Existing(cfg) \ {name}
    BY <1>1 DEF Config, Existing, Absent
<1> HIDE DEF less
<1> DEFINE after == Normalize(less, name)
<1>3. CASE less.current # name
    <2>1. after = less
        BY <1>3 DEF Normalize
    <2>2. Consistent(less)
        BY <1>1, <1>2, <1>3 DEF Consistent
    <2> QED BY <1>1, <1>2, <2>1, <2>2 DEF Delete, less
<1>4. CASE less.current = name
    <2> DEFINE new == IF Existing(less) = {} THEN Default ELSE Min(Existing(less))
    <2>1. new \in Names /\ (Existing(less) # {} => new \in Existing(less))
        BY <1>1, ExistingNames, MinIsThere DEF Assumptions
    <2>2. after = [less EXCEPT !.current = new]
        BY <1>4 DEF Normalize
    <2> HIDE DEF new
    <2>3. after \in Config /\ after.current = new /\ after.profiles = less.profiles
        BY <1>1, <2>1, <2>2 DEF Config
    <2>4. Existing(after) = Existing(less)
        BY <2>3 DEF Existing
    <2>5. Consistent(after)
        BY <2>1, <2>3, <2>4 DEF Consistent, new
    <2> QED BY <1>2, <2>3, <2>4, <2>5 DEF Delete, less
<1> QED BY <1>3, <1>4

\* Setting a profile leaves a consistent file with it.
LEMMA SetKeeps ==
    ASSUME NEW cfg \in Config, NEW name \in Names, NEW entry \in Profile,
           entry.mode # "absent"
    PROVE  /\ SetProfile(cfg, name, entry) \in Config
           /\ Existing(SetProfile(cfg, name, entry)) = Existing(cfg) \union {name}
           /\ Consistent(SetProfile(cfg, name, entry))
<1> DEFINE more == SetProfile(cfg, name, entry)
<1>1. /\ more \in Config /\ more.current = name
      /\ more.profiles = [cfg.profiles EXCEPT ![name] = entry]
    BY DEF Config, SetProfile
<1> HIDE DEF more
<1>2. Existing(more) = Existing(cfg) \union {name}
    BY <1>1 DEF Config, Existing
<1>3. Consistent(more)
    BY <1>1, <1>2 DEF Consistent
<1> QED BY <1>1, <1>2, <1>3 DEF more

\* Switching to a profile that is there leaves a consistent file.
LEMMA SwitchKeeps ==
    ASSUME NEW cfg \in Config, NEW name \in Existing(cfg)
    PROVE  LET new == [cfg EXCEPT !.current = name]
           IN  new \in Config /\ Existing(new) = Existing(cfg) /\ Consistent(new)
BY DEF Config, Existing, Consistent

\* What a command saves when it has loaded cfg.
LEMMA EditsKeep ==
    ASSUME Assumptions, NEW cfg \in Config, Consistent(cfg),
           NEW c \in Command, c.cmd \in AllCommands, NEW edit \in Edits(c, cfg)
    PROVE  /\ edit \in Config /\ Consistent(edit)
           /\ Existing(edit) = IF c.cmd \in {"login", "import", "set"}
                               THEN Existing(cfg) \union {c.name}
                               ELSE IF c.cmd \in {"logout", "delete"}
                               THEN Existing(cfg) \ {c.name}
                               ELSE Existing(cfg)
           /\ c.cmd = "agentPlan" => c.name \in Existing(cfg)
<1>1. c.name \in Names /\ c.session \in Sessions \union {NoSession}
    BY DEF Command
<1>2. CASE c.cmd \in {"login", "import"}
    <2> DEFINE entry == [mode |-> "console", session |-> c.session]
    <2>1. entry \in Profile /\ entry.mode # "absent"
        BY <1>1 DEF Profile
    <2>2. edit = SetProfile(cfg, c.name, entry)
        BY <1>2 DEF Edits
    <2> HIDE DEF entry
    <2> QED BY <1>1, <1>2, <2>1, <2>2, SetKeeps
<1>3. CASE c.cmd = "set"
    <2> DEFINE entry == [mode |-> "ak", session |-> NoSession]
    <2>1. entry \in Profile /\ entry.mode # "absent"
        BY DEF Profile
    <2>2. edit = SetProfile(cfg, c.name, entry)
        BY <1>3 DEF Edits
    <2> HIDE DEF entry
    <2> QED BY <1>1, <1>3, <2>1, <2>2, SetKeeps
<1>4. CASE c.cmd \in {"logout", "delete"}
    <2>1. edit = Delete(cfg, c.name)
        BY <1>4 DEF Edits
    <2> QED BY <1>1, <1>4, <2>1, DeleteKeeps
<1>5. CASE c.cmd = "switch"
    <2>1. c.name \in Existing(cfg) /\ edit = [cfg EXCEPT !.current = c.name]
        BY <1>5 DEF Edits
    <2> QED BY <1>5, <2>1, SwitchKeeps
<1>6. CASE c.cmd \in {"logoutAll", "region", "agentPlan"}
    BY <1>6 DEF Edits
<1> QED BY <1>2, <1>3, <1>4, <1>5, <1>6 DEF AllCommands

-----------------------------------------------------------------------------
(* Programs *)

\* What is left after the first step.
LEMMA Remainder ==
    ASSUME NEW todo \in Seq(Steps), todo # <<>>, Ordered(todo)
    PROVE  /\ Tail(todo) \in Seq(Steps) /\ Ordered(Tail(todo))
           /\ \A step : step # Head(todo) =>
                 (Pending(Tail(todo), step) <=> Pending(todo, step))
           /\ Head(todo) \in {"load", "save", "loadPlans", "savePlans"} =>
                 ~Pending(Tail(todo), Head(todo))
           /\ ~Pending(Tail(todo), "load")
           /\ Pending(todo, Head(todo))
<1> DEFINE rest == Tail(todo)
<1>1. /\ rest \in Seq(Steps) /\ Len(rest) = Len(todo) - 1 /\ Len(todo) \in Nat \ {0}
      /\ Head(todo) = todo[1] /\ DOMAIN todo = 1..Len(todo) /\ DOMAIN rest = 1..Len(rest)
      /\ \A k \in DOMAIN rest : rest[k] = todo[k + 1] /\ k + 1 \in DOMAIN todo
    OBVIOUS
<1>2. \A k \in DOMAIN todo : k = 1 \/ (k - 1 \in DOMAIN rest /\ rest[k - 1] = todo[k])
    BY <1>1
<1> HIDE DEF rest
<1>3. Ordered(rest)
    <2>1. \A k \in DOMAIN rest : rest[k] # "load"
        BY <1>1 DEF Ordered
    <2>2. \A step \in {"save", "loadPlans", "savePlans"} : \A k, m \in DOMAIN rest :
              rest[k] = step /\ rest[m] = step => k = m
        BY <1>1 DEF Ordered
    <2>3. \A k \in DOMAIN rest : rest[k] = "loadPlans" =>
              k + 1 \in DOMAIN rest /\ rest[k + 1] = "savePlans"
        BY <1>1 DEF Ordered
    <2>4. \A k \in DOMAIN rest : rest[k] = "purge" =>
              Len(rest) = k + 1 /\ rest[k + 1] = "save"
        BY <1>1 DEF Ordered
    <2> QED BY <2>1, <2>2, <2>3, <2>4 DEF Ordered
<1>4. \A step : step # Head(todo) => (Pending(rest, step) <=> Pending(todo, step))
    BY <1>1, <1>2 DEF Pending
<1>5. Head(todo) \in {"load", "save", "loadPlans", "savePlans"} => ~Pending(rest, Head(todo))
    BY <1>1 DEF Pending, Ordered
<1>6. ~Pending(rest, "load")
    BY <1>1 DEF Pending, Ordered
<1>7. Pending(todo, Head(todo))
    BY <1>1 DEF Pending
<1> QED BY <1>1, <1>3, <1>4, <1>5, <1>6, <1>7 DEF rest

\* File steps that are followed by a change of the plans.
LEMMA WithPlans ==
    ASSUME NEW steps \in Seq(Steps), steps # <<>>, Head(steps) = "load", Ordered(steps),
           \A step \in {"loadPlans", "savePlans", "purge"} : ~Pending(steps, step)
    PROVE  LET todo == steps \o <<"loadPlans", "savePlans">>
           IN  /\ todo \in Seq(Steps) /\ todo # <<>> /\ Ordered(todo)
               /\ Head(todo) = "load" /\ Pending(todo, "load")
               /\ Pending(todo, "save") <=> Pending(steps, "save")
               /\ Pending(todo, "loadPlans") /\ Pending(todo, "savePlans")
<1> DEFINE todo == steps \o <<"loadPlans", "savePlans">>
           n == Len(steps)
<1>1. /\ n \in Nat \ {0} /\ todo \in Seq(Steps) /\ Len(todo) = n + 2
      /\ DOMAIN steps = 1..n /\ DOMAIN todo = 1..(n + 2)
      /\ \A k \in 1..n : todo[k] = steps[k]
      /\ todo[n + 1] = "loadPlans" /\ todo[n + 2] = "savePlans"
      /\ steps[1] = "load" /\ Head(todo) = todo[1]
    BY DEF Steps
<1>2. \A k \in DOMAIN todo : k \in 1..n \/ k = n + 1 \/ k = n + 2
    BY <1>1
<1>3. \A k \in 1..n : steps[k] \notin {"loadPlans", "savePlans", "purge"}
    BY <1>1 DEF Pending
<1> HIDE DEF todo, n
<1>4. Ordered(todo)
    <2>1. \A k \in DOMAIN todo : todo[k] = "load" => k = 1
        BY <1>1, <1>2 DEF Ordered
    <2>2. \A step \in {"save", "loadPlans", "savePlans"} : \A k, m \in DOMAIN todo :
              todo[k] = step /\ todo[m] = step => k = m
        BY <1>1, <1>2, <1>3 DEF Ordered
    <2>3. \A k \in DOMAIN todo : todo[k] = "loadPlans" =>
              k + 1 \in DOMAIN todo /\ todo[k + 1] = "savePlans"
        BY <1>1, <1>2, <1>3
    <2>4. \A k \in DOMAIN todo : todo[k] # "purge"
        BY <1>1, <1>2, <1>3
    <2> QED BY <2>1, <2>2, <2>3, <2>4 DEF Ordered
<1>5. /\ Pending(todo, "load") /\ Pending(todo, "loadPlans") /\ Pending(todo, "savePlans")
      /\ Pending(todo, "save") <=> Pending(steps, "save")
    BY <1>1, <1>2 DEF Pending
<1> QED BY <1>1, <1>4, <1>5 DEF todo

\* Every program loads first, and all but one save.
LEMMA Programs ==
    ASSUME NEW command \in AllCommands, NEW plan \in PlanChoices(command)
    PROVE  LET todo == Program(command, plan)
           IN  /\ todo \in Seq(Steps) /\ todo # <<>> /\ Ordered(todo)
               /\ Head(todo) = "load" /\ Pending(todo, "load")
               /\ Pending(todo, "save") <=> command # "agentPlan"
               /\ Pending(todo, "loadPlans") <=> plan # "keep"
               /\ Pending(todo, "savePlans") <=> plan # "keep"
<1> DEFINE steps == CASE command = "login" -> LoginSteps
                      [] command = "import" -> ImportSteps
                      [] command = "logout" -> LogoutSteps
                      [] command = "logoutAll" -> LogoutAllSteps
                      [] command = "agentPlan" -> <<"load">>
                      [] command \in {"set", "switch", "region", "delete"} -> EditSteps
<1>1. /\ steps \in Seq(Steps) /\ steps # <<>> /\ Ordered(steps) /\ Head(steps) = "load"
      /\ Pending(steps, "load") /\ (Pending(steps, "save") <=> command # "agentPlan")
      /\ ~Pending(steps, "loadPlans") /\ ~Pending(steps, "savePlans")
      /\ Pending(steps, "purge") => command = "logoutAll"
    <2> USE DEF Ordered, Pending, Steps
    <2>1. CASE command = "login"
        <3>1. steps = <<"load", "writeCache", "removeOld", "save">>
            BY <2>1 DEF LoginSteps
        <3> HIDE DEF steps
        <3> QED BY <2>1, <3>1
    <2>2. CASE command = "import"
        <3>1. steps = <<"load", "writeCache", "save", "removeOld">>
            BY <2>2 DEF ImportSteps
        <3> HIDE DEF steps
        <3> QED BY <2>2, <3>1
    <2>3. CASE command = "logout"
        <3>1. steps = <<"load", "removeCache", "save">>
            BY <2>3 DEF LogoutSteps
        <3> HIDE DEF steps
        <3> QED BY <2>3, <3>1
    <2>4. CASE command = "logoutAll"
        <3>1. steps = <<"load", "purge", "save">>
            BY <2>4 DEF LogoutAllSteps
        <3> HIDE DEF steps
        <3> QED BY <2>4, <3>1
    <2>5. CASE command = "agentPlan"
        <3>1. steps = <<"load">>
            BY <2>5
        <3> HIDE DEF steps
        <3> QED BY <2>5, <3>1
    <2>6. CASE command \in {"set", "switch", "region", "delete"}
        <3>1. steps = <<"load", "save">>
            BY <2>6 DEF EditSteps
        <3> HIDE DEF steps
        <3> QED BY <2>6, <3>1
    <2> QED BY <2>1, <2>2, <2>3, <2>4, <2>5, <2>6 DEF AllCommands
<1>2. CASE plan = "keep"
    <2>1. Program(command, plan) = steps
        <3>1. command \in {"logoutAll", "set", "switch", "region"}
            BY <1>2 DEF AllCommands, PlanChoices
        <3>2. LogoutAllSteps \in Seq(Steps) /\ EditSteps \in Seq(Steps)
              /\ EditSteps \o <<>> = EditSteps
            BY DEF LogoutAllSteps, EditSteps, Steps
        <3> QED BY <1>2, <3>1, <3>2 DEF Program, PlanSteps
    <2> QED BY <1>1, <1>2, <2>1
<1>3. CASE plan # "keep"
    <2>1. command # "logoutAll"
        BY <1>3 DEF PlanChoices
    <2>2. Program(command, plan) = steps \o <<"loadPlans", "savePlans">>
        BY <1>3, <2>1 DEF Program, PlanSteps, AllCommands
    <2> HIDE DEF steps
    <2> QED BY <1>1, <1>3, <2>1, <2>2, WithPlans
<1> QED BY SMTT(60), <1>2, <1>3

-----------------------------------------------------------------------------
(* One command changes *)

\* A step that changes one command and the files, and keeps what the invariant asks.
LEMMA Changes ==
    ASSUME IInv, NEW p \in Procs, NEW c \in Command,
           proc' = [proc EXCEPT ![p] = c], UNCHANGED scene,
           config' \in Config, Consistent(config'), plans' \subseteq Names, Consistent(c.edit),
           IF c.cmd = "idle" THEN c.todo = <<>> ELSE Form(c),
           Serial => /\ \A q \in Procs \ {p} : proc[q].cmd = "idle"
                     /\ IF c.cmd = "idle" THEN plans' \subseteq Existing(config')
                        ELSE Agrees(c, config', plans')
    PROVE  IInv'
<1>1. \A q \in Procs : proc'[q] = IF q = p THEN c ELSE proc[q]
    BY DEF IInv, Shape
<1>2. Shape'
    BY <1>1 DEF IInv, Shape
<1>3. CurrentIsAProfile'
    BY <1>1 DEF IInv, CurrentIsAProfile
<1>4. \A q \in Procs : IF proc'[q].cmd = "idle" THEN proc'[q].todo = <<>> ELSE Form(proc'[q])
    BY <1>1 DEF IInv
<1>5. Serial' <=> Serial
    BY DEF Serial
<1>6. ASSUME Serial PROVE Turns'
    <2>1. \A q \in Procs : q # p => proc'[q].cmd = "idle"
        BY <1>1, <1>6
    <2>2. Quiet' => c.cmd = "idle"
        BY <1>1 DEF Quiet
    <2> QED BY <1>1, <1>6, <2>1, <2>2 DEF Turns
<1> QED BY <1>2, <1>3, <1>4, <1>5, <1>6 DEF IInv

\* What the invariant says of a command that runs.
LEMMA Runs ==
    ASSUME IInv, NEW p \in Procs, proc[p].todo # <<>> \/ proc[p].cmd # "idle"
    PROVE  /\ proc[p] \in Command /\ Consistent(proc[p].edit) /\ Form(proc[p])
           /\ proc[p].cmd \in AllCommands
           /\ Serial => /\ \A q \in Procs \ {p} : proc[q].cmd = "idle"
                        /\ Agrees(proc[p], config, plans)
BY DEF IInv, Shape, CurrentIsAProfile, Turns, Command

\* A command that ends keeps the invariant.
LEMMA Ends ==
    ASSUME Assumptions, IInv, NEW p \in Procs, proc[p].cmd # "idle", End(p),
           UNCHANGED <<config, plans, scene>>,
           Serial => plans \subseteq Existing(config)
    PROVE  IInv'
<1>1. /\ Idle \in Command /\ Idle.cmd = "idle" /\ Idle.todo = <<>> /\ Idle.edit = EmptyConfig
    BY EmptyIsConsistent DEF Idle, Command, Assumptions
<1>2. proc' = [proc EXCEPT ![p] = Idle]
    BY DEF End
<1> HIDE DEF Idle
<1>3. config' \in Config /\ Consistent(config') /\ plans' \subseteq Names
    BY DEF IInv, Shape, CurrentIsAProfile
<1> QED BY <1>1, <1>2, <1>3, EmptyIsConsistent, Runs, Changes

\* The command when its step is done.
AfterStep(c) == [c EXCEPT !.todo = Tail(@)]

\* A command that has done its next step keeps the invariant.
LEMMA Advances ==
    ASSUME IInv, NEW p \in Procs, proc[p].todo # <<>>, Advance(p), UNCHANGED scene,
           config' \in Config, Consistent(config'), plans' \subseteq Names,
           Serial /\ Agrees(proc[p], config, plans) => Agrees(AfterStep(proc[p]), config', plans')
    PROVE  IInv'
<1> DEFINE c == proc[p]
           d == AfterStep(c)
<1>1. /\ c \in Command /\ Consistent(c.edit) /\ Form(c) /\ c.cmd # "idle"
      /\ Serial => (\A q \in Procs \ {p} : proc[q].cmd = "idle") /\ Agrees(c, config, plans)
    BY Runs DEF AllCommands
<1>2. Tail(c.todo) \in Seq(Steps) /\ Ordered(Tail(c.todo)) /\ ~Pending(Tail(c.todo), "load")
    BY <1>1, Remainder DEF Command, Form
<1>3. proc' = [proc EXCEPT ![p] = d]
    BY DEF Advance, AfterStep
<1> HIDE DEF c
<1>4. d \in Command /\ d.cmd = c.cmd /\ d.edit = c.edit /\ d.todo = Tail(c.todo)
    BY <1>1, <1>2 DEF Command, AfterStep
<1> HIDE DEF d
<1>5. Form(d)
    BY <1>2, <1>4 DEF Form
<1>6. Serial => Agrees(d, config', plans')
    BY <1>1 DEF c, d
<1> QED BY <1>1, <1>3, <1>4, <1>5, <1>6, Changes

-----------------------------------------------------------------------------
(* The steps *)

\* The invariant holds at first.
LEMMA InitIInv == Assumptions /\ Init => IInv
<1> SUFFICES ASSUME Assumptions, Init PROVE IInv
    OBVIOUS
<1>1. Idle \in Command /\ Idle.cmd = "idle" /\ Idle.todo = <<>> /\ Idle.edit = EmptyConfig
    BY EmptyIsConsistent DEF Idle, Command, Assumptions
<1> HIDE DEF Idle
<1>2. /\ proc \in [Procs -> Command] /\ \A p \in Procs : proc[p] = Idle
      /\ config = EmptyConfig /\ plans = {} /\ scene \in Scenes
    BY <1>1 DEF Init
<1> QED BY <1>1, <1>2, EmptyIsConsistent DEF IInv, Shape, CurrentIsAProfile, Turns

\* A command begins.
LEMMA BeginInv ==
    ASSUME Assumptions, IInv, NEW p \in Procs, Begin(p)
    PROVE  IInv'
<1>1. PICK command \in scene.commands, name \in Names : \E plan \in PlanChoices(command),
          session \in IF command \in {"login", "import"} THEN scene.accounts[name] ELSE {NoSession} :
             proc' = [proc EXCEPT ![p] =
                        [Idle EXCEPT !.cmd = command, !.name = name, !.session = session,
                                     !.plan = plan, !.todo = Program(command, plan)]]
    BY DEF Begin
<1>2. PICK plan \in PlanChoices(command),
           session \in IF command \in {"login", "import"} THEN scene.accounts[name] ELSE {NoSession} :
             proc' = [proc EXCEPT ![p] =
                        [Idle EXCEPT !.cmd = command, !.name = name, !.session = session,
                                     !.plan = plan, !.todo = Program(command, plan)]]
    BY <1>1
<1> DEFINE todo == Program(command, plan)
           c == [Idle EXCEPT !.cmd = command, !.name = name, !.session = session,
                             !.plan = plan, !.todo = todo]
<1>3. scene \in Scene
    BY DEF IInv, Shape, Assumptions
<1>4. command \in AllCommands /\ session \in Sessions \union {NoSession}
    BY <1>3 DEF Scene
<1>5. plan \in {"keep", "set", "delete"}
    BY <1>4 DEF AllCommands, PlanChoices
<1>6. todo \in Seq(Steps) /\ Ordered(todo) /\ Pending(todo, "load")
    BY <1>4, Programs
<1>7. proc' = [proc EXCEPT ![p] = c]
    BY <1>2
<1> HIDE DEF todo
<1>8. /\ c \in Command /\ c.cmd = command /\ c.plan = plan /\ c.todo = todo
      /\ c.edit = EmptyConfig
    BY <1>4, <1>5, <1>6, EmptyIsConsistent DEF Idle, Command, Assumptions
<1> HIDE DEF c
<1>9. Form(c)
    BY <1>6, <1>8 DEF Form, todo
<1>10. Serial => Quiet /\ plans \subseteq Existing(config)
    BY DEF Serial, IInv, Turns, Begin
<1>11. Serial => Agrees(c, config', plans')
    BY <1>6, <1>8, <1>10 DEF Begin, Agrees
<1>12. UNCHANGED scene /\ config' \in Config /\ Consistent(config') /\ plans' \subseteq Names
    BY DEF Begin, IInv, Shape, CurrentIsAProfile
<1>13. c.cmd # "idle" /\ Consistent(c.edit)
    BY SMTT(60), <1>4, <1>8, EmptyIsConsistent DEF AllCommands
<1> QED BY <1>7, <1>8, <1>9, <1>10, <1>11, <1>12, <1>13, Changes DEF Quiet

\* A command reads the configuration file and decides what to change.
LEMMA LoadInv ==
    ASSUME Assumptions, IInv, NEW p \in Procs, Load(p)
    PROVE  IInv'
<1> DEFINE c == proc[p]
<1>1. c.todo # <<>> /\ Head(c.todo) = "load"
    BY DEF Load
<1>2. /\ c \in Command /\ c.cmd \in AllCommands /\ Form(c)
      /\ Serial => (\A q \in Procs \ {p} : proc[q].cmd = "idle") /\ Agrees(c, config, plans)
    BY <1>1, Runs
<1>3. UNCHANGED <<config, plans, scene>> /\ config \in Config /\ Consistent(config)
    BY DEF Load, IInv, Shape, CurrentIsAProfile
<1>4. /\ Pending(c.todo, "load") /\ c.todo \in Seq(Steps) /\ Ordered(c.todo)
      /\ Tail(c.todo) \in Seq(Steps) /\ Ordered(Tail(c.todo)) /\ ~Pending(Tail(c.todo), "load")
      /\ \A step : step # "load" => (Pending(Tail(c.todo), step) <=> Pending(c.todo, step))
    BY <1>1, <1>2, Remainder DEF Command, Form
<1>5. Serial => plans \subseteq Existing(config)
    BY <1>2, <1>4 DEF Agrees
<1>6. CASE End(p)
    BY <1>2, <1>3, <1>5, <1>6, Ends DEF AllCommands
<1>7. ASSUME NEW edit \in Edits(c, config),
             proc' = [proc EXCEPT ![p] =
                           [c EXCEPT !.todo = Tail(@), !.edit = edit,
                                     !.old = config.profiles[c.name].session,
                                     !.victims = Console(config)]]
      PROVE  IInv'
    <2> HIDE DEF c
    <2> DEFINE d == [c EXCEPT !.todo = Tail(@), !.edit = edit,
                              !.old = config.profiles[c.name].session,
                              !.victims = Console(config)]
    <2>1. /\ edit \in Config /\ Consistent(edit)
          /\ Existing(edit) = IF c.cmd \in {"login", "import", "set"}
                              THEN Existing(config) \union {c.name}
                              ELSE IF c.cmd \in {"logout", "delete"}
                              THEN Existing(config) \ {c.name}
                              ELSE Existing(config)
          /\ c.cmd = "agentPlan" => c.name \in Existing(config)
        BY <1>2, <1>3, EditsKeep
    <2>2. c.name \in Names /\ config.profiles[c.name].session \in Sessions \union {NoSession}
        BY SMTT(60), <1>2, <1>3 DEF Command, Config, Profile
    <2>3. /\ d \in Command /\ d.cmd = c.cmd /\ d.name = c.name /\ d.plan = c.plan
          /\ d.edit = edit /\ d.todo = Tail(c.todo)
        BY <1>2, <1>4, <2>1, <2>2 DEF Command, Console
    <2>4. proc' = [proc EXCEPT ![p] = d]
        BY <1>7
    <2> HIDE DEF d
    <2>5. Form(d)
        BY <1>4, <2>3 DEF Form
    <2>6. c.plan \in PlanChoices(c.cmd) /\ c.todo = Program(c.cmd, c.plan)
        BY <1>2, <1>4 DEF Form
    <2>7. /\ Pending(d.todo, "save") <=> c.cmd # "agentPlan"
          /\ Pending(d.todo, "loadPlans") <=> c.plan # "keep"
          /\ Pending(d.todo, "savePlans") <=> c.plan # "keep"
          /\ ~Pending(d.todo, "load")
        BY <1>2, <1>4, <2>3, <2>6, Programs
    <2>8. Target(d, config) = Existing(edit)
        BY <2>1, <2>3, <2>7 DEF Target, AllCommands
    <2>9. Serial => Agrees(d, config, plans)
        <3> SUFFICES ASSUME Serial PROVE Agrees(d, config, plans)
            OBVIOUS
        <3>1. plans \subseteq Existing(config)
            BY <1>5
        <3>2. CASE c.cmd \in {"login", "import", "set"}
            <4>1. c.plan \in {"set", "delete", "keep"}
                BY <2>6, <3>2 DEF PlanChoices
            <4> QED BY <2>1, <2>3, <2>7, <2>8, <3>1, <3>2, <4>1 DEF Agrees
        <3>3. CASE c.cmd \in {"logout", "delete"}
            <4>1. c.plan = "delete"
                BY <2>6, <3>3 DEF PlanChoices
            <4> QED BY <2>1, <2>3, <2>7, <2>8, <3>1, <3>3, <4>1 DEF Agrees
        <3>4. CASE c.cmd \in {"logoutAll", "switch", "region"}
            <4>1. c.plan = "keep"
                BY <2>6, <3>4 DEF PlanChoices
            <4> QED BY <2>1, <2>3, <2>7, <2>8, <3>1, <3>4, <4>1 DEF Agrees
        <3>5. CASE c.cmd = "agentPlan"
            <4>1. c.plan = "set"
                BY <2>6, <3>5 DEF PlanChoices
            <4> QED BY <2>1, <2>3, <2>7, <2>8, <3>1, <3>5, <4>1 DEF Agrees
        <3> QED BY <1>2, <3>2, <3>3, <3>4, <3>5 DEF AllCommands
    <2>10. d.cmd # "idle" /\ Consistent(d.edit)
        BY <1>2, <2>1, <2>3 DEF AllCommands
    <2>11. config' \in Config /\ Consistent(config') /\ plans' \subseteq Names
        BY <1>3 DEF IInv, Shape
    <2>12. Serial => /\ \A q \in Procs \ {p} : proc[q].cmd = "idle"
                     /\ Agrees(d, config', plans')
        BY <1>2, <1>3, <2>9
    <2> QED BY <1>3, <2>3, <2>4, <2>5, <2>10, <2>11, <2>12, Changes
<1> QED BY <1>6, <1>7 DEF Load

\* The steps that write or remove a cache file, or fail to, change neither a
\* configuration nor a plan.
LEMMA CacheStepInv ==
    ASSUME Assumptions, IInv, NEW p \in Procs,
           WriteCache(p) \/ RemoveOld(p) \/ RemoveCache(p)
    PROVE  IInv'
<1> DEFINE c == proc[p]
<1>1. /\ c.todo # <<>> /\ Head(c.todo) \notin {"load", "save", "loadPlans", "savePlans"}
      /\ Advance(p) /\ UNCHANGED <<config, plans, scene>>
    BY DEF WriteCache, RemoveOld, RemoveCache, At
<1>2. c \in Command /\ Form(c)
    BY <1>1, Runs
<1>3. c.todo \in Seq(Steps) /\ Ordered(c.todo)
    BY <1>2 DEF Command, Form
<1>4. /\ \A step \in {"load", "save", "loadPlans", "savePlans"} :
            Pending(Tail(c.todo), step) <=> Pending(c.todo, step)
    BY <1>1, <1>3, Remainder
<1>5. config' \in Config /\ Consistent(config') /\ plans' \subseteq Names
    BY <1>1 DEF IInv, Shape, CurrentIsAProfile
<1>6. ASSUME Agrees(c, config, plans) PROVE Agrees(AfterStep(c), config', plans')
    <2> HIDE DEF c
    <2>1. /\ AfterStep(c).todo = Tail(c.todo) /\ AfterStep(c).edit = c.edit /\ AfterStep(c).plan = c.plan
          /\ AfterStep(c).name = c.name /\ AfterStep(c).planEdit = c.planEdit
        BY <1>2 DEF Command, AfterStep
    <2>2. Target(AfterStep(c), config') = Target(c, config)
        BY <1>1, <1>4, <2>1 DEF Target
    <2> QED BY <1>1, <1>4, <1>6, <2>1, <2>2 DEF Agrees
<1> QED BY <1>1, <1>5, <1>6, Advances

\* A command writes the configuration file.
LEMMA SaveInv ==
    ASSUME Assumptions, IInv, NEW p \in Procs, Save(p)
    PROVE  IInv'
<1> DEFINE c == proc[p]
<1>1. /\ c.todo # <<>> /\ Head(c.todo) = "save" /\ Advance(p)
      /\ config' = c.edit /\ UNCHANGED <<plans, scene>>
    BY DEF Save, At
<1>2. c \in Command /\ Form(c) /\ Consistent(c.edit)
    BY <1>1, Runs
<1>3. c.todo \in Seq(Steps) /\ Ordered(c.todo)
    BY <1>2 DEF Command, Form
<1>4. /\ \A step \in {"load", "loadPlans", "savePlans"} :
            Pending(Tail(c.todo), step) <=> Pending(c.todo, step)
      /\ Pending(c.todo, "save") /\ ~Pending(Tail(c.todo), "save")
    BY <1>1, <1>3, Remainder
<1>5. config' \in Config /\ Consistent(config') /\ plans' \subseteq Names
    BY <1>1, <1>2 DEF IInv, Shape, Command
<1>6. ASSUME Agrees(c, config, plans) PROVE Agrees(AfterStep(c), config', plans')
    <2>1. config' = c.edit /\ plans' = plans
        BY <1>1
    <2>2. ~Pending(c.todo, "load")
        BY <1>1, <1>3, <1>4, Remainder
    <2> HIDE DEF c
    <2>3. /\ AfterStep(c).todo = Tail(c.todo) /\ AfterStep(c).plan = c.plan
          /\ AfterStep(c).name = c.name /\ AfterStep(c).planEdit = c.planEdit
        BY <1>2 DEF Command, AfterStep
    <2>4. Target(AfterStep(c), config') = Target(c, config)
        BY <1>4, <2>1, <2>3 DEF Target
    <2> QED BY <1>4, <1>6, <2>1, <2>2, <2>3, <2>4 DEF Agrees
<1> QED BY <1>1, <1>5, <1>6, Advances

\* The second element is the head of the tail.
LEMMA Second ==
    ASSUME NEW S, NEW seq \in Seq(S), 2 \in DOMAIN seq
    PROVE  Tail(seq) # <<>> /\ Head(Tail(seq)) = seq[2]
<1> DEFINE rest == Tail(seq)
<1>1. /\ Len(seq) \in Nat /\ DOMAIN seq = 1..Len(seq) /\ seq # <<>>
      /\ rest \in Seq(S) /\ Len(rest) = Len(seq) - 1
    OBVIOUS
<1>2. Len(rest) >= 1 /\ rest[1] = seq[2]
    BY <1>1
<1> HIDE DEF rest
<1>3. rest # <<>> /\ Head(rest) = seq[2]
    BY <1>1, <1>2
<1> QED BY <1>3 DEF rest

\* A command reads the file of plans.
LEMMA LoadPlansInv ==
    ASSUME Assumptions, IInv, NEW p \in Procs, LoadPlans(p)
    PROVE  IInv'
<1> DEFINE c == proc[p]
           d == IF c.plan = "set"
                THEN [c EXCEPT !.todo = Tail(@), !.planEdit = plans \union {c.name}]
                ELSE IF c.name \in plans
                THEN [c EXCEPT !.todo = Tail(@), !.planEdit = plans \ {c.name}]
                ELSE [c EXCEPT !.todo = Tail(Tail(@))]
           rest == Tail(c.todo)
<1>1. /\ c.todo # <<>> /\ Head(c.todo) = "loadPlans" /\ proc' = [proc EXCEPT ![p] = d]
      /\ UNCHANGED <<config, plans, scene>>
    BY DEF LoadPlans, At
<1>2. /\ c \in Command /\ Form(c) /\ c.cmd # "idle" /\ Consistent(c.edit)
      /\ Serial => (\A q \in Procs \ {p} : proc[q].cmd = "idle") /\ Agrees(c, config, plans)
    BY <1>1, Runs DEF AllCommands
<1>3. c.todo \in Seq(Steps) /\ Ordered(c.todo)
    BY <1>2 DEF Command, Form
<1>4. /\ rest \in Seq(Steps) /\ Ordered(rest) /\ ~Pending(rest, "load")
      /\ ~Pending(rest, "loadPlans") /\ ~Pending(c.todo, "load") /\ Pending(c.todo, "loadPlans")
      /\ Pending(rest, "save") <=> Pending(c.todo, "save")
    BY <1>1, <1>3, Remainder
<1>5. rest # <<>> /\ Head(rest) = "savePlans"
    <2>1. 1 \in DOMAIN c.todo /\ c.todo[1] = "loadPlans"
        BY <1>1, <1>3
    <2>2. 2 \in DOMAIN c.todo /\ c.todo[2] = "savePlans"
        BY <1>3, <2>1 DEF Ordered
    <2> QED BY <1>3, <2>2, Second
<1>6. /\ Tail(rest) \in Seq(Steps) /\ Ordered(Tail(rest)) /\ ~Pending(Tail(rest), "load")
      /\ ~Pending(Tail(rest), "loadPlans") /\ ~Pending(Tail(rest), "savePlans")
      /\ Pending(Tail(rest), "save") <=> Pending(c.todo, "save")
      /\ Pending(rest, "savePlans")
    BY ZenonT(90), <1>4, <1>5, Remainder
<1>7. config' \in Config /\ Consistent(config') /\ plans' \subseteq Names /\ c.name \in Names
    BY <1>1, <1>2 DEF IInv, Shape, CurrentIsAProfile, Command
<1> HIDE DEF c
<1>8. CASE c.plan = "set"
    <2>1. /\ d \in Command /\ d.cmd = c.cmd /\ d.edit = c.edit /\ d.todo = rest
          /\ d.planEdit = plans \union {c.name}
        BY <1>1, <1>2, <1>4, <1>7, <1>8 DEF Command
    <2> HIDE DEF d
    <2>2. Form(d) /\ Target(d, config) = Target(c, config)
        BY <1>4, <2>1 DEF Form, Target
    <2>3. Serial => Agrees(d, config', plans')
        BY <1>1, <1>2, <1>4, <1>6, <1>8, <2>1, <2>2 DEF Agrees
    <2> QED BY <1>1, <1>2, <1>7, <2>1, <2>2, <2>3, Changes DEF c
<1>9. CASE c.plan # "set" /\ c.name \in plans
    <2>1. /\ d \in Command /\ d.cmd = c.cmd /\ d.edit = c.edit /\ d.todo = rest
          /\ d.planEdit = plans \ {c.name}
        BY <1>1, <1>2, <1>4, <1>7, <1>9 DEF Command
    <2> HIDE DEF d
    <2>2. Form(d) /\ Target(d, config) = Target(c, config)
        BY <1>4, <2>1 DEF Form, Target
    <2>3. Serial => Agrees(d, config', plans')
        BY <1>1, <1>2, <1>4, <1>6, <1>9, <2>1, <2>2 DEF Agrees
    <2> QED BY <1>1, <1>2, <1>7, <2>1, <2>2, <2>3, Changes DEF c
<1>10. CASE c.plan # "set" /\ c.name \notin plans
    <2>1. d \in Command /\ d.cmd = c.cmd /\ d.edit = c.edit /\ d.todo = Tail(rest)
        BY <1>1, <1>2, <1>6, <1>10 DEF Command
    <2> HIDE DEF d
    <2>2. Form(d) /\ Target(d, config) = Target(c, config)
        BY <1>6, <2>1 DEF Form, Target
    <2>3. Serial => Agrees(d, config', plans')
        BY <1>1, <1>2, <1>4, <1>6, <1>10, <2>1, <2>2 DEF Agrees
    <2> QED BY <1>1, <1>2, <1>7, <2>1, <2>2, <2>3, Changes DEF c
<1> QED BY <1>8, <1>9, <1>10

\* A command writes the file of plans.
LEMMA SavePlansInv ==
    ASSUME Assumptions, IInv, NEW p \in Procs, SavePlans(p)
    PROVE  IInv'
<1> DEFINE c == proc[p]
<1>1. /\ c.todo # <<>> /\ Head(c.todo) = "savePlans" /\ Advance(p)
      /\ plans' = c.planEdit /\ UNCHANGED <<config, scene>>
    BY DEF SavePlans, At
<1>2. c \in Command /\ Form(c)
    BY <1>1, Runs
<1>3. c.todo \in Seq(Steps) /\ Ordered(c.todo)
    BY <1>2 DEF Command, Form
<1>4. /\ Pending(c.todo, "savePlans") /\ ~Pending(Tail(c.todo), "savePlans")
      /\ ~Pending(Tail(c.todo), "load") /\ ~Pending(c.todo, "load")
      /\ Pending(Tail(c.todo), "loadPlans") <=> Pending(c.todo, "loadPlans")
      /\ Pending(Tail(c.todo), "save") <=> Pending(c.todo, "save")
    BY <1>1, <1>3, Remainder
<1>5. ~Pending(c.todo, "loadPlans")
    <2> SUFFICES ASSUME NEW k \in DOMAIN c.todo, c.todo[k] = "loadPlans" PROVE FALSE
        BY DEF Pending
    <2>1. k + 1 \in DOMAIN c.todo /\ c.todo[k + 1] = "savePlans" /\ k \in Nat \ {0}
        BY <1>3 DEF Ordered
    <2>2. 1 \in DOMAIN c.todo /\ c.todo[1] = "savePlans"
        BY <1>1, <1>3
    <2>3. k + 1 = 1
        BY <1>3, <2>1, <2>2 DEF Ordered
    <2> QED BY <2>1, <2>3
<1>6. config' \in Config /\ Consistent(config') /\ plans' \subseteq Names
    BY <1>1, <1>2 DEF IInv, Shape, CurrentIsAProfile, Command
<1>7. ASSUME Agrees(c, config, plans) PROVE Agrees(AfterStep(c), config', plans')
    <2>1. config' = config /\ plans' = c.planEdit
        BY <1>1
    <2> HIDE DEF c
    <2>2. AfterStep(c).todo = Tail(c.todo) /\ AfterStep(c).edit = c.edit
        BY <1>2 DEF Command, AfterStep
    <2>3. Target(AfterStep(c), config') = Target(c, config)
        BY <1>4, <2>1, <2>2 DEF Target
    <2> QED BY <1>4, <1>5, <1>7, <2>1, <2>2, <2>3 DEF Agrees
<1> QED BY <1>1, <1>6, <1>7, Advances

\* Two sequences of two, one behind the other.
LEMMA TwoAndTwo ==
    ASSUME NEW S, NEW s \in Seq(S), NEW t \in Seq(S), Len(s) = 2, Len(t) = 2
    PROVE  /\ s \o t \in Seq(S) /\ Len(s \o t) = 4 /\ DOMAIN (s \o t) = 1..4
           /\ (s \o t)[1] = s[1] /\ (s \o t)[2] = s[2]
           /\ (s \o t)[3] = t[1] /\ (s \o t)[4] = t[2]
<1> DEFINE both == s \o t
<1>1. /\ both \in Seq(S) /\ Len(both) = Len(s) + Len(t)
      /\ \A k \in 1..Len(s) + Len(t) : both[k] = IF k <= Len(s) THEN s[k] ELSE t[k - Len(s)]
    BY ConcatProperties
<1> HIDE DEF both
<1>2. Len(both) = 4 /\ DOMAIN both = 1..4
    BY <1>1
<1>3. both[1] = s[1] /\ both[2] = s[2] /\ both[3] = t[1] /\ both[4] = t[2]
    BY <1>1
<1> QED BY <1>1, <1>2, <1>3 DEF both

\* logout --all deletes one profile after the other in its copy, and takes the
\* plan of each away before it goes on.
LEMMA PurgeInv ==
    ASSUME Assumptions, IInv, NEW p \in Procs, Purge(p)
    PROVE  IInv'
<1> DEFINE c == proc[p]
<1>1. /\ c.todo # <<>> /\ Head(c.todo) = "purge" /\ UNCHANGED <<config, plans, scene>>
    BY DEF Purge, At
<1>2. /\ c \in Command /\ Form(c) /\ c.cmd # "idle" /\ Consistent(c.edit)
      /\ Serial => (\A q \in Procs \ {p} : proc[q].cmd = "idle") /\ Agrees(c, config, plans)
    BY <1>1, Runs DEF AllCommands
<1>3. c.todo \in Seq(Steps) /\ Ordered(c.todo)
    BY <1>2 DEF Command, Form
<1>4. config' \in Config /\ Consistent(config') /\ plans' \subseteq Names
    BY <1>1 DEF IInv, Shape, CurrentIsAProfile
<1>5. Len(c.todo) = 2 /\ c.todo[1] = "purge" /\ c.todo[2] = "save"
    <2>1. 1 \in DOMAIN c.todo /\ c.todo[1] = "purge"
        BY <1>1, <1>3
    <2> HIDE DEF c
    <2>2. Len(c.todo) = 1 + 1 /\ c.todo[1 + 1] = "save"
        BY <1>3, <2>1 DEF Ordered
    <2> QED BY <2>1, <2>2
<1>6. /\ DOMAIN c.todo = {1, 2} /\ Pending(c.todo, "save")
      /\ ~Pending(c.todo, "load") /\ ~Pending(c.todo, "loadPlans") /\ ~Pending(c.todo, "savePlans")
    <2>1. DOMAIN c.todo = 1..2
        BY <1>3, <1>5
    <2>2. DOMAIN c.todo = {1, 2}
        BY <2>1
    <2> QED BY <1>5, <2>2 DEF Pending
<1>7. Agrees(c, config, plans) <=> plans \subseteq Existing(c.edit)
    BY <1>6 DEF Agrees, Target
<1>8. CASE Advance(p)
    <2>1. /\ \A step \in {"load", "save", "loadPlans", "savePlans"} :
                Pending(Tail(c.todo), step) <=> Pending(c.todo, step)
        BY <1>1, <1>3, Remainder
    <2>2. Agrees(c, config, plans) => Agrees(AfterStep(c), config', plans')
        <3>1. config' = config /\ plans' = plans
            BY <1>1
        <3> HIDE DEF c
        <3>2. AfterStep(c).todo = Tail(c.todo) /\ AfterStep(c).edit = c.edit
            BY <1>2 DEF Command, AfterStep
        <3> QED BY <1>6, <1>7, <2>1, <3>1, <3>2 DEF Agrees, Target
    <2> QED BY <1>1, <1>4, <1>8, <2>2, Advances
<1>9. ASSUME NEW n \in c.victims,
             proc' = [proc EXCEPT ![p] =
                        [c EXCEPT !.name = n, !.plan = "delete", !.edit = Delete(@, n),
                                  !.victims = @ \ {n}, !.todo = PlanSteps("delete") \o @]]
      PROVE  IInv'
    <2> HIDE DEF c
    <2> DEFINE todo == PlanSteps("delete") \o c.todo
               d == [c EXCEPT !.name = n, !.plan = "delete", !.edit = Delete(@, n),
                              !.victims = @ \ {n}, !.todo = todo]
    <2>1. n \in Names /\ c.edit \in Config
        BY <1>2 DEF Command
    <2>2. /\ Delete(c.edit, n) \in Config /\ Consistent(Delete(c.edit, n))
          /\ Existing(Delete(c.edit, n)) = Existing(c.edit) \ {n}
        BY <1>2, <2>1, DeleteKeeps
    <2>3. /\ todo \in Seq(Steps) /\ Len(todo) = 4 /\ DOMAIN todo = 1..4
          /\ todo[1] = "loadPlans" /\ todo[2] = "savePlans"
          /\ todo[3] = "purge" /\ todo[4] = "save"
        <3>1. /\ PlanSteps("delete") \in Seq(Steps) /\ Len(PlanSteps("delete")) = 2
              /\ PlanSteps("delete")[1] = "loadPlans" /\ PlanSteps("delete")[2] = "savePlans"
            BY DEF PlanSteps, Steps
        <3> QED BY <1>3, <1>5, <3>1, TwoAndTwo
    <2> HIDE DEF todo
    <2>4. DOMAIN todo = {1, 2, 3, 4}
        BY <2>3
    <2>5. /\ Ordered(todo) /\ ~Pending(todo, "load") /\ Pending(todo, "loadPlans")
          /\ Pending(todo, "save")
        BY <2>3, <2>4 DEF Ordered, Pending
    <2>6. /\ d \in Command /\ d.cmd = c.cmd /\ d.name = n /\ d.plan = "delete"
          /\ d.edit = Delete(c.edit, n) /\ d.todo = todo
        BY <1>2, <2>1, <2>2, <2>3 DEF Command
    <2>7. proc' = [proc EXCEPT ![p] = d]
        BY <1>9 DEF todo
    <2> HIDE DEF d
    <2>8. Form(d)
        BY <2>5, <2>6 DEF Form
    <2>9. Serial => Agrees(d, config', plans')
        BY <1>1, <1>2, <1>7, <2>2, <2>5, <2>6 DEF Agrees, Target
    <2> QED BY <1>1, <1>2, <1>4, <2>2, <2>6, <2>7, <2>8, <2>9, Changes DEF c
<1>10. ASSUME NEW n \in c.victims, scene.faults,
              proc' = [proc EXCEPT ![p].victims = @ \ {n}]
       PROVE  IInv'
    <2> DEFINE d == [c EXCEPT !.victims = @ \ {n}]
    <2>1. proc' = [proc EXCEPT ![p] = d]
        BY <1>10
    <2> HIDE DEF c
    <2>2. /\ d \in Command /\ d.cmd = c.cmd /\ d.plan = c.plan /\ d.edit = c.edit
          /\ d.todo = c.todo
        BY <1>2 DEF Command
    <2> HIDE DEF d
    <2>3. Form(d) /\ ~Serial
        BY <1>2, <1>10, <2>2 DEF Form, Serial
    <2> QED BY <1>1, <1>2, <1>4, <2>1, <2>2, <2>3, Changes
<1> QED BY ZenonT(90), <1>8, <1>9, <1>10 DEF Purge

\* A command ends by itself, with an error, or because it is killed.
LEMMA EndInv ==
    ASSUME Assumptions, IInv, NEW p \in Procs, Finish(p) \/ Fail(p) \/ Crash(p)
    PROVE  IInv'
<1>1. CASE Finish(p)
    <2>1. /\ proc[p].cmd # "idle" /\ proc[p].todo = <<>> /\ End(p)
          /\ UNCHANGED <<config, plans, scene>>
        BY <1>1 DEF Finish
    <2>2. \A step : ~Pending(proc[p].todo, step)
        BY <2>1 DEF Pending
    <2>3. Serial => plans \subseteq Existing(config)
        BY <2>1, <2>2, Runs DEF Agrees, Target
    <2> QED BY <2>1, <2>3, Ends
<1>2. CASE Fail(p)
    <2>1. /\ ~Serial /\ proc[p].todo # <<>> /\ UNCHANGED <<config, plans, scene>>
        BY <1>2 DEF Fail, Serial, At
    <2>2. proc[p].cmd # "idle"
        BY <2>1, Runs DEF AllCommands
    <2>3. CASE Advance(p)
        BY <2>1, <2>3, Advances DEF IInv, Shape, CurrentIsAProfile
    <2>4. CASE End(p)
        BY <2>1, <2>2, <2>4, Ends
    <2> QED BY <1>2, <2>3, <2>4 DEF Fail
<1>3. CASE Crash(p)
    BY <1>3, Ends DEF Crash, Serial
<1> QED BY <1>1, <1>2, <1>3

\* Nothing else changes it.
LEMMA Stutters ==
    ASSUME IInv, UNCHANGED vars
    PROVE  IInv'
BY DEF IInv, vars, Shape, CurrentIsAProfile, Serial, Turns, Quiet

\* However many commands run at once, fail or are killed, config.json selects a
\* profile it has, and so does every copy of it that a command may still save;
\* and where commands run one after the other, there are Agent Plan defaults
\* only for profiles that exist (console_login.go:578-591,
\* configure_factory.go:292-298, agent_plan.go).
THEOREM ProfilesAgreeAlways ==
    ASSUME Assumptions
    PROVE  Spec => []ProfilesAgree
<1>1. Init => IInv
    BY InitIInv
<1>2. IInv /\ [Next]_vars => IInv'
    <2> SUFFICES ASSUME IInv, [Next]_vars PROVE IInv'
        OBVIOUS
    <2>1. ASSUME NEW p \in Procs, Begin(p) \/ Step(p) \/ Fail(p) \/ Crash(p) PROVE IInv'
        BY <2>1, BeginInv, LoadInv, CacheStepInv, PurgeInv, SaveInv, LoadPlansInv, SavePlansInv,
           EndInv DEF Step
    <2> QED BY <2>1, Stutters DEF Next
<1>3. IInv => ProfilesAgree
    BY DEF IInv, Turns, ProfilesAgree, PlanHasProfile
<1> QED BY <1>1, <1>2, <1>3, PTL DEF Spec


-----------------------------------------------------------------------------
(* Profiles and their cache files *)

\* A step comes before another one wherever both are still to come.
Before(todo, first, later) ==
    \A k, m \in DOMAIN todo : todo[k] = first /\ todo[m] = later => k < m

\* The order of the file steps of a command, and which commands have them.
FileOrder(command, todo) ==
    /\ \A step \in {"writeCache", "removeOld", "removeCache"} : \A k, m \in DOMAIN todo :
          todo[k] = step /\ todo[m] = step => k = m
    /\ Before(todo, "writeCache", "removeOld") /\ Before(todo, "writeCache", "save")
    /\ command = "import" => Before(todo, "save", "removeOld")
    /\ Pending(todo, "writeCache") \/ Pending(todo, "removeOld") => command \in {"login", "import"}
    /\ Pending(todo, "removeCache") => command = "logout"
    /\ Pending(todo, "purge") => command = "logoutAll"

Signs(c) == c.cmd \in {"login", "import"}

\* The command that has loaded config.json and is to store a login of this profile.
Stores(c, n) == Signs(c) /\ n = c.name /\ ~Pending(c.todo, "load")

\* What config.json will be when the command has saved.
View(c, cfg) ==
    IF ~Pending(c.todo, "load") /\ Pending(c.todo, "save") THEN c.edit ELSE cfg

\* Every profile signs in to its own sessions.
Owned(cfg) ==
    \A n \in Names : cfg.profiles[n].session \in
        IF cfg.profiles[n].mode = "console" THEN scene.accounts[n] ELSE {NoSession}

OwnCommand(c) ==
    /\ Signs(c) => c.session \in scene.accounts[c.name]
    /\ ~Pending(c.todo, "load") /\ c.cmd # "logoutAll" =>
          c.old \in scene.accounts[c.name] \union {NoSession}

\* A login stores its profile, a logout drops it.
Derived(c, cfg) ==
    ~Pending(c.todo, "load") =>
        /\ Signs(c) => /\ View(c, cfg).profiles[c.name].mode = "console"
                       /\ View(c, cfg).profiles[c.name].session = c.session
        /\ c.cmd = "logout" => View(c, cfg).profiles[c.name].mode # "console"

\* Of LoginSurvives: now, and when the command has saved.
Lasting == scene.alone /\ OwnAccounts /\ "login" \notin scene.commands
Lasts(c, cfg, stored, gone) ==
    /\ \A n \in Console(cfg) : cfg.profiles[n].session \in stored \/ n \in gone
    /\ \A n \in Console(View(c, cfg)) :
          \/ View(c, cfg).profiles[n].session \in stored
          \/ IF Stores(c, n) THEN Pending(c.todo, "writeCache") ELSE n \in gone
    /\ ~Pending(c.todo, "load") /\ c.cmd = "logout" => c.name \in gone

\* Of LoginHasCache.
HasFiles(c, cfg, stored) ==
    \A n \in Console(View(c, cfg)) :
        \/ View(c, cfg).profiles[n].session \in stored
        \/ Stores(c, n) /\ Pending(c.todo, "writeCache")

\* Of NoOrphanCache: what is still to be removed is the file of the old session.
Tidy == Serial /\ scene.commands \cap {"set", "delete"} = {}
NoOrphans(c, cfg, stored) ==
    \A s \in stored :
        \/ \E n \in Console(View(c, cfg)) : View(c, cfg).profiles[n].session = s
        \/ /\ ~Pending(c.todo, "load") /\ s = c.old
           /\ Pending(c.todo, "removeOld") \/ Pending(c.todo, "removeCache")

\* What holds of the command that runs, where no other does.
AloneInv(c, cfg, stored, gone) ==
    /\ Derived(c, cfg)
    /\ Lasting => Lasts(c, cfg, stored, gone)
    /\ Serial /\ OwnAccounts => HasFiles(c, cfg, stored)
    /\ Tidy => NoOrphans(c, cfg, stored)

CommandInv(c) ==
    /\ Owned(c.edit)
    /\ c.cmd \in scene.commands \union {"idle"}
    /\ c.cmd # "idle" => FileOrder(c.cmd, c.todo) /\ OwnCommand(c)

CacheInv ==
    /\ Owned(config)
    /\ \A p \in Procs : CommandInv(proc[p])
    /\ scene.alone =>
          /\ \A p, q \in Procs : proc[p].cmd # "idle" /\ proc[q].cmd # "idle" => p = q
          /\ \A p \in Procs : proc[p].cmd # "idle" => AloneInv(proc[p], config, caches, retired)
          /\ Quiet => AloneInv(Idle, config, caches, retired)

-----------------------------------------------------------------------------

\* The steps on the plans come last, and do not touch the cache files.
LEMMA FilesWithPlans ==
    ASSUME NEW command, NEW steps \in Seq(Steps), FileOrder(command, steps),
           NEW todo, todo = steps \o <<"loadPlans", "savePlans">>
    PROVE  /\ FileOrder(command, todo)
           /\ \A step \in {"writeCache", "removeOld", "removeCache"} :
                 Pending(todo, step) <=> Pending(steps, step)
<1> DEFINE n == Len(steps)
<1>1. /\ n \in Nat /\ DOMAIN steps = 1..n /\ DOMAIN todo = 1..(n + 2)
      /\ \A k \in 1..n : todo[k] = steps[k]
      /\ todo[n + 1] = "loadPlans" /\ todo[n + 2] = "savePlans"
    BY DEF Steps
<1> HIDE DEF n
<1>2. /\ \A k \in DOMAIN todo : todo[k] \notin {"loadPlans", "savePlans"} => k \in DOMAIN steps
      /\ \A k \in DOMAIN steps : k \in DOMAIN todo /\ todo[k] = steps[k]
    BY <1>1
<1>3. \A step : step \notin {"loadPlans", "savePlans"} => (Pending(todo, step) <=> Pending(steps, step))
    BY <1>2 DEF Pending
<1>4. \A first, later : /\ first \notin {"loadPlans", "savePlans"}
                        /\ later \notin {"loadPlans", "savePlans"}
                        /\ Before(steps, first, later)
                        => Before(todo, first, later)
    BY <1>2 DEF Before
<1>5. \A step \in {"writeCache", "removeOld", "removeCache"} : \A k, m \in DOMAIN todo :
          todo[k] = step /\ todo[m] = step => k = m
    BY <1>2 DEF FileOrder
<1> QED BY <1>3, <1>4, <1>5 DEF FileOrder

\* The order in which every program touches the cache files.
LEMMA FilePrograms ==
    ASSUME NEW command \in AllCommands, NEW plan \in PlanChoices(command)
    PROVE  LET todo == Program(command, plan)
           IN  /\ FileOrder(command, todo)
               /\ command \in {"login", "import"} =>
                     Pending(todo, "writeCache") /\ Pending(todo, "removeOld")
               /\ command = "logout" => Pending(todo, "removeCache")
<1> DEFINE steps == CASE command = "login" -> LoginSteps
                      [] command = "import" -> ImportSteps
                      [] command = "logout" -> LogoutSteps
                      [] command = "logoutAll" -> LogoutAllSteps
                      [] command = "agentPlan" -> <<"load">>
                      [] command \in {"set", "switch", "region", "delete"} -> EditSteps
<1>1. /\ steps \in Seq(Steps) /\ FileOrder(command, steps)
      /\ command \in {"login", "import"} => Pending(steps, "writeCache") /\ Pending(steps, "removeOld")
      /\ command = "logout" => Pending(steps, "removeCache")
    <2> USE DEF FileOrder, Before, Pending, Steps
    <2>1. CASE command = "login"
        <3>1. steps = <<"load", "writeCache", "removeOld", "save">>
            BY <2>1 DEF LoginSteps
        <3> HIDE DEF steps
        <3> QED BY <2>1, <3>1
    <2>2. CASE command = "import"
        <3>1. steps = <<"load", "writeCache", "save", "removeOld">>
            BY <2>2 DEF ImportSteps
        <3> HIDE DEF steps
        <3> QED BY <2>2, <3>1
    <2>3. CASE command = "logout"
        <3>1. steps = <<"load", "removeCache", "save">>
            BY <2>3 DEF LogoutSteps
        <3> HIDE DEF steps
        <3> QED BY <2>3, <3>1
    <2>4. CASE command = "logoutAll"
        <3>1. steps = <<"load", "purge", "save">>
            BY <2>4 DEF LogoutAllSteps
        <3> HIDE DEF steps
        <3> QED BY <2>4, <3>1
    <2>5. CASE command = "agentPlan"
        <3>1. steps = <<"load">>
            BY <2>5
        <3> HIDE DEF steps
        <3> QED BY <2>5, <3>1
    <2>6. CASE command \in {"set", "switch", "region", "delete"}
        <3>1. steps = <<"load", "save">>
            BY <2>6 DEF EditSteps
        <3> HIDE DEF steps
        <3> QED BY <2>6, <3>1
    <2> QED BY <2>1, <2>2, <2>3, <2>4, <2>5, <2>6 DEF AllCommands
<1>2. CASE plan = "keep"
    <2>1. Program(command, plan) = steps
        <3>1. command \in {"logoutAll", "set", "switch", "region"}
            BY <1>2 DEF AllCommands, PlanChoices
        <3>2. LogoutAllSteps \in Seq(Steps) /\ EditSteps \in Seq(Steps)
              /\ EditSteps \o <<>> = EditSteps
            BY DEF LogoutAllSteps, EditSteps, Steps
        <3> QED BY <1>2, <3>1, <3>2 DEF Program, PlanSteps
    <2> QED BY <1>1, <1>2, <2>1
<1>3. CASE plan # "keep"
    <2>1. command # "logoutAll"
        BY <1>3 DEF PlanChoices
    <2>2. Program(command, plan) = steps \o <<"loadPlans", "savePlans">>
        BY <1>3, <2>1 DEF Program, PlanSteps, AllCommands
    <2> HIDE DEF steps
    <2> QED BY <1>1, <1>3, <2>1, <2>2, FilesWithPlans
<1> QED BY <1>2, <1>3

\* What is left of the file steps after the first step.
LEMMA FileRemainder ==
    ASSUME NEW command, NEW todo \in Seq(Steps), todo # <<>>, FileOrder(command, todo)
    PROVE  /\ FileOrder(command, Tail(todo))
           /\ Head(todo) \in {"writeCache", "removeOld", "removeCache"} =>
                 ~Pending(Tail(todo), Head(todo))
           /\ Head(todo) \in {"removeOld", "save"} => ~Pending(todo, "writeCache")
           /\ Head(todo) = "removeOld" /\ command = "import" => ~Pending(todo, "save")
<1> DEFINE rest == Tail(todo)
<1>1. /\ rest \in Seq(Steps) /\ Len(rest) = Len(todo) - 1 /\ Len(todo) \in Nat \ {0}
      /\ Head(todo) = todo[1] /\ DOMAIN todo = 1..Len(todo) /\ DOMAIN rest = 1..Len(rest)
      /\ \A k \in DOMAIN rest : rest[k] = todo[k + 1] /\ k + 1 \in DOMAIN todo
    OBVIOUS
<1> HIDE DEF rest
<1>2. \A first, later : Before(todo, first, later) => Before(rest, first, later)
    BY <1>1 DEF Before
<1>3. \A step : Pending(rest, step) => Pending(todo, step)
    BY <1>1 DEF Pending
<1>4. \A step \in {"writeCache", "removeOld", "removeCache"} : \A k, m \in DOMAIN rest :
          rest[k] = step /\ rest[m] = step => k = m
    BY <1>1 DEF FileOrder
<1>5. FileOrder(command, rest)
    BY <1>2, <1>3, <1>4 DEF FileOrder
<1>6. Head(todo) \in {"writeCache", "removeOld", "removeCache"} => ~Pending(rest, Head(todo))
    BY <1>1 DEF FileOrder, Pending
<1>7. Head(todo) \in {"removeOld", "save"} => ~Pending(todo, "writeCache")
    BY <1>1 DEF FileOrder, Pending, Before
<1>8. Head(todo) = "removeOld" /\ command = "import" => ~Pending(todo, "save")
    BY <1>1 DEF FileOrder, Pending, Before
<1> QED BY <1>5, <1>6, <1>7, <1>8 DEF rest

\* The profiles of what a command has loaded and is to save.
LEMMA DeletedProfiles ==
    ASSUME NEW cfg \in Config, NEW name \in Names
    PROVE  Delete(cfg, name).profiles = [cfg.profiles EXCEPT ![name] = Absent]
BY DEF Config, Delete, Normalize

\* What the edits of each command do to the profiles.
LEMMA EditedProfiles ==
    ASSUME NEW cfg \in Config, NEW c \in Command, c.cmd \in AllCommands, NEW edit \in Edits(c, cfg)
    PROVE  /\ Signs(c) => edit.profiles =
                [cfg.profiles EXCEPT ![c.name] = [mode |-> "console", session |-> c.session]]
           /\ c.cmd \in {"logout", "delete"} => edit.profiles = [cfg.profiles EXCEPT ![c.name] = Absent]
           /\ c.cmd = "set" => edit.profiles =
                [cfg.profiles EXCEPT ![c.name] = [mode |-> "ak", session |-> NoSession]]
           /\ c.cmd \in {"logoutAll", "switch", "region", "agentPlan"} =>
                edit.profiles = cfg.profiles
<1>1. c.name \in Names
    BY DEF Command
<1>2. CASE Signs(c)
    BY <1>1, <1>2 DEF Signs, Edits, SetProfile, Config
<1>3. CASE c.cmd \in {"logout", "delete"}
    <2>1. edit = Delete(cfg, c.name)
        BY <1>3 DEF Edits
    <2> QED BY <1>1, <1>3, <2>1, DeletedProfiles DEF Signs
<1>4. CASE c.cmd = "set"
    BY <1>1, <1>4 DEF Signs, Edits, SetProfile, Config
<1>5. CASE c.cmd \in {"logoutAll", "switch", "region", "agentPlan"}
    BY <1>1, <1>5 DEF Signs, Edits, Config
<1> QED BY <1>2, <1>3, <1>4, <1>5 DEF AllCommands, Signs

-----------------------------------------------------------------------------
(* One command changes *)

\* What the invariants say of a command that runs.
LEMMA Going ==
    ASSUME Assumptions, IInv, CacheInv, NEW p \in Procs,
           proc[p].todo # <<>> \/ proc[p].cmd # "idle"
    PROVE  /\ proc[p] \in Command /\ proc[p].cmd \in AllCommands /\ Ordered(proc[p].todo)
           /\ proc[p].todo \in Seq(Steps)
           /\ Pending(proc[p].todo, "load") => proc[p].plan \in PlanChoices(proc[p].cmd)
                                    /\ proc[p].todo = Program(proc[p].cmd, proc[p].plan)
           /\ FileOrder(proc[p].cmd, proc[p].todo) /\ OwnCommand(proc[p]) /\ Owned(proc[p].edit)
           /\ proc[p].cmd \in scene.commands
           /\ config \in Config /\ Owned(config) /\ scene \in Scene
           /\ scene.alone => /\ \A q \in Procs \ {p} : proc[q].cmd = "idle"
                             /\ AloneInv(proc[p], config, caches, retired)
<1>1. /\ proc[p] \in Command /\ Form(proc[p]) /\ proc[p].cmd \in AllCommands
      /\ proc[p].cmd # "idle"
    BY Runs DEF AllCommands
<1>2. config \in Config /\ scene \in Scene
    BY DEF IInv, Shape, Assumptions
<1> QED BY <1>1, <1>2 DEF Form, CacheInv, CommandInv, Command

\* A step that changes one command and keeps what the invariant asks of the files.
LEMMA CacheChanges ==
    ASSUME IInv, CacheInv, NEW p \in Procs, NEW c,
           proc' = [proc EXCEPT ![p] = c], UNCHANGED scene,
           Owned(config'), CommandInv(c), c.cmd = "idle" => c = Idle,
           scene.alone => /\ \A q \in Procs \ {p} : proc[q].cmd = "idle"
                          /\ AloneInv(c, config', caches', retired')
    PROVE  CacheInv'
<1>1. \A q \in Procs : proc'[q] = IF q = p THEN c ELSE proc[q]
    BY DEF IInv, Shape
<1>2. Owned(config)'
    BY DEF Owned
<1>3. ASSUME NEW q \in Procs PROVE CommandInv(proc[q])'
    <2>1. CASE q = p
        <3>1. proc'[q] = c
            BY <1>1, <2>1
        <3> QED BY <3>1 DEF CommandInv, Owned, OwnCommand, Signs
    <2>2. CASE q # p
        <3>1. proc'[q] = proc[q]
            BY <1>1, <2>2
        <3>2. CommandInv(proc[q])
            BY DEF CacheInv
        <3> QED BY <3>1, <3>2 DEF CommandInv, Owned, OwnCommand, Signs
    <2> QED BY <2>1, <2>2
<1>4. ASSUME scene.alone, NEW q \in Procs, proc'[q].cmd # "idle"
      PROVE  q = p /\ AloneInv(proc[q], config, caches, retired)'
    <2>1. q = p /\ proc'[q] = c
        BY <1>1, <1>4
    <2>2. AloneInv(c, config', caches', retired')
        BY <1>4
    <2> QED BY <2>1, <2>2 DEF AloneInv, Lasting, OwnAccounts, Serial, Tidy
<1>5. ASSUME scene.alone, Quiet' PROVE AloneInv(Idle, config, caches, retired)'
    <2>1. c = Idle
        BY <1>1, <1>5 DEF Quiet
    <2>2. AloneInv(Idle, config', caches', retired')
        BY <1>5, <2>1
    <2> QED BY <2>2 DEF AloneInv, Lasting, OwnAccounts, Serial, Tidy
<1>6. scene' = scene
    OBVIOUS
<1> QED BY <1>2, <1>3, <1>4, <1>5, <1>6 DEF CacheInv

\* The command is over: what holds of it holds of the files.
LEMMA CacheEnds ==
    ASSUME Assumptions, IInv, CacheInv, NEW p \in Procs, proc[p].cmd # "idle", End(p),
           UNCHANGED <<config, caches, scene>>, retired \subseteq retired',
           scene.faults \/ proc[p].todo = <<>> \/ (Head(proc[p].todo) = "load" /\ proc[p].todo # <<>>)
    PROVE  CacheInv'
<1> DEFINE c == proc[p]
<1>1. /\ c \in Command /\ Ordered(c.todo) /\ c.todo \in Seq(Steps)
      /\ config \in Config /\ Owned(config)
      /\ scene.alone => /\ \A q \in Procs \ {p} : proc[q].cmd = "idle"
                        /\ AloneInv(c, config, caches, retired)
    BY Going
<1>2. /\ Idle.cmd = "idle" /\ Idle.todo = <<>> /\ Idle.edit = EmptyConfig
    BY DEF Idle
<1>3. Owned(EmptyConfig)
    BY DEF Owned, EmptyConfig, Absent
<1>4. CommandInv(Idle)
    BY <1>2, <1>3 DEF CommandInv
<1>5. \A step : ~Pending(Idle.todo, step)
    BY <1>2 DEF Pending
<1>6. View(Idle, config) = config /\ \A n : ~Stores(Idle, n)
    BY <1>2, <1>5 DEF View, Stores, Signs
<1>7. ASSUME scene.alone PROVE AloneInv(Idle, config, caches, retired')
    <2>1. AloneInv(c, config, caches, retired)
        BY <1>1, <1>7
    <2>2. Derived(Idle, config)
        BY <1>2 DEF Derived, Signs
    <2>3. Lasting => Lasts(Idle, config, caches, retired')
        BY <1>2, <1>6, <2>1 DEF AloneInv, Lasts
    <2>4. ASSUME Serial PROVE View(c, config) = config /\ (Pending(c.todo, "load") \/ c.todo = <<>>)
        <3>1. c.todo = <<>> \/ (Head(c.todo) = "load" /\ c.todo # <<>>)
            BY <2>4 DEF Serial
        <3>2. c.todo = <<>> => \A step : ~Pending(c.todo, step)
            BY DEF Pending
        <3>3. c.todo # <<>> => Pending(c.todo, Head(c.todo))
            BY <1>1, Remainder
        <3> QED BY <3>1, <3>2, <3>3 DEF View
    <2>5. Serial /\ OwnAccounts => HasFiles(Idle, config, caches)
        <3> SUFFICES ASSUME Serial, OwnAccounts, NEW n \in Console(config)
                     PROVE  config.profiles[n].session \in caches
            BY <1>6 DEF HasFiles
        <3>1. HasFiles(c, config, caches)
            BY <2>1 DEF AloneInv
        <3>2. ~(Stores(c, n) /\ Pending(c.todo, "writeCache"))
            BY <2>4 DEF Stores, Pending
        <3> QED BY <2>4, <3>1, <3>2 DEF HasFiles
    <2>6. Tidy => NoOrphans(Idle, config, caches)
        <3> SUFFICES ASSUME Tidy, NEW s \in caches
                     PROVE  \E n \in Console(config) : config.profiles[n].session = s
            BY <1>6 DEF NoOrphans
        <3>1. NoOrphans(c, config, caches) /\ Serial
            BY <2>1 DEF AloneInv, Tidy
        <3>2. c.todo = <<>> => ~Pending(c.todo, "removeOld") /\ ~Pending(c.todo, "removeCache")
            BY DEF Pending
        <3> QED BY <2>4, <3>1, <3>2 DEF NoOrphans
    <2> QED BY <2>2, <2>3, <2>5, <2>6 DEF AloneInv
<1>8. proc' = [proc EXCEPT ![p] = Idle]
    BY DEF End
<1> QED BY <1>1, <1>4, <1>7, <1>8, CacheChanges

\* A step that leaves the files, and all of a command but its plans and victims.
SameFiles(c, d) ==
    /\ d.cmd = c.cmd /\ d.name = c.name /\ d.session = c.session /\ d.old = c.old
    /\ d.edit = c.edit
    /\ \A step \in {"load", "save", "writeCache", "removeOld", "removeCache"} :
          Pending(d.todo, step) <=> Pending(c.todo, step)

\* A step that touches neither the configuration nor a cache file.
LEMMA QuietStep ==
    ASSUME Assumptions, IInv, CacheInv, NEW p \in Procs, proc[p].todo # <<>>, NEW d,
           proc' = [proc EXCEPT ![p] = d], SameFiles(proc[p], d), FileOrder(d.cmd, d.todo),
           UNCHANGED <<config, caches, retired, scene>>
    PROVE  CacheInv'
<1> DEFINE c == proc[p]
<1>1. /\ c.cmd \in AllCommands /\ c.cmd \in scene.commands
      /\ OwnCommand(c) /\ Owned(c.edit) /\ Owned(config)
      /\ scene.alone => /\ \A q \in Procs \ {p} : proc[q].cmd = "idle"
                        /\ AloneInv(c, config, caches, retired)
    BY Going
<1> HIDE DEF c
<1>2. SameFiles(c, d)
    BY DEF c
<1>3. CommandInv(d)
    BY <1>1, <1>2 DEF SameFiles, CommandInv, OwnCommand, Signs
<1>4. /\ View(d, config) = View(c, config) /\ \A n : Stores(d, n) <=> Stores(c, n)
      /\ Signs(d) <=> Signs(c)
    BY <1>2 DEF SameFiles, View, Stores, Signs
<1>5. AloneInv(c, config, caches, retired) => AloneInv(d, config, caches, retired)
    BY <1>2, <1>4 DEF SameFiles, AloneInv, Derived, Lasts, HasFiles, NoOrphans
<1>6. d.cmd # "idle"
    BY <1>1, <1>2 DEF SameFiles, AllCommands
<1> QED BY <1>1, <1>3, <1>5, <1>6, CacheChanges DEF c

\* The command after a step that is no load.
LEMMA Advanced ==
    ASSUME NEW c \in Command, c.todo # <<>>, Ordered(c.todo), FileOrder(c.cmd, c.todo),
           Head(c.todo) # "load"
    PROVE  LET d == AfterStep(c)
           IN  /\ d.cmd = c.cmd /\ d.name = c.name /\ d.session = c.session /\ d.old = c.old
               /\ d.edit = c.edit /\ d.todo = Tail(c.todo) /\ d.plan = c.plan
               /\ FileOrder(d.cmd, d.todo)
               /\ ~Pending(c.todo, "load") /\ ~Pending(d.todo, "load")
               /\ \A step : step # Head(c.todo) => (Pending(d.todo, step) <=> Pending(c.todo, step))
               /\ Pending(c.todo, Head(c.todo))
<1>1. c.todo \in Seq(Steps)
    BY DEF Command
<1>2. /\ Tail(c.todo) \in Seq(Steps) /\ ~Pending(Tail(c.todo), "load")
      /\ \A step : step # Head(c.todo) => (Pending(Tail(c.todo), step) <=> Pending(c.todo, step))
      /\ Pending(c.todo, Head(c.todo))
    BY <1>1, Remainder
<1>3. FileOrder(c.cmd, Tail(c.todo))
    BY <1>1, FileRemainder
<1> DEFINE d == AfterStep(c)
<1>4. /\ d.cmd = c.cmd /\ d.name = c.name /\ d.session = c.session /\ d.old = c.old
      /\ d.edit = c.edit /\ d.todo = Tail(c.todo) /\ d.plan = c.plan
    BY DEF Command, AfterStep
<1> QED BY <1>2, <1>3, <1>4

-----------------------------------------------------------------------------
(* The steps and the cache files *)

\* The invariant of the cache files holds at first.
LEMMA CacheInit ==
    ASSUME Assumptions, Init
    PROVE  CacheInv
<1>1. /\ Idle.cmd = "idle" /\ Idle.todo = <<>> /\ Idle.edit = EmptyConfig
      /\ \A step : ~Pending(Idle.todo, step)
    BY DEF Idle, Pending
<1>2. Owned(EmptyConfig) /\ Console(EmptyConfig) = {}
    BY DEF Owned, EmptyConfig, Absent, Console
<1>3. config = EmptyConfig /\ caches = {} /\ \A p \in Procs : proc[p] = Idle
    BY DEF Init
<1>4. View(Idle, config) = config
    BY <1>1 DEF View
<1>5. Derived(Idle, config) /\ Lasts(Idle, config, caches, retired)
    BY <1>1, <1>2, <1>3, <1>4 DEF Derived, Signs, Lasts
<1>6. HasFiles(Idle, config, caches) /\ NoOrphans(Idle, config, caches)
    BY <1>2, <1>3, <1>4 DEF HasFiles, NoOrphans
<1>7. AloneInv(Idle, config, caches, retired)
    BY <1>5, <1>6 DEF AloneInv
<1>8. CommandInv(Idle)
    BY <1>1, <1>2 DEF CommandInv
<1> QED BY <1>1, <1>2, <1>3, <1>7, <1>8 DEF CacheInv

\* A command begins.
LEMMA BeginCache ==
    ASSUME Assumptions, IInv, CacheInv, NEW p \in Procs, Begin(p)
    PROVE  CacheInv'
<1>1. PICK command \in scene.commands, name \in Names : \E plan \in PlanChoices(command),
          session \in IF command \in {"login", "import"} THEN scene.accounts[name] ELSE {NoSession} :
             proc' = [proc EXCEPT ![p] =
                        [Idle EXCEPT !.cmd = command, !.name = name, !.session = session,
                                     !.plan = plan, !.todo = Program(command, plan)]]
    BY DEF Begin
<1>2. PICK plan \in PlanChoices(command),
           session \in IF command \in {"login", "import"} THEN scene.accounts[name] ELSE {NoSession} :
             proc' = [proc EXCEPT ![p] =
                        [Idle EXCEPT !.cmd = command, !.name = name, !.session = session,
                                     !.plan = plan, !.todo = Program(command, plan)]]
    BY <1>1
<1> DEFINE todo == Program(command, plan)
           c == [Idle EXCEPT !.cmd = command, !.name = name, !.session = session,
                             !.plan = plan, !.todo = todo]
<1>3. scene \in Scene
    BY DEF IInv, Shape, Assumptions
<1>4. command \in AllCommands /\ command # "idle"
    BY <1>3 DEF Scene, AllCommands
<1>5. Pending(todo, "load") /\ FileOrder(command, todo)
    BY <1>4, Programs, FilePrograms
<1>6. proc' = [proc EXCEPT ![p] = c]
    BY <1>2
<1> HIDE DEF todo
<1>7. /\ c.cmd = command /\ c.todo = todo /\ c.edit = EmptyConfig /\ c.name = name
      /\ c.session = session
    BY DEF Idle
<1> HIDE DEF c
<1>8. Owned(EmptyConfig)
    BY DEF Owned, EmptyConfig, Absent
<1>9. CommandInv(c)
    BY <1>2, <1>5, <1>7, <1>8 DEF CommandInv, OwnCommand, Signs
<1>10. View(c, config) = config /\ View(Idle, config) = config
    BY <1>5, <1>7 DEF View, Idle, Pending
<1>11. ASSUME scene.alone PROVE Quiet /\ AloneInv(Idle, config, caches, retired)
    BY <1>11 DEF Begin, CacheInv
<1>12. ASSUME AloneInv(Idle, config, caches, retired) PROVE AloneInv(c, config, caches, retired)
    <2>1. \A step : ~Pending(Idle.todo, step)
        BY DEF Idle, Pending
    <2>2. \A n : ~Stores(Idle, n) /\ ~Stores(c, n)
        BY <1>5, <1>7 DEF Stores, Signs, Idle
    <2>3. Derived(c, config)
        BY <1>5, <1>7 DEF Derived
    <2>4. Lasting => Lasts(c, config, caches, retired)
        BY <1>5, <1>7, <1>10, <1>12, <2>2 DEF AloneInv, Lasts
    <2>5. Serial /\ OwnAccounts => HasFiles(c, config, caches)
        BY <1>10, <1>12, <2>2 DEF AloneInv, HasFiles
    <2>6. Tidy => NoOrphans(c, config, caches)
        BY <1>10, <1>12, <2>1 DEF AloneInv, NoOrphans
    <2> QED BY <2>3, <2>4, <2>5, <2>6 DEF AloneInv
<1>13. c.cmd # "idle" /\ Owned(config) /\ UNCHANGED <<config, caches, retired, scene>>
    BY <1>4, <1>7 DEF CacheInv, Begin
<1> QED BY <1>6, <1>9, <1>11, <1>12, <1>13, CacheChanges DEF Quiet

\* Sessions of different profiles differ, where every profile has its own.
LEMMA OwnSessions ==
    ASSUME Assumptions, scene \in Scene, OwnAccounts, NEW cfg, Owned(cfg),
           NEW n \in Console(cfg), NEW name \in Names, NEW session,
           session \in scene.accounts[name] \union {NoSession},
           cfg.profiles[n].session = session
    PROVE  n = name
<1>1. n \in Names /\ cfg.profiles[n].session \in scene.accounts[n]
    BY DEF Console, Owned
<1>2. session # NoSession
    BY <1>1 DEF Assumptions, Scene
<1> QED BY <1>1, <1>2 DEF OwnAccounts

\* A command reads the configuration file and decides what to change.
LEMMA LoadCache ==
    ASSUME Assumptions, IInv, CacheInv, NEW p \in Procs, Load(p)
    PROVE  CacheInv'
<1> DEFINE c == proc[p]
<1>1. c.todo # <<>> /\ Head(c.todo) = "load"
    BY DEF Load
<1>2. /\ c \in Command /\ c.cmd \in AllCommands /\ Ordered(c.todo) /\ c.todo \in Seq(Steps)
      /\ Pending(c.todo, "load") => c.plan \in PlanChoices(c.cmd)
                                    /\ c.todo = Program(c.cmd, c.plan)
      /\ FileOrder(c.cmd, c.todo) /\ OwnCommand(c) /\ c.cmd \in scene.commands
      /\ config \in Config /\ Owned(config) /\ scene \in Scene
      /\ scene.alone => /\ \A q \in Procs \ {p} : proc[q].cmd = "idle"
                        /\ AloneInv(c, config, caches, retired)
    BY <1>1, Going
<1>3. UNCHANGED <<config, caches, scene>> /\ retired \subseteq retired'
    BY DEF Load
<1>4. CASE End(p)
    BY <1>1, <1>2, <1>3, <1>4, CacheEnds DEF AllCommands
<1>5. ASSUME NEW edit \in Edits(c, config),
             proc' = [proc EXCEPT ![p] =
                           [c EXCEPT !.todo = Tail(@), !.edit = edit,
                                     !.old = config.profiles[c.name].session,
                                     !.victims = Console(config)]],
             retired' = IF c.cmd = "logout" THEN retired \union {c.name} ELSE retired
      PROVE  CacheInv'
    <2> HIDE DEF c
    <2> DEFINE d == [c EXCEPT !.todo = Tail(@), !.edit = edit,
                              !.old = config.profiles[c.name].session,
                              !.victims = Console(config)]
               rest == Tail(c.todo)
    <2>1. /\ Pending(c.todo, "load") /\ ~Pending(rest, "load")
          /\ \A step : step # "load" => (Pending(rest, step) <=> Pending(c.todo, step))
          /\ FileOrder(c.cmd, rest)
        BY <1>1, <1>2, Remainder, FileRemainder
    <2> HIDE DEF rest
    <2>2. c.plan \in PlanChoices(c.cmd) /\ c.todo = Program(c.cmd, c.plan)
        BY <1>2, <2>1
    <2>3. /\ Signs(c) => Pending(rest, "writeCache") /\ Pending(rest, "removeOld")
          /\ c.cmd = "logout" => Pending(rest, "removeCache")
          /\ Pending(rest, "save") <=> c.cmd # "agentPlan"
        BY <1>2, <2>1, <2>2, FilePrograms, Programs DEF Signs
    <2>4. /\ Signs(c) => edit.profiles =
                [config.profiles EXCEPT ![c.name] = [mode |-> "console", session |-> c.session]]
          /\ c.cmd \in {"logout", "delete"} =>
                edit.profiles = [config.profiles EXCEPT ![c.name] = Absent]
          /\ c.cmd = "set" => edit.profiles =
                [config.profiles EXCEPT ![c.name] = [mode |-> "ak", session |-> NoSession]]
          /\ c.cmd \in {"logoutAll", "switch", "region", "agentPlan"} =>
                edit.profiles = config.profiles
        BY <1>2, <1>5, EditedProfiles
    <2>5. /\ d.cmd = c.cmd /\ d.name = c.name /\ d.session = c.session /\ d.todo = rest
          /\ d.edit = edit /\ d.old = config.profiles[c.name].session
        BY <1>2 DEF Command, rest
    <2>6. proc' = [proc EXCEPT ![p] = d]
        BY <1>5
    <2> HIDE DEF d
    <2>7. c.name \in Names /\ config.profiles \in [Names -> Profile]
        BY <1>2 DEF Command, Config
    <2>8. /\ \A n \in Names : n # c.name => edit.profiles[n] = config.profiles[n]
          /\ Signs(c) => /\ edit.profiles[c.name].mode = "console"
                         /\ edit.profiles[c.name].session = c.session
          /\ c.cmd \in {"logout", "delete", "set"} =>
                /\ edit.profiles[c.name].mode # "console"
                /\ edit.profiles[c.name].session = NoSession
          /\ c.cmd \in {"logoutAll", "switch", "region", "agentPlan"} =>
                edit.profiles[c.name] = config.profiles[c.name]
        <3>1. CASE Signs(c)
            BY <2>4, <2>7, <3>1 DEF Signs
        <3>2. CASE c.cmd \in {"logout", "delete"}
            BY <2>4, <2>7, <3>2 DEF Signs, Absent
        <3>3. CASE c.cmd = "set"
            BY <2>4, <2>7, <3>3 DEF Signs
        <3>4. CASE c.cmd \in {"logoutAll", "switch", "region", "agentPlan"}
            BY <2>4, <2>7, <3>4 DEF Signs
        <3> QED BY <1>2, <3>1, <3>2, <3>3, <3>4 DEF AllCommands, Signs
    <2>9. Owned(edit)
        <3> SUFFICES ASSUME NEW n \in Names
                     PROVE  edit.profiles[n].session \in
                               IF edit.profiles[n].mode = "console" THEN scene.accounts[n]
                               ELSE {NoSession}
            BY DEF Owned
        <3>1. CASE n # c.name \/ c.cmd \in {"logoutAll", "switch", "region", "agentPlan"}
            BY <1>2, <2>8, <3>1 DEF Owned
        <3>2. CASE n = c.name /\ Signs(c)
            BY <1>2, <2>8, <3>2 DEF OwnCommand
        <3>3. CASE n = c.name /\ c.cmd \in {"logout", "delete", "set"}
            BY <2>8, <3>3
        <3> QED BY <1>2, <3>1, <3>2, <3>3 DEF AllCommands, Signs
    <2>10. CommandInv(d)
        <3>1. d.old \in scene.accounts[c.name] \union {NoSession}
            BY <1>2, <2>5, <2>7 DEF Owned
        <3> QED BY <1>2, <2>1, <2>5, <2>9, <3>1 DEF CommandInv, OwnCommand, Signs
    <2>11. /\ View(c, config) = config /\ \A n : ~Stores(c, n)
           /\ View(d, config).profiles = edit.profiles
           /\ \A n : Stores(d, n) <=> Signs(c) /\ n = c.name
        <3>1. View(c, config) = config /\ \A n : ~Stores(c, n)
            BY <2>1 DEF View, Stores
        <3>2. View(d, config).profiles = edit.profiles
            BY <2>1, <2>3, <2>4, <2>5 DEF View
        <3>3. \A n : Stores(d, n) <=> Signs(c) /\ n = c.name
            BY <2>1, <2>5 DEF Stores, Signs
        <3> QED BY <3>1, <3>2, <3>3
    <2> DEFINE view == View(d, config)
    <2>12. \A n \in Console(view) : /\ n \in Names /\ view.profiles[n] = edit.profiles[n]
                                    /\ edit.profiles[n].mode = "console"
        BY <2>11 DEF Console
    <2>13. \A n \in Console(view) :
              \/ Stores(d, n)
              \/ n \in Console(config) /\ view.profiles[n].session = config.profiles[n].session
        <3> SUFFICES ASSUME NEW n \in Console(view), ~Stores(d, n)
                     PROVE  n \in Console(config)
                            /\ view.profiles[n].session = config.profiles[n].session
            OBVIOUS
        <3>1. n # c.name \/ ~Signs(c)
            BY <2>11
        <3>2. edit.profiles[n] = config.profiles[n]
            BY <1>2, <2>8, <2>12, <3>1 DEF AllCommands, Signs
        <3> QED BY <2>12, <3>2 DEF Console
    <2>14. AloneInv(c, config, caches, retired) => AloneInv(d, config, caches, retired')
        <3> SUFFICES ASSUME AloneInv(c, config, caches, retired)
                     PROVE  AloneInv(d, config, caches, retired')
            OBVIOUS
        <3>1. Derived(d, config)
            BY <2>5, <2>8, <2>11 DEF Derived, Signs
        <3>2. ASSUME Lasting PROVE Lasts(d, config, caches, retired')
            <4>1. \A n \in Console(config) : config.profiles[n].session \in caches \/ n \in retired'
                BY <1>3, <3>2 DEF AloneInv, Lasts
            <4>2. \A n : Stores(d, n) => Pending(d.todo, "writeCache")
                BY <2>3, <2>5, <2>11
            <4>3. d.cmd = "logout" => d.name \in retired'
                BY <1>5, <2>5
            <4> QED BY <2>13, <4>1, <4>2, <4>3 DEF Lasts
        <3>3. ASSUME Serial, OwnAccounts PROVE HasFiles(d, config, caches)
            <4>1. \A n \in Console(config) : config.profiles[n].session \in caches
                BY <2>11, <3>3 DEF AloneInv, HasFiles
            <4>2. \A n : Stores(d, n) => Pending(d.todo, "writeCache")
                BY <2>3, <2>5, <2>11
            <4> QED BY <2>13, <4>1, <4>2 DEF HasFiles
        <3>4. ASSUME Tidy, NEW s \in caches
              PROVE  \/ \E n \in Console(view) : view.profiles[n].session = s
                     \/ /\ ~Pending(d.todo, "load") /\ s = d.old
                        /\ Pending(d.todo, "removeOld") \/ Pending(d.todo, "removeCache")
            <4>1. PICK n \in Console(config) : config.profiles[n].session = s
                BY <2>1, <2>11, <3>4 DEF AloneInv, NoOrphans
            <4>2. c.cmd \notin {"set", "delete"}
                BY <1>2, <3>4 DEF Tidy
            <4>3. CASE n = c.name /\ (Signs(c) \/ c.cmd = "logout")
                BY <2>1, <2>3, <2>5, <4>1, <4>3
            <4>4. CASE n # c.name \/ c.cmd \in {"logoutAll", "switch", "region", "agentPlan"}
                <5>1. n \in Names /\ edit.profiles[n] = config.profiles[n]
                    BY <2>8, <4>4 DEF Console
                <5>2. n \in Console(view)
                    BY <2>11, <4>1, <5>1 DEF Console
                <5> QED BY <2>12, <4>1, <5>1, <5>2
            <4> QED BY <1>2, <4>2, <4>3, <4>4 DEF AllCommands, Signs
        <3> QED BY <3>1, <3>2, <3>3, <3>4 DEF AloneInv, NoOrphans
    <2>15. d.cmd # "idle"
        BY <1>2, <2>5 DEF AllCommands
    <2> HIDE DEF view
    <2> QED BY <1>2, <1>3, <2>6, <2>10, <2>14, <2>15, CacheChanges
<1> QED BY <1>4, <1>5 DEF Load

\* The cache file of the new session is written before the profile.
LEMMA WriteCacheCache ==
    ASSUME Assumptions, IInv, CacheInv, NEW p \in Procs, WriteCache(p)
    PROVE  CacheInv'
<1> DEFINE c == proc[p]
           d == AfterStep(c)
<1>1. /\ c.todo # <<>> /\ Head(c.todo) = "writeCache" /\ caches' = caches \union {c.session}
      /\ proc' = [proc EXCEPT ![p] = d] /\ UNCHANGED <<config, retired, scene>>
    BY DEF WriteCache, At, Advance, AfterStep
<1>2. /\ c \in Command /\ c.cmd \in AllCommands /\ Ordered(c.todo) /\ c.todo \in Seq(Steps)
      /\ FileOrder(c.cmd, c.todo) /\ OwnCommand(c) /\ Owned(c.edit) /\ c.cmd \in scene.commands
      /\ config \in Config /\ Owned(config) /\ scene \in Scene
      /\ scene.alone => /\ \A q \in Procs \ {p} : proc[q].cmd = "idle"
                        /\ AloneInv(c, config, caches, retired)
    BY <1>1, Going
<1> HIDE DEF c
<1>3. /\ d.cmd = c.cmd /\ d.name = c.name /\ d.session = c.session /\ d.old = c.old
      /\ d.edit = c.edit /\ d.todo = Tail(c.todo)
      /\ FileOrder(d.cmd, d.todo)
      /\ ~Pending(c.todo, "load") /\ ~Pending(d.todo, "load")
      /\ \A step : step # "writeCache" => (Pending(d.todo, step) <=> Pending(c.todo, step))
      /\ Pending(c.todo, "writeCache")
    BY <1>1, <1>2, Advanced
<1> HIDE DEF d
<1>4. Signs(c) /\ c.name \in Names
    BY <1>2, <1>3 DEF FileOrder, Signs, Command
<1>5. /\ View(d, config) = View(c, config) /\ \A n : Stores(d, n) <=> Stores(c, n)
      /\ Signs(d) <=> Signs(c)
    BY <1>3 DEF View, Stores, Signs
<1>6. CommandInv(d) /\ d.cmd # "idle"
    BY <1>2, <1>3, <1>5 DEF CommandInv, OwnCommand, AllCommands
<1>7. ASSUME AloneInv(c, config, caches, retired)
      PROVE  AloneInv(d, config, caches', retired)
    <2> DEFINE view == View(c, config)
    <2>1. view.profiles[c.name].mode = "console" /\ view.profiles[c.name].session = c.session
        BY <1>3, <1>4, <1>7 DEF AloneInv, Derived
    <2>2. Derived(d, config)
        BY <1>3, <1>5, <1>7 DEF AloneInv, Derived
    <2>3. \A n : Stores(c, n) => view.profiles[n].session \in caches'
        BY <1>1, <2>1 DEF Stores
    <2> HIDE DEF view
    <2>4. ASSUME Lasting PROVE Lasts(d, config, caches', retired)
        <3>1. Lasts(c, config, caches, retired)
            BY <1>7, <2>4 DEF AloneInv
        <3>2. \A n \in Console(config) : config.profiles[n].session \in caches' \/ n \in retired
            BY <1>1, <3>1 DEF Lasts
        <3>3. \A n \in Console(view) : view.profiles[n].session \in caches' \/ (~Stores(c, n) /\ n \in retired)
            BY <1>1, <2>3, <3>1 DEF Lasts, view
        <3>4. d.cmd # "logout"
            BY <1>3, <1>4 DEF Signs
        <3> QED BY <1>5, <3>2, <3>3, <3>4 DEF Lasts, view
    <2>5. ASSUME Serial, OwnAccounts PROVE HasFiles(d, config, caches')
        <3>1. HasFiles(c, config, caches)
            BY <1>7, <2>5 DEF AloneInv
        <3> QED BY <1>1, <1>5, <2>3, <3>1 DEF HasFiles, view
    <2>6. ASSUME Tidy PROVE NoOrphans(d, config, caches')
        <3>1. NoOrphans(c, config, caches)
            BY <1>7, <2>6 DEF AloneInv
        <3>2. c.name \in Console(view) /\ view.profiles[c.name].session = c.session
            BY <1>4, <2>1 DEF Console
        <3> QED BY <1>1, <1>3, <1>5, <3>1, <3>2 DEF NoOrphans, view
    <2> QED BY <2>2, <2>4, <2>5, <2>6 DEF AloneInv
<1> QED BY <1>1, <1>2, <1>6, <1>7, CacheChanges

\* The removal of a file that no profile but that of the command names.
LEMMA RemovedFile ==
    ASSUME Assumptions, scene \in Scene, OwnAccounts, NEW c, c.name \in Names, OwnCommand(c),
           ~Pending(c.todo, "load"), c.cmd # "logoutAll", NEW cfg, Owned(cfg),
           NEW steps, NEW n \in Console(cfg), n # c.name, cfg.profiles[n].session \in steps
    PROVE  cfg.profiles[n].session \in steps \ {c.old}
<1>1. c.old \in scene.accounts[c.name] \union {NoSession}
    BY DEF OwnCommand
<1>2. cfg.profiles[n].session # c.old
    BY <1>1, OwnSessions
<1> QED BY <1>2

\* The cache file of the session that was replaced is removed.
LEMMA RemoveOldCache ==
    ASSUME Assumptions, IInv, CacheInv, NEW p \in Procs, RemoveOld(p)
    PROVE  CacheInv'
<1> DEFINE c == proc[p]
           d == AfterStep(c)
<1>1. /\ c.todo # <<>> /\ Head(c.todo) = "removeOld"
      /\ caches' = caches \/ (caches' = caches \ {c.old} /\ c.old # c.session)
      /\ ~scene.faults /\ c.old # c.session => caches' = caches \ {c.old}
      /\ proc' = [proc EXCEPT ![p] = d] /\ UNCHANGED <<config, retired, scene>>
    BY DEF RemoveOld, At, Advance, AfterStep
<1>2. /\ c \in Command /\ c.cmd \in AllCommands /\ Ordered(c.todo) /\ c.todo \in Seq(Steps)
      /\ FileOrder(c.cmd, c.todo) /\ OwnCommand(c) /\ Owned(c.edit) /\ c.cmd \in scene.commands
      /\ config \in Config /\ Owned(config) /\ scene \in Scene
      /\ scene.alone => /\ \A q \in Procs \ {p} : proc[q].cmd = "idle"
                        /\ AloneInv(c, config, caches, retired)
    BY <1>1, Going
<1> HIDE DEF c
<1>3. /\ d.cmd = c.cmd /\ d.name = c.name /\ d.session = c.session /\ d.old = c.old
      /\ d.edit = c.edit /\ d.todo = Tail(c.todo)
      /\ FileOrder(d.cmd, d.todo)
      /\ ~Pending(c.todo, "load") /\ ~Pending(d.todo, "load")
      /\ \A step : step # "removeOld" => (Pending(d.todo, step) <=> Pending(c.todo, step))
      /\ Pending(c.todo, "removeOld")
    BY <1>1, <1>2, Advanced
<1> HIDE DEF d
<1>4. ~Pending(c.todo, "writeCache") /\ (c.cmd = "import" => ~Pending(c.todo, "save"))
    BY <1>1, <1>2, FileRemainder
<1>5. Signs(c) /\ c.name \in Names /\ c.cmd # "logoutAll" /\ c.cmd # "logout"
    BY <1>2, <1>3 DEF FileOrder, Signs, Command
<1>6. /\ View(d, config) = View(c, config) /\ \A n : Stores(d, n) <=> Stores(c, n)
      /\ (Signs(d) <=> Signs(c)) /\ Owned(View(c, config))
    BY <1>2, <1>3 DEF View, Stores, Signs
<1>7. CommandInv(d) /\ d.cmd # "idle"
    BY <1>2, <1>3, <1>6 DEF CommandInv, OwnCommand, AllCommands
<1>8. ASSUME AloneInv(c, config, caches, retired)
      PROVE  AloneInv(d, config, caches', retired)
    <2> DEFINE view == View(c, config)
    <2>1. view.profiles[c.name].mode = "console" /\ view.profiles[c.name].session = c.session
        BY <1>3, <1>5, <1>8 DEF AloneInv, Derived
    <2>2. Derived(d, config)
        BY <1>3, <1>6, <1>8 DEF AloneInv, Derived
    <2>3. Owned(view)
        BY <1>6
    <2> HIDE DEF view
    <2>4. ASSUME OwnAccounts, NEW n \in Console(view), view.profiles[n].session \in caches
          PROVE  view.profiles[n].session \in caches'
        <3>1. CASE n = c.name
            BY <1>1, <2>1, <2>4, <3>1
        <3>2. CASE n # c.name
            <4>1. view.profiles[n].session \in caches \ {c.old}
                BY <1>2, <1>3, <1>5, <2>4, <2>3, <3>2, RemovedFile
            <4> QED BY <1>1, <4>1
        <3> QED BY <3>1, <3>2
    <2>5. ASSUME Lasting PROVE Lasts(d, config, caches', retired)
        <3>1. Lasts(c, config, caches, retired)
            BY <1>8, <2>5 DEF AloneInv
        <3>2. c.cmd = "import" /\ OwnAccounts
            BY <1>2, <1>5, <2>5 DEF Lasting, Signs
        <3>3. view = config
            BY <1>4, <3>2 DEF view, View
        <3>4. \A n \in Console(config) : config.profiles[n].session \in caches' \/ n \in retired
            BY <2>4, <3>1, <3>2, <3>3 DEF Lasts
        <3>5. \A n \in Console(view) : \/ view.profiles[n].session \in caches'
                                       \/ (~Stores(c, n) /\ n \in retired)
            BY <1>4, <2>4, <3>1, <3>2 DEF Lasts, view
        <3>6. d.cmd # "logout"
            BY <1>3, <1>5
        <3> QED BY <1>6, <3>4, <3>5, <3>6 DEF Lasts, view
    <2>6. ASSUME Serial, OwnAccounts PROVE HasFiles(d, config, caches')
        <3>1. HasFiles(c, config, caches)
            BY <1>8, <2>6 DEF AloneInv
        <3>2. \A n \in Console(view) : view.profiles[n].session \in caches'
            BY <1>4, <2>4, <2>6, <3>1 DEF HasFiles, view
        <3> QED BY <1>6, <3>2 DEF HasFiles, view
    <2>7. ASSUME Tidy, NEW s \in caches'
          PROVE  \E n \in Console(view) : view.profiles[n].session = s
        <3>1. NoOrphans(c, config, caches) /\ ~scene.faults
            BY <1>8, <2>7 DEF AloneInv, Tidy, Serial
        <3>2. s \in caches /\ (s = c.old => c.old = c.session)
            BY <1>1, <2>7, <3>1
        <3>3. c.name \in Console(view) /\ view.profiles[c.name].session = c.session
            BY <1>5, <2>1 DEF Console
        <3> QED BY <3>1, <3>2, <3>3 DEF NoOrphans, view
    <2> QED BY <1>6, <2>2, <2>5, <2>6, <2>7 DEF AloneInv, NoOrphans, view
<1> QED BY <1>1, <1>2, <1>7, <1>8, CacheChanges

\* The cache file of a session that was logged out is removed.
LEMMA RemoveCacheCache ==
    ASSUME Assumptions, IInv, CacheInv, NEW p \in Procs, RemoveCache(p)
    PROVE  CacheInv'
<1> DEFINE c == proc[p]
           d == AfterStep(c)
<1>1. /\ c.todo # <<>> /\ Head(c.todo) = "removeCache" /\ caches' = caches \ {c.old}
      /\ proc' = [proc EXCEPT ![p] = d] /\ UNCHANGED <<config, retired, scene>>
    BY DEF RemoveCache, At, Advance, AfterStep
<1>2. /\ c \in Command /\ c.cmd \in AllCommands /\ Ordered(c.todo) /\ c.todo \in Seq(Steps)
      /\ FileOrder(c.cmd, c.todo) /\ OwnCommand(c) /\ Owned(c.edit) /\ c.cmd \in scene.commands
      /\ config \in Config /\ Owned(config) /\ scene \in Scene
      /\ scene.alone => /\ \A q \in Procs \ {p} : proc[q].cmd = "idle"
                        /\ AloneInv(c, config, caches, retired)
    BY <1>1, Going
<1> HIDE DEF c
<1>3. /\ d.cmd = c.cmd /\ d.name = c.name /\ d.session = c.session /\ d.old = c.old
      /\ d.edit = c.edit /\ d.todo = Tail(c.todo)
      /\ FileOrder(d.cmd, d.todo)
      /\ ~Pending(c.todo, "load") /\ ~Pending(d.todo, "load")
      /\ \A step : step # "removeCache" => (Pending(d.todo, step) <=> Pending(c.todo, step))
      /\ Pending(c.todo, "removeCache")
    BY <1>1, <1>2, Advanced
<1> HIDE DEF d
<1>4. c.cmd = "logout" /\ c.name \in Names /\ ~Signs(c)
    BY <1>2, <1>3 DEF FileOrder, Signs, Command
<1>5. /\ View(d, config) = View(c, config) /\ \A n : ~Stores(d, n) /\ ~Stores(c, n)
      /\ ~Signs(d) /\ Owned(View(c, config))
    BY <1>2, <1>3, <1>4 DEF View, Stores, Signs
<1>6. CommandInv(d) /\ d.cmd # "idle"
    BY <1>2, <1>3, <1>4, <1>5 DEF CommandInv, OwnCommand, AllCommands
<1>7. ASSUME AloneInv(c, config, caches, retired)
      PROVE  AloneInv(d, config, caches', retired)
    <2> DEFINE view == View(c, config)
    <2>1. Derived(d, config)
        BY <1>3, <1>5, <1>7 DEF AloneInv, Derived
    <2>2. \A n \in Console(view) : n # c.name
        BY <1>3, <1>4, <1>7 DEF AloneInv, Derived, Console
    <2> HIDE DEF view
    <2>3. ASSUME OwnAccounts, NEW cfg, Owned(cfg), NEW n \in Console(cfg), n # c.name,
                 cfg.profiles[n].session \in caches
          PROVE  cfg.profiles[n].session \in caches'
        BY <1>1, <1>2, <1>3, <1>4, <2>3, RemovedFile
    <2>4. ASSUME Lasting PROVE Lasts(d, config, caches', retired)
        <3>1. Lasts(c, config, caches, retired) /\ OwnAccounts
            BY <1>7, <2>4 DEF AloneInv, Lasting
        <3>2. c.name \in retired
            BY <1>3, <1>4, <3>1 DEF Lasts
        <3>3. \A n \in Console(config) : config.profiles[n].session \in caches' \/ n \in retired
            BY <1>2, <2>3, <3>1, <3>2 DEF Lasts
        <3>4. \A n \in Console(view) : view.profiles[n].session \in caches' \/ n \in retired
            BY <1>5, <2>2, <2>3, <3>1 DEF Lasts, view
        <3> QED BY <1>3, <1>5, <3>2, <3>3, <3>4 DEF Lasts, view
    <2>5. ASSUME Serial, OwnAccounts PROVE HasFiles(d, config, caches')
        <3>1. HasFiles(c, config, caches)
            BY <1>7, <2>5 DEF AloneInv
        <3>2. \A n \in Console(view) : view.profiles[n].session \in caches'
            BY <1>5, <2>2, <2>3, <2>5, <3>1 DEF HasFiles, view
        <3> QED BY <1>5, <3>2 DEF HasFiles, view
    <2>6. ASSUME Tidy PROVE NoOrphans(d, config, caches')
        <3>1. NoOrphans(c, config, caches)
            BY <1>7, <2>6 DEF AloneInv
        <3> QED BY <1>1, <1>5, <3>1 DEF NoOrphans
    <2> QED BY <2>1, <2>4, <2>5, <2>6 DEF AloneInv
<1> QED BY <1>1, <1>2, <1>6, <1>7, CacheChanges

\* The plan steps, which touch no cache file.
LEMMA PlansCache ==
    ASSUME Assumptions, IInv, CacheInv, NEW p \in Procs, LoadPlans(p) \/ SavePlans(p)
    PROVE  CacheInv'
<1> DEFINE c == proc[p]
           rest == Tail(c.todo)
<1>1. /\ c.todo # <<>> /\ Head(c.todo) \in {"loadPlans", "savePlans"}
      /\ UNCHANGED <<config, caches, retired, scene>>
    BY DEF LoadPlans, SavePlans, At
<1>2. /\ c \in Command /\ Ordered(c.todo) /\ c.todo \in Seq(Steps) /\ FileOrder(c.cmd, c.todo)
    BY <1>1, Going
<1>3. /\ rest \in Seq(Steps) /\ Ordered(rest) /\ FileOrder(c.cmd, rest)
      /\ ~Pending(rest, "load") /\ ~Pending(c.todo, "load")
      /\ \A step \in {"save", "writeCache", "removeOld", "removeCache"} :
            Pending(rest, step) <=> Pending(c.todo, step)
    BY <1>1, <1>2, Remainder, FileRemainder
<1> HIDE DEF rest, c
<1>4. ASSUME NEW d, proc' = [proc EXCEPT ![p] = d], d.cmd = c.cmd, d.name = c.name,
             d.session = c.session, d.old = c.old, d.edit = c.edit, d.todo = rest
      PROVE  CacheInv'
    <2>1. SameFiles(c, d) /\ FileOrder(d.cmd, d.todo)
        BY <1>3, <1>4 DEF SameFiles
    <2> QED BY <1>1, <1>4, <2>1, QuietStep DEF c
<1>5. CASE SavePlans(p)
    <2> DEFINE d == AfterStep(c)
    <2>1. proc' = [proc EXCEPT ![p] = d]
        BY <1>5 DEF SavePlans, Advance, AfterStep, c
    <2>2. /\ d.cmd = c.cmd /\ d.name = c.name /\ d.session = c.session /\ d.old = c.old
          /\ d.edit = c.edit /\ d.todo = rest
        BY <1>2 DEF AfterStep, Command, rest
    <2> HIDE DEF d
    <2> QED BY <1>4, <2>1, <2>2
<1>6. CASE LoadPlans(p)
    <2>1. CASE c.plan = "set"
        <3> DEFINE d == [c EXCEPT !.todo = Tail(@), !.planEdit = plans \union {c.name}]
        <3>1. proc' = [proc EXCEPT ![p] = d]
            BY <1>6, <2>1 DEF LoadPlans, c
        <3>2. /\ d.cmd = c.cmd /\ d.name = c.name /\ d.session = c.session /\ d.old = c.old
              /\ d.edit = c.edit /\ d.todo = rest
            BY <1>2 DEF Command, rest
        <3> HIDE DEF d
        <3> QED BY <1>4, <3>1, <3>2
    <2>2. CASE c.plan # "set" /\ c.name \in plans
        <3> DEFINE d == [c EXCEPT !.todo = Tail(@), !.planEdit = plans \ {c.name}]
        <3>1. proc' = [proc EXCEPT ![p] = d]
            BY <1>6, <2>2 DEF LoadPlans, c
        <3>2. /\ d.cmd = c.cmd /\ d.name = c.name /\ d.session = c.session /\ d.old = c.old
              /\ d.edit = c.edit /\ d.todo = rest
            BY <1>2 DEF Command, rest
        <3> HIDE DEF d
        <3> QED BY <1>4, <3>1, <3>2
    <2>3. CASE c.plan # "set" /\ c.name \notin plans
        <3> DEFINE d == [c EXCEPT !.todo = Tail(Tail(@))]
        <3>1. proc' = [proc EXCEPT ![p] = d]
            BY <1>6, <2>3 DEF LoadPlans, c
        <3>2. /\ d.cmd = c.cmd /\ d.name = c.name /\ d.session = c.session /\ d.old = c.old
              /\ d.edit = c.edit /\ d.todo = Tail(rest)
            BY <1>2 DEF Command, rest
        <3> HIDE DEF d
        <3>3. rest # <<>> /\ Head(rest) = "savePlans"
            <4>1. Head(c.todo) = "loadPlans"
                BY <1>6 DEF LoadPlans, At, c
            <4>2. 1 \in DOMAIN c.todo /\ c.todo[1] = "loadPlans"
                BY <1>1, <1>2, <4>1
            <4>3. 2 \in DOMAIN c.todo /\ c.todo[2] = "savePlans"
                BY <1>2, <4>2 DEF Ordered
            <4> QED BY <1>2, <4>3, Second DEF rest
        <3>4. /\ FileOrder(c.cmd, Tail(rest)) /\ ~Pending(Tail(rest), "load")
              /\ \A step \in {"save", "writeCache", "removeOld", "removeCache"} :
                    Pending(Tail(rest), step) <=> Pending(rest, step)
            BY <1>3, <3>3, Remainder, FileRemainder
        <3>5. SameFiles(c, d) /\ FileOrder(d.cmd, d.todo)
            BY <1>3, <3>2, <3>4 DEF SameFiles
        <3> QED BY <1>1, <3>1, <3>5, QuietStep DEF c
    <2> QED BY <2>1, <2>2, <2>3
<1> QED BY <1>5, <1>6

\* What is before logout --all when it comes to its victims.
LEMMA PurgeTodo ==
    ASSUME NEW c \in Command, c.todo # <<>>, Head(c.todo) = "purge", Ordered(c.todo)
    PROVE  /\ Len(c.todo) = 2 /\ c.todo[1] = "purge" /\ c.todo[2] = "save"
           /\ \A step : Pending(c.todo, step) <=> step \in {"purge", "save"}
           /\ LET todo == PlanSteps("delete") \o c.todo
              IN  \A step : Pending(todo, step) <=>
                     step \in {"loadPlans", "savePlans", "purge", "save"}
<1> DEFINE s == c.todo
           todo == PlanSteps("delete") \o s
<1>1. s \in Seq(Steps) /\ s # <<>> /\ Head(s) = "purge" /\ Ordered(s)
    BY DEF Command
<1> HIDE DEF s
<1>2. 1 \in DOMAIN s /\ s[1] = "purge"
    BY <1>1
<1>3. Len(s) = 2 /\ s[2] = "save"
    <2>1. Len(s) = 1 + 1 /\ s[1 + 1] = "save"
        BY <1>1, <1>2 DEF Ordered
    <2> QED BY <2>1
<1>4. DOMAIN s = {1, 2}
    <2>1. DOMAIN s = 1..2
        BY <1>1, <1>3
    <2> QED BY <2>1
<1>5. DOMAIN todo = 1..4 /\ todo[1] = "loadPlans" /\ todo[2] = "savePlans"
      /\ todo[3] = "purge" /\ todo[4] = "save"
    <2>1. /\ PlanSteps("delete") \in Seq(Steps) /\ Len(PlanSteps("delete")) = 2
          /\ PlanSteps("delete")[1] = "loadPlans" /\ PlanSteps("delete")[2] = "savePlans"
        BY DEF PlanSteps, Steps
    <2> QED BY <1>1, <1>2, <1>3, <2>1, TwoAndTwo
<1> HIDE DEF todo
<1>6. DOMAIN todo = {1, 2, 3, 4}
    BY <1>5
<1>7. \A step : Pending(s, step) <=> step \in {"purge", "save"}
    BY <1>2, <1>3, <1>4 DEF Pending
<1>8. \A step : Pending(todo, step) <=> step \in {"loadPlans", "savePlans", "purge", "save"}
    BY SMTT(60), <1>5, <1>6 DEF Pending
<1> QED BY <1>2, <1>3, <1>7, <1>8 DEF s, todo

\* The next cache file that a logout of all names is removed.
LEMMA PurgeCache ==
    ASSUME Assumptions, IInv, CacheInv, NEW p \in Procs, Purge(p)
    PROVE  CacheInv'
<1> DEFINE c == proc[p]
<1>1. /\ c.todo # <<>> /\ Head(c.todo) = "purge" /\ UNCHANGED <<config, scene>>
    BY DEF Purge, At
<1>2. /\ c \in Command /\ c.cmd \in AllCommands /\ Ordered(c.todo) /\ c.todo \in Seq(Steps)
      /\ FileOrder(c.cmd, c.todo) /\ OwnCommand(c) /\ Owned(c.edit) /\ c.cmd \in scene.commands
      /\ config \in Config /\ Owned(config) /\ scene \in Scene
      /\ scene.alone => /\ \A q \in Procs \ {p} : proc[q].cmd = "idle"
                        /\ AloneInv(c, config, caches, retired)
    BY <1>1, Going
<1>3. \A step : Pending(c.todo, step) <=> step \in {"purge", "save"}
    BY <1>1, <1>2, PurgeTodo
<1>4. c.cmd = "logoutAll"
    BY <1>2, <1>3 DEF FileOrder
<1>5. CASE Advance(p) /\ UNCHANGED <<caches, retired>>
    <2> DEFINE d == AfterStep(c)
    <2>1. proc' = [proc EXCEPT ![p] = d]
        BY <1>5 DEF Advance, AfterStep
    <2>2. SameFiles(c, d) /\ FileOrder(d.cmd, d.todo)
        <3> HIDE DEF c
        <3>1. /\ d.cmd = c.cmd /\ d.name = c.name /\ d.session = c.session /\ d.old = c.old
              /\ d.edit = c.edit /\ d.todo = Tail(c.todo) /\ FileOrder(d.cmd, d.todo)
              /\ \A step : step # Head(c.todo) => (Pending(d.todo, step) <=> Pending(c.todo, step))
            BY <1>1, <1>2, Advanced
        <3> QED BY <1>1, <3>1 DEF SameFiles
    <2> QED BY <1>1, <1>5, <2>1, <2>2, QuietStep
<1>6. ASSUME NEW n \in c.victims, caches' = caches \ {c.edit.profiles[n].session},
             retired' = retired \union {n},
             proc' = [proc EXCEPT ![p] =
                        [c EXCEPT !.name = n, !.plan = "delete", !.edit = Delete(@, n),
                                  !.victims = @ \ {n}, !.todo = PlanSteps("delete") \o @]]
      PROVE  CacheInv'
    <2> DEFINE todo == PlanSteps("delete") \o c.todo
               d == [c EXCEPT !.name = n, !.plan = "delete", !.edit = Delete(@, n),
                              !.victims = @ \ {n}, !.todo = todo]
               gone == c.edit.profiles[n].session
    <2>1. proc' = [proc EXCEPT ![p] = d]
        BY <1>6
    <2> HIDE DEF c
    <2>2. n \in Names /\ c.edit \in Config
        BY <1>2, <1>6 DEF Command
    <2>3. \A step : Pending(todo, step) <=> step \in {"loadPlans", "savePlans", "purge", "save"}
        BY <1>1, <1>2, PurgeTodo
    <2>4. FileOrder(c.cmd, todo)
        <3>1. \A step \in {"writeCache", "removeOld", "removeCache"} : ~Pending(todo, step)
            BY <2>3
        <3> HIDE DEF todo
        <3> QED BY <1>4, <3>1 DEF FileOrder, Before, Pending
    <2> HIDE DEF todo
    <2>5. /\ d.cmd = c.cmd /\ d.todo = todo /\ d.edit = Delete(c.edit, n)
        BY <1>2 DEF Command
    <2> HIDE DEF d
    <2>6. /\ \A m \in Names : d.edit.profiles[m] =
                IF m = n THEN Absent ELSE c.edit.profiles[m]
        <3>1. c.edit.profiles \in [Names -> Profile]
            BY <2>2 DEF Config
        <3>2. d.edit.profiles = [c.edit.profiles EXCEPT ![n] = Absent]
            BY <2>2, <2>5, DeletedProfiles
        <3> QED BY <2>2, <3>1, <3>2
    <2>7. Owned(d.edit)
        BY <1>2, <2>6 DEF Owned, Absent
    <2>8. CommandInv(d) /\ d.cmd # "idle"
        BY <1>2, <1>4, <2>4, <2>5, <2>7 DEF CommandInv, OwnCommand, Signs
    <2>9. /\ View(d, config) = d.edit /\ View(c, config) = c.edit
          /\ \A m : ~Stores(c, m) /\ ~Stores(d, m)
        BY <1>3, <1>4, <2>3, <2>5 DEF View, Stores, Signs
    <2>10. \A m \in Console(d.edit) : m # n /\ m \in Console(c.edit)
                                      /\ d.edit.profiles[m] = c.edit.profiles[m]
        BY <2>6 DEF Console, Absent
    <2>11. gone \in scene.accounts[n] \union {NoSession}
        BY <1>2, <2>2 DEF Owned
    <2> HIDE DEF gone
    <2>12. ASSUME OwnAccounts, NEW cfg, Owned(cfg), NEW m \in Console(cfg), m # n,
                  cfg.profiles[m].session \in caches
           PROVE  cfg.profiles[m].session \in caches'
        <3>1. cfg.profiles[m].session # gone
            BY <1>2, <2>2, <2>11, <2>12, OwnSessions
        <3> QED BY <1>6, <2>12, <3>1 DEF gone
    <2>13. ASSUME AloneInv(c, config, caches, retired)
           PROVE  AloneInv(d, config, caches', retired')
        <3>1. Derived(d, config)
            BY <1>4, <2>5 DEF Derived, Signs
        <3>2. ASSUME Lasting PROVE Lasts(d, config, caches', retired')
            <4>1. Lasts(c, config, caches, retired) /\ OwnAccounts
                BY <2>13, <3>2 DEF AloneInv, Lasting
            <4>2. \A m \in Console(config) : config.profiles[m].session \in caches' \/ m \in retired'
                BY <1>2, <1>6, <2>12, <4>1 DEF Lasts
            <4>3. \A m \in Console(d.edit) : d.edit.profiles[m].session \in caches' \/ m \in retired'
                BY <1>2, <1>6, <2>9, <2>10, <2>12, <4>1 DEF Lasts
            <4> QED BY <1>4, <2>5, <2>9, <4>2, <4>3 DEF Lasts
        <3>3. ASSUME Serial, OwnAccounts PROVE HasFiles(d, config, caches')
            <4>1. HasFiles(c, config, caches)
                BY <2>13, <3>3 DEF AloneInv
            <4>2. \A m \in Console(d.edit) : d.edit.profiles[m].session \in caches'
                BY <1>2, <2>9, <2>10, <2>12, <3>3, <4>1 DEF HasFiles
            <4> QED BY <2>9, <4>2 DEF HasFiles
        <3>4. ASSUME Tidy, NEW s \in caches'
              PROVE  \E m \in Console(d.edit) : d.edit.profiles[m].session = s
            <4>1. NoOrphans(c, config, caches)
                BY <2>13, <3>4 DEF AloneInv
            <4>2. s \in caches /\ s # gone
                BY <1>6, <3>4 DEF gone
            <4>3. PICK m \in Console(c.edit) : c.edit.profiles[m].session = s
                BY <1>3, <2>9, <4>1, <4>2 DEF NoOrphans
            <4>4. m \in Names /\ m # n
                BY <4>2, <4>3 DEF Console, gone
            <4>5. m \in Console(d.edit) /\ d.edit.profiles[m].session = s
                BY <2>6, <4>3, <4>4 DEF Console
            <4> QED BY <4>5
        <3> QED BY <2>9, <3>1, <3>2, <3>3, <3>4 DEF AloneInv, NoOrphans
    <2> QED BY <1>1, <1>2, <2>1, <2>8, <2>13, CacheChanges DEF c
<1>7. ASSUME NEW n \in c.victims, proc' = [proc EXCEPT ![p].victims = @ \ {n}],
             UNCHANGED <<caches, retired>>
      PROVE  CacheInv'
    <2> DEFINE d == [c EXCEPT !.victims = @ \ {n}]
    <2>1. proc' = [proc EXCEPT ![p] = d]
        BY <1>7
    <2>2. SameFiles(c, d) /\ FileOrder(d.cmd, d.todo)
        <3> HIDE DEF c
        <3>1. /\ d.cmd = c.cmd /\ d.name = c.name /\ d.session = c.session /\ d.old = c.old
              /\ d.edit = c.edit /\ d.todo = c.todo
            BY <1>2 DEF Command
        <3> QED BY <1>2, <3>1 DEF SameFiles
    <2> HIDE DEF d
    <2> QED BY <1>1, <1>7, <2>1, <2>2, QuietStep
<1> QED BY ZenonT(90), <1>5, <1>6, <1>7 DEF Purge

\* The configuration file is written.
LEMMA SaveCache ==
    ASSUME Assumptions, IInv, CacheInv, NEW p \in Procs, Save(p)
    PROVE  CacheInv'
<1> DEFINE c == proc[p]
           d == AfterStep(c)
<1>1. /\ c.todo # <<>> /\ Head(c.todo) = "save" /\ config' = c.edit
      /\ retired' = IF Signs(c) THEN retired \ {c.name} ELSE retired
      /\ proc' = [proc EXCEPT ![p] = d] /\ UNCHANGED <<caches, scene>>
    BY DEF Save, At, Advance, AfterStep, Signs
<1>2. /\ c \in Command /\ c.cmd \in AllCommands /\ Ordered(c.todo) /\ c.todo \in Seq(Steps)
      /\ FileOrder(c.cmd, c.todo) /\ OwnCommand(c) /\ Owned(c.edit) /\ c.cmd \in scene.commands
      /\ config \in Config /\ Owned(config) /\ scene \in Scene
      /\ scene.alone => /\ \A q \in Procs \ {p} : proc[q].cmd = "idle"
                        /\ AloneInv(c, config, caches, retired)
    BY <1>1, Going
<1> HIDE DEF c
<1>3. /\ d.cmd = c.cmd /\ d.name = c.name /\ d.session = c.session /\ d.old = c.old
      /\ d.edit = c.edit /\ d.todo = Tail(c.todo)
      /\ FileOrder(d.cmd, d.todo)
      /\ ~Pending(c.todo, "load") /\ ~Pending(d.todo, "load")
      /\ \A step : step # "save" => (Pending(d.todo, step) <=> Pending(c.todo, step))
      /\ Pending(c.todo, "save")
    BY <1>1, <1>2, Advanced
<1>4. ~Pending(d.todo, "save")
    BY <1>1, <1>2, <1>3, Remainder
<1> HIDE DEF d
<1>5. ~Pending(c.todo, "writeCache") /\ ~Pending(d.todo, "writeCache")
    BY <1>1, <1>2, <1>3, FileRemainder
<1> DEFINE new == c.edit
<1>6. /\ View(d, new) = new /\ View(c, config) = new /\ \A n : Stores(d, n) <=> Stores(c, n)
      /\ Signs(d) <=> Signs(c)
    BY <1>3, <1>4 DEF View, Stores, Signs
<1>7. CommandInv(d) /\ d.cmd # "idle"
    BY <1>2, <1>3, <1>6 DEF CommandInv, OwnCommand, AllCommands
<1>8. ASSUME AloneInv(c, config, caches, retired)
      PROVE  AloneInv(d, new, caches, retired')
    <2> HIDE DEF new
    <2>1. Derived(d, new)
        BY <1>3, <1>6, <1>8 DEF AloneInv, Derived
    <2>2. ASSUME Lasting PROVE Lasts(d, new, caches, retired')
        <3>1. Lasts(c, config, caches, retired)
            BY <1>8, <2>2 DEF AloneInv
        <3>2. \A n \in Console(new) : \/ new.profiles[n].session \in caches
                                      \/ (~Stores(c, n) /\ n \in retired)
            BY <1>5, <1>6, <3>1 DEF Lasts
        <3>3. \A n : ~Stores(c, n) /\ n \in retired => n \in retired'
            BY <1>1, <1>3 DEF Stores
        <3>4. d.cmd = "logout" => d.name \in retired'
            BY <1>1, <1>3, <3>1 DEF Lasts, Signs
        <3> QED BY <1>6, <3>2, <3>3, <3>4 DEF Lasts
    <2>3. ASSUME Serial, OwnAccounts PROVE HasFiles(d, new, caches)
        BY <1>5, <1>6, <1>8, <2>3 DEF AloneInv, HasFiles
    <2>4. ASSUME Tidy PROVE NoOrphans(d, new, caches)
        <3>1. NoOrphans(c, config, caches)
            BY <1>8, <2>4 DEF AloneInv
        <3> QED BY <1>3, <1>6, <3>1 DEF NoOrphans
    <2> QED BY <2>1, <2>2, <2>3, <2>4 DEF AloneInv
<1>9. /\ AloneInv(c, config, caches, retired) => AloneInv(d, config', caches', retired')
      /\ Owned(config')
    BY <1>1, <1>2, <1>8
<1> QED BY <1>1, <1>2, <1>7, <1>9, CacheChanges

\* A command ends, fails or is killed.
LEMMA EndCache ==
    ASSUME Assumptions, IInv, CacheInv, NEW p \in Procs, Finish(p) \/ Fail(p) \/ Crash(p)
    PROVE  CacheInv'
<1>1. CASE Finish(p)
    BY <1>1, CacheEnds DEF Finish
<1>2. CASE Crash(p)
    BY <1>2, CacheEnds DEF Crash
<1>3. CASE Fail(p)
    <2> DEFINE c == proc[p]
               d == AfterStep(c)
    <2>1. /\ scene.faults /\ c.todo # <<>> /\ UNCHANGED <<config, caches, retired, scene>>
          /\ Head(c.todo) \in {"writeCache", "removeCache", "save", "savePlans"}
        BY <1>3 DEF Fail, At
    <2>2. /\ c \in Command /\ c.cmd \in AllCommands /\ Ordered(c.todo) /\ c.todo \in Seq(Steps)
          /\ FileOrder(c.cmd, c.todo) /\ OwnCommand(c) /\ Owned(c.edit)
          /\ c.cmd \in scene.commands /\ Owned(config)
          /\ scene.alone => /\ \A q \in Procs \ {p} : proc[q].cmd = "idle"
                            /\ AloneInv(c, config, caches, retired)
        BY <2>1, Going
    <2>3. CASE End(p)
        BY <2>1, <2>2, <2>3, CacheEnds DEF AllCommands
    <2>4. CASE Advance(p) /\ c.cmd = "logoutAll"
        <3>1. proc' = [proc EXCEPT ![p] = d]
            BY <2>4 DEF Advance, AfterStep
        <3> HIDE DEF c
        <3>2. /\ d.cmd = c.cmd /\ d.edit = c.edit /\ d.todo = Tail(c.todo)
              /\ FileOrder(d.cmd, d.todo)
              /\ \A step : step # Head(c.todo) => (Pending(d.todo, step) <=> Pending(c.todo, step))
            BY <2>1, <2>2, Advanced
        <3> HIDE DEF d
        <3>3. CommandInv(d) /\ d.cmd # "idle"
            BY <2>2, <2>4, <3>2 DEF CommandInv, OwnCommand, Signs
        <3>4. \A n : ~Stores(c, n) /\ ~Stores(d, n)
            BY <2>4, <3>2 DEF Stores, Signs
        <3>5. View(d, config) = config \/ View(d, config) = View(c, config)
            <4>1. ~Pending(c.todo, "load") /\ Pending(c.todo, Head(c.todo))
                BY <2>1, <2>2, Advanced
            <4> QED BY <3>2, <4>1 DEF View
        <3>6. ASSUME AloneInv(c, config, caches, retired) PROVE AloneInv(d, config, caches, retired)
            <4>1. Derived(d, config)
                BY <2>4, <3>2 DEF Derived, Signs
            <4>2. Lasting => Lasts(d, config, caches, retired)
                BY <2>4, <3>2, <3>4, <3>5, <3>6 DEF AloneInv, Lasts
            <4> QED BY <2>1, <4>1, <4>2 DEF AloneInv, Serial, Tidy
        <3> QED BY <2>1, <2>2, <3>1, <3>3, <3>6, CacheChanges DEF c
    <2> QED BY <1>3, <2>3, <2>4 DEF Fail
<1> QED BY <1>1, <1>2, <1>3

\* Nothing else changes it.
LEMMA CacheStutters ==
    ASSUME CacheInv, UNCHANGED vars
    PROVE  CacheInv'
BY DEF vars, CacheInv, CommandInv, Owned, OwnCommand, AloneInv, Lasting, OwnAccounts, Serial,
       Tidy, Quiet

\* What the invariant says between commands, and of the profiles at all times.
LEMMA CacheInvSays ==
    ASSUME CacheInv
    PROVE  LoginSurvives /\ CachesMatchProfiles
<1>1. /\ \A step : ~Pending(Idle.todo, step)
      /\ View(Idle, config) = config /\ \A n : ~Stores(Idle, n)
    BY DEF Idle, Pending, View, Stores, Signs
<1>2. LoginSurvives
    <2> SUFFICES ASSUME Lasting
                 PROVE  \A n \in Console(config) :
                           config.profiles[n].session \in caches \/ n \in retired
        BY DEF LoginSurvives, Lasting
    <2>1. CASE Quiet
        BY <2>1 DEF CacheInv, AloneInv, Lasting, Lasts
    <2>2. ASSUME NEW p \in Procs, proc[p].cmd # "idle" PROVE Lasts(proc[p], config, caches, retired)
        BY <2>2 DEF CacheInv, AloneInv, Lasting
    <2> QED BY <2>1, <2>2 DEF Quiet, Lasts
<1>3. ASSUME scene.alone, Quiet PROVE AloneInv(Idle, config, caches, retired)
    BY <1>3 DEF CacheInv
<1>4. LoginHasCache
    BY <1>1, <1>3 DEF LoginHasCache, Serial, AloneInv, HasFiles
<1>5. NoOrphanCache
    BY <1>1, <1>3 DEF NoOrphanCache, Serial, Tidy, AloneInv, NoOrphans
<1> QED BY <1>2, <1>4, <1>5 DEF CachesMatchProfiles

\* Both invariants hold always.
LEMMA CacheInvAlways ==
    ASSUME Assumptions
    PROVE  Spec => [](IInv /\ CacheInv)
<1>1. Init => IInv /\ CacheInv
    BY InitIInv, CacheInit
<1>2. IInv /\ CacheInv /\ [Next]_vars => (IInv /\ CacheInv)'
    <2> SUFFICES ASSUME IInv, CacheInv, [Next]_vars PROVE IInv' /\ CacheInv'
        OBVIOUS
    <2>1. ASSUME NEW p \in Procs, Begin(p) \/ Step(p) \/ Fail(p) \/ Crash(p) PROVE IInv'
        BY <2>1, BeginInv, LoadInv, CacheStepInv, PurgeInv, SaveInv, LoadPlansInv, SavePlansInv,
           EndInv DEF Step
    <2>2. ASSUME NEW p \in Procs, Begin(p) \/ Step(p) \/ Fail(p) \/ Crash(p) PROVE CacheInv'
        BY <2>2, BeginCache, LoadCache, WriteCacheCache, RemoveOldCache, RemoveCacheCache,
           PurgeCache, SaveCache, PlansCache, EndCache DEF Step
    <2> QED BY <2>1, <2>2, Stutters, CacheStutters DEF Next
<1> QED BY <1>1, <1>2, PTL DEF Spec

\* A console-login profile without its cache file is one whose logout was begun,
\* for any number of processes, profiles and sessions and however a command fails
\* or is killed, where commands run one at a time, no two profiles share an
\* identity and nobody signs in with the browser (console_login.go).
THEOREM LoginSurvivesAlways ==
    ASSUME Assumptions
    PROVE  Spec => []LoginSurvives
<1>1. IInv /\ CacheInv => LoginSurvives
    BY CacheInvSays
<1> QED BY <1>1, CacheInvAlways, PTL

\* Between commands that run one after the other without failures, console-login
\* profiles and cache files match: every such profile has the file of its
\* session, unless two profiles share one, and every file has such a profile,
\* unless configure set or configure delete is used, which look at no cache file.
THEOREM CachesMatchProfilesAlways ==
    ASSUME Assumptions
    PROVE  Spec => []CachesMatchProfiles
<1>1. IInv /\ CacheInv => CachesMatchProfiles
    BY CacheInvSays
<1> QED BY <1>1, CacheInvAlways, PTL

-----------------------------------------------------------------------------
(* The token of a session (LoginToken) *)

\* A command has a grant from the service that it has not written.
Writing(p) == token[p].at = "write"

\* Where the service replaces the refresh token and nothing is lost, the newest
\* grant is in the cache file or with a command that is about to write it: the
\* grants of these commands are accepted, and nobody else has read them.
Rotating ==
    /\ profile => cache \in accepts \/ \E p \in TokenProcs : Writing(p)
    /\ \A p \in TokenProcs : Writing(p) =>
          /\ token[p].grant \in accepts /\ token[p].grant # cache
          /\ \A q \in TokenProcs : q # p /\ token[q].at \in {"exchange", "write"} =>
                token[q].grant # token[p].grant

TokenInv ==
    /\ grants \in Nat /\ grants > 0 /\ grants <= MaxGrants
    /\ accepts \subseteq 1..grants /\ expired \subseteq 1..grants /\ cache \in 0..grants
    /\ profile \in BOOLEAN /\ world \in SafeWorlds
    /\ token \in [TokenProcs -> [at : Token!Places, grant : 0..grants]]
    /\ attempt \in [TokenProcs -> 0..MaxAttempts]
    /\ \A p \in TokenProcs : attempt[p] < MaxAttempts
    /\ \A p \in TokenProcs : token[p].at \in {"exchange", "write"} => token[p].grant # 0
    /\ ~world.rotates => accepts = 1..grants /\ (profile => cache # 0)
    /\ world.rotates => ~world.losses /\ Rotating

\* The first session is in its file.
LEMMA TokenInit ==
    ASSUME Token!Assumptions, Token!Init
    PROVE  TokenInv
<1>1. /\ grants = 1 /\ accepts = {1} /\ expired = {} /\ cache = 1 /\ profile = TRUE
      /\ \A p \in TokenProcs : token[p].at = "idle" /\ token[p].grant = 0 /\ attempt[p] = 0
      /\ token = [p \in TokenProcs |-> [at |-> "idle", grant |-> 0]]
      /\ attempt = [p \in TokenProcs |-> 0]
      /\ world \in SafeWorlds
    BY DEF Token!Init
<1>2. MaxAttempts \in Nat \ {0} /\ MaxGrants \in Nat \ {0}
    BY DEF Token!Assumptions
<1>3. token \in [TokenProcs -> [at : Token!Places, grant : 0..grants]]
    BY <1>1 DEF Token!Places
<1>4. attempt \in [TokenProcs -> 0..MaxAttempts]
    BY <1>1, <1>2
<1>5. Rotating
    BY <1>1 DEF Rotating, Writing
<1>6. accepts = 1..grants
    BY <1>1
<1>7. world.rotates => ~world.losses
    BY <1>1 DEF SafeWorlds
<1> QED BY <1>1, <1>2, <1>3, <1>4, <1>5, <1>6, <1>7 DEF TokenInv

\* Of a command that has its credentials, or fails, nobody waits for a grant.
LEMMA TokenReturns ==
    ASSUME Token!Assumptions, TokenInv, NEW p \in TokenProcs, Token!Return(p),
           UNCHANGED <<expired, profile, world>>,
           grants' \in Nat, grants <= grants', grants' <= MaxGrants,
           accepts' \subseteq 1..grants', cache' \in 0..grants',
           ~world.rotates => accepts' = 1..grants' /\ (profile => cache' # 0),
           world.rotates => /\ accepts' = accepts
                            /\ IF Writing(p) THEN cache' = token[p].grant ELSE cache' = cache
    PROVE  TokenInv'
<1>1. /\ token' = [token EXCEPT ![p] = [at |-> "idle", grant |-> 0]]
      /\ attempt' = [attempt EXCEPT ![p] = 0]
    BY DEF Token!Return
<1>2. /\ token \in [TokenProcs -> [at : Token!Places, grant : 0..grants]]
      /\ attempt \in [TokenProcs -> 0..MaxAttempts] /\ grants \in Nat /\ grants > 0
      /\ expired \subseteq 1..grants
      /\ profile \in BOOLEAN /\ world \in SafeWorlds
      /\ \A q \in TokenProcs : attempt[q] < MaxAttempts
      /\ \A q \in TokenProcs : token[q].at \in {"exchange", "write"} => token[q].grant # 0
      /\ MaxAttempts \in Nat \ {0}
      /\ world.rotates => ~world.losses
    BY DEF TokenInv, Token!Assumptions
<1>3. \A q \in TokenProcs : /\ token'[q] = IF q = p THEN [at |-> "idle", grant |-> 0] ELSE token[q]
                            /\ attempt'[q] = IF q = p THEN 0 ELSE attempt[q]
    BY <1>1, <1>2
<1>4. token' \in [TokenProcs -> [at : Token!Places, grant : 0..grants']]
    <2>1. \A q \in TokenProcs : token'[q] \in [at : Token!Places, grant : 0..grants']
        BY <1>2, <1>3 DEF Token!Places
    <2> QED BY <1>1, <1>2, <2>1
<1>5. attempt' \in [TokenProcs -> 0..MaxAttempts]
    BY <1>1, <1>2
<1>6. expired' \subseteq 1..grants' /\ profile' \in BOOLEAN /\ world' \in SafeWorlds /\ grants' > 0
    <2>1. expired' \subseteq 1..grants'
        BY <1>2
    <2>2. profile' \in BOOLEAN
        BY <1>2
    <2>3. world' \in SafeWorlds /\ grants' > 0
        BY <1>2
    <2> QED BY <2>1, <2>2, <2>3
<1>7. \A q \in TokenProcs : token'[q].at \in {"exchange", "write"} => q # p /\ token'[q].grant # 0
    BY <1>2, <1>3
<1>8. \A q \in TokenProcs : attempt'[q] < MaxAttempts
    BY <1>2, <1>3
<1>9. ASSUME world.rotates PROVE Rotating'
    <2>1. Rotating
        BY <1>9 DEF TokenInv
    <2>2. profile' => cache' \in accepts' \/ \E q \in TokenProcs : Writing(q)'
        <3>1. CASE Writing(p)
            BY <1>9, <2>1, <3>1 DEF Rotating
        <3>2. CASE ~Writing(p)
            BY <1>3, <1>9, <2>1, <3>2 DEF Rotating, Writing
        <3> QED BY <3>1, <3>2
    <2>3. ASSUME NEW q \in TokenProcs, Writing(q)'
          PROVE  /\ token'[q].grant \in accepts' /\ token'[q].grant # cache'
                 /\ \A r \in TokenProcs : r # q /\ token'[r].at \in {"exchange", "write"} =>
                       token'[r].grant # token'[q].grant
        <3>1. q # p /\ Writing(q) /\ token'[q] = token[q]
            BY <1>3, <2>3 DEF Writing
        <3>2. token[q].grant # cache'
            BY <1>9, <2>1, <3>1 DEF Rotating, Writing
        <3> QED BY <1>3, <1>9, <2>1, <3>1, <3>2 DEF Rotating
    <2> QED BY <2>2, <2>3 DEF Rotating
<1>10. world' = world
    OBVIOUS
<1>11. ~world.rotates => accepts' = 1..grants' /\ (profile' => cache' # 0)
    OBVIOUS
<1> QED BY <1>2, <1>4, <1>5, <1>6, <1>7, <1>8, <1>9, <1>10, <1>11 DEF TokenInv

\* A step that changes what one command has read or got, and not where the grants are.
LEMMA TokenMoves ==
    ASSUME Token!Assumptions, TokenInv, NEW p \in TokenProcs, NEW at \in Token!Places, NEW grant,
           token' = [token EXCEPT ![p] = [at |-> at, grant |-> grant]],
           UNCHANGED <<expired, cache, profile, world>>,
           grants' \in Nat, grants <= grants', grants' <= MaxGrants,
           accepts' \subseteq 1..grants', grant \in 0..grants',
           at \in {"exchange", "write"} => grant # 0,
           \/ UNCHANGED attempt
           \/ \E n \in Nat : n < MaxAttempts /\ attempt' = [attempt EXCEPT ![p] = n],
           ~world.rotates => accepts' = 1..grants',
           world.rotates => Rotating'
    PROVE  TokenInv'
<1>1. /\ token \in [TokenProcs -> [at : Token!Places, grant : 0..grants]]
      /\ attempt \in [TokenProcs -> 0..MaxAttempts] /\ grants \in Nat /\ grants > 0
      /\ expired \subseteq 1..grants /\ cache \in 0..grants
      /\ profile \in BOOLEAN /\ world \in SafeWorlds
      /\ \A q \in TokenProcs : attempt[q] < MaxAttempts
      /\ \A q \in TokenProcs : token[q].at \in {"exchange", "write"} => token[q].grant # 0
      /\ MaxAttempts \in Nat \ {0}
      /\ ~world.rotates => (profile => cache # 0)
      /\ world.rotates => ~world.losses
    BY DEF TokenInv, Token!Assumptions
<1>2. \A q \in TokenProcs : token'[q] = IF q = p THEN [at |-> at, grant |-> grant] ELSE token[q]
    BY <1>1
<1>3. token' \in [TokenProcs -> [at : Token!Places, grant : 0..grants']]
    <2>1. \A q \in TokenProcs : token'[q] \in [at : Token!Places, grant : 0..grants']
        BY <1>1, <1>2
    <2> QED BY <1>1, <2>1
<1>4. /\ attempt' \in [TokenProcs -> 0..MaxAttempts]
      /\ \A q \in TokenProcs : attempt'[q] < MaxAttempts
    <2>1. CASE UNCHANGED attempt
        BY <1>1, <2>1
    <2>2. ASSUME NEW n \in Nat, n < MaxAttempts, attempt' = [attempt EXCEPT ![p] = n]
          PROVE  /\ attempt' \in [TokenProcs -> 0..MaxAttempts]
                 /\ \A q \in TokenProcs : attempt'[q] < MaxAttempts
        BY <1>1, <2>2
    <2> QED BY <2>1, <2>2
<1>5. \A q \in TokenProcs : token'[q].at \in {"exchange", "write"} => token'[q].grant # 0
    BY <1>1, <1>2
<1>6. expired' \subseteq 1..grants' /\ cache' \in 0..grants' /\ grants' > 0
    <2>1. grants' > 0
        BY <1>1
    <2>2. expired' \subseteq 1..grants'
        BY <1>1
    <2>3. cache' \in 0..grants'
        BY <1>1
    <2> QED BY <2>1, <2>2, <2>3
<1>7. profile' = profile /\ world' = world /\ cache' = cache
    OBVIOUS
<1>8. profile' \in BOOLEAN /\ world' \in SafeWorlds
    BY <1>1, <1>7
<1>9. ~world'.rotates => accepts' = 1..grants' /\ (profile' => cache' # 0)
    BY <1>1, <1>7
<1>10. world'.rotates => ~world'.losses /\ Rotating'
    BY <1>1, <1>7
<1> QED BY <1>3, <1>4, <1>5, <1>6, <1>8, <1>9, <1>10 DEF TokenInv

\* A command begins to refresh.
LEMMA TokenBegins ==
    ASSUME Token!Assumptions, TokenInv, NEW p \in TokenProcs, Token!Begin(p)
    PROVE  TokenInv'
<1>1. /\ token' = [token EXCEPT ![p] = [at |-> "read", grant |-> 0]] /\ token[p].at = "idle"
      /\ UNCHANGED <<grants, accepts, expired, cache, profile, attempt, world>>
    BY DEF Token!Begin
<1>2. /\ grants \in Nat /\ grants <= MaxGrants /\ accepts \subseteq 1..grants
      /\ token \in [TokenProcs -> [at : Token!Places, grant : 0..grants]]
      /\ ~world.rotates => accepts = 1..grants
    BY DEF TokenInv
<1>3. \A q \in TokenProcs : token'[q] = IF q = p THEN [at |-> "read", grant |-> 0] ELSE token[q]
    BY <1>1, <1>2
<1>4. ASSUME world.rotates PROVE Rotating'
    <2>1. Rotating
        BY <1>4 DEF TokenInv
    <2>2. \A q \in TokenProcs : Writing(q)' <=> Writing(q)
        BY <1>1, <1>3 DEF Writing
    <2> QED BY <1>1, <1>3, <2>1, <2>2 DEF Rotating, Writing
<1>5. "read" \in Token!Places /\ "read" \notin {"exchange", "write"}
    BY DEF Token!Places
<1>6. /\ grants' \in Nat /\ grants <= grants' /\ grants' <= MaxGrants /\ 0 \in 0..grants'
      /\ accepts' \subseteq 1..grants' /\ (~world.rotates => accepts' = 1..grants')
    BY <1>1, <1>2
<1> QED BY <1>1, <1>4, <1>5, <1>6, TokenMoves

\* A command reads the cache file.
LEMMA TokenReads ==
    ASSUME Token!Assumptions, TokenInv, NEW p \in TokenProcs, Token!Read(p)
    PROVE  TokenInv'
<1>1. /\ token[p].at = "read" /\ UNCHANGED <<grants, accepts, expired, cache, profile, world>>
      /\ \/ Token!Return(p)
         \/ /\ cache # 0 /\ token' = [token EXCEPT ![p].at = "exchange", ![p].grant = cache]
            /\ UNCHANGED attempt
    BY DEF Token!Read
<1>2. /\ grants \in Nat /\ grants <= MaxGrants /\ accepts \subseteq 1..grants /\ cache \in 0..grants
      /\ token \in [TokenProcs -> [at : Token!Places, grant : 0..grants]]
      /\ ~world.rotates => accepts = 1..grants /\ (profile => cache # 0)
    BY DEF TokenInv
<1>3. CASE Token!Return(p)
    <2>1. ~Writing(p)
        BY <1>1 DEF Writing
    <2> QED BY <1>1, <1>2, <1>3, <2>1, TokenReturns
<1>4. CASE /\ cache # 0 /\ token' = [token EXCEPT ![p].at = "exchange", ![p].grant = cache]
           /\ UNCHANGED attempt
    <2>1. /\ token' \in [TokenProcs -> [at : Token!Places, grant : 0..grants]]
          /\ token'[p].at = "exchange" /\ token'[p].grant = cache
          /\ \A q \in TokenProcs \ {p} : token'[q] = token[q]
        BY <1>2, <1>4 DEF Token!Places
    <2>2. token' = [token EXCEPT ![p] = [at |-> "exchange", grant |-> cache]]
        <3>1. token'[p] = [at |-> "exchange", grant |-> cache]
            BY <2>1
        <3> QED BY <1>2, <2>1, <3>1
    <2>3. \A q \in TokenProcs : token'[q] = IF q = p THEN [at |-> "exchange", grant |-> cache]
                                            ELSE token[q]
        BY <1>2, <2>2
    <2>4. ASSUME world.rotates PROVE Rotating'
        <3>1. Rotating
            BY <2>4 DEF TokenInv
        <3>2. \A q \in TokenProcs : Writing(q)' <=> Writing(q)
            BY <1>1, <2>3 DEF Writing
        <3> QED BY <1>1, <2>3, <3>1, <3>2 DEF Rotating, Writing
    <2>5. "exchange" \in Token!Places
        BY DEF Token!Places
    <2>6. /\ grants' \in Nat /\ grants <= grants' /\ grants' <= MaxGrants /\ cache \in 0..grants'
          /\ accepts' \subseteq 1..grants' /\ (~world.rotates => accepts' = 1..grants')
        BY <1>1, <1>2
    <2> QED BY ZenonT(90), <1>1, <1>4, <2>2, <2>4, <2>5, <2>6, TokenMoves
<1> QED BY <1>1, <1>3, <1>4

\* A grant that is issued is a new one.
LEMMA TokenIssued ==
    ASSUME Token!Assumptions, TokenInv, NEW g, Token!Issue(g)
    PROVE  /\ grants' = grants + 1 /\ grants' \in Nat /\ grants <= grants' /\ grants' <= MaxGrants
           /\ accepts' \subseteq 1..grants' /\ grants' \in accepts'
           /\ ~world.rotates => accepts' = 1..grants'
           /\ accepts \ {g} \subseteq accepts'
<1>1. /\ grants \in Nat /\ accepts \subseteq 1..grants /\ grants < MaxGrants /\ grants' = grants + 1
      /\ accepts' = (IF world.rotates THEN accepts \ {g} ELSE accepts) \union {grants + 1}
      /\ ~world.rotates => accepts = 1..grants
    BY DEF TokenInv, Token!Issue
<1>2. accepts' \subseteq 1..(grants + 1)
    <2>1. accepts' \subseteq accepts \union {grants + 1}
        BY <1>1
    <2>2. accepts \subseteq 1..grants /\ grants \in Nat
        BY <1>1
    <2> QED BY <2>1, <2>2
<1>3. ~world.rotates => accepts' = 1..(grants + 1)
    BY <1>1
<1>4. grants + 1 \in Nat /\ grants <= grants + 1
    BY <1>1
<1>5. grants + 1 <= MaxGrants
    <2>1. MaxGrants \in Nat
        BY DEF Token!Assumptions
    <2> QED BY <1>1, <2>1
<1> QED BY <1>1, <1>2, <1>3, <1>4, <1>5

\* The service answers with a new token, or its answer is lost.
LEMMA TokenExchanges ==
    ASSUME Token!Assumptions, TokenInv, NEW p \in TokenProcs, Token!Exchange(p)
    PROVE  TokenInv'
<1>1. /\ token[p].at = "exchange" /\ Token!Issue(token[p].grant)
      /\ token' = [token EXCEPT ![p].at = "write", ![p].grant = grants']
      /\ attempt' = [attempt EXCEPT ![p] = 0] /\ UNCHANGED <<expired, cache, profile, world>>
    BY DEF Token!Exchange
<1>2. /\ grants' = grants + 1 /\ grants' \in Nat /\ grants <= grants' /\ grants' <= MaxGrants
      /\ accepts' \subseteq 1..grants' /\ grants' \in accepts'
      /\ ~world.rotates => accepts' = 1..grants'
      /\ accepts \ {token[p].grant} \subseteq accepts'
    BY <1>1, TokenIssued
<1>3. /\ grants \in Nat /\ cache \in 0..grants
      /\ token \in [TokenProcs -> [at : Token!Places, grant : 0..grants]]
    BY DEF TokenInv
<1> DEFINE new == grants'
<1>4. /\ new \in Nat /\ new # cache /\ new # 0 /\ \A q \in TokenProcs : token[q].grant # new
    BY <1>2, <1>3
<1> HIDE DEF new
<1>5. /\ token'[p].at = "write" /\ token'[p].grant = new
      /\ \A q \in TokenProcs \ {p} : token'[q] = token[q]
      /\ token' \in [TokenProcs -> [at : Token!Places, grant : Nat]]
    <2>1. token \in [TokenProcs -> [at : Token!Places, grant : Nat]]
        BY <1>3
    <2> QED BY <1>1, <1>4, <2>1 DEF Token!Places, new
<1>6. token' = [token EXCEPT ![p] = [at |-> "write", grant |-> new]]
    <2>1. token'[p] = [at |-> "write", grant |-> new]
        BY <1>5
    <2> QED BY <1>3, <1>5, <2>1
<1>7. ASSUME world.rotates PROVE Rotating'
    <2>1. Rotating
        BY <1>7 DEF TokenInv
    <2>2. Writing(p)'
        BY <1>5 DEF Writing
    <2>3. ASSUME NEW q \in TokenProcs, Writing(q)'
          PROVE  /\ token'[q].grant \in accepts' /\ token'[q].grant # cache'
                 /\ \A r \in TokenProcs : r # q /\ token'[r].at \in {"exchange", "write"} =>
                       token'[r].grant # token'[q].grant
        <3>1. CASE q = p
            BY <1>1, <1>2, <1>4, <1>5, <3>1 DEF new
        <3>2. CASE q # p
            <4>1. Writing(q) /\ token'[q] = token[q]
                BY <1>5, <2>3, <3>2 DEF Writing
            <4>2. token[q].grant # token[p].grant /\ token[q].grant \in accepts
                BY <1>1, <2>1, <3>2, <4>1 DEF Rotating
            <4> QED BY <1>1, <1>2, <1>4, <1>5, <2>1, <3>2, <4>1, <4>2 DEF Rotating, new
        <3> QED BY <3>1, <3>2
    <2> QED BY <2>2, <2>3 DEF Rotating
<1>8. "write" \in Token!Places
    BY DEF Token!Places
<1>9. new \in 0..grants'
    BY <1>2 DEF new
<1>10. 0 \in Nat /\ 0 < MaxAttempts
    BY DEF Token!Assumptions
<1> QED BY <1>1, <1>2, <1>4, <1>6, <1>7, <1>8, <1>9, <1>10, TokenMoves

\* The service does not know the refresh token any more.
LEMMA TokenRejected ==
    ASSUME Token!Assumptions, TokenInv, NEW p \in TokenProcs, Token!Rejected(p)
    PROVE  TokenInv'
<1>1. /\ token[p].at = "exchange" /\ Token!Return(p) /\ UNCHANGED <<expired, cache, profile, world>>
      /\ UNCHANGED <<grants, accepts>> \/ (world.losses /\ Token!Issue(token[p].grant))
    BY DEF Token!Rejected
<1>2. /\ grants \in Nat /\ grants <= MaxGrants /\ accepts \subseteq 1..grants /\ cache \in 0..grants
      /\ ~world.rotates => accepts = 1..grants /\ (profile => cache # 0)
      /\ world.rotates => ~world.losses
    BY DEF TokenInv
<1>3. ~Writing(p)
    BY <1>1 DEF Writing
<1>4. CASE UNCHANGED <<grants, accepts>>
    BY <1>1, <1>2, <1>3, <1>4, TokenReturns
<1>5. CASE world.losses /\ Token!Issue(token[p].grant)
    <2>1. /\ grants' \in Nat /\ grants <= grants' /\ grants' <= MaxGrants
          /\ accepts' \subseteq 1..grants' /\ (~world.rotates => accepts' = 1..grants')
        BY <1>5, TokenIssued
    <2>2. cache' \in 0..grants'
        BY <1>1, <1>2, <2>1
    <2>3. ~world.rotates
        BY <1>2, <1>5
    <2> QED BY <1>1, <1>2, <2>1, <2>2, <2>3, TokenReturns
<1> QED BY <1>1, <1>4, <1>5

\* An error that passes: another attempt, or the end.
LEMMA TokenRetries ==
    ASSUME Token!Assumptions, TokenInv, NEW p \in TokenProcs, Token!PassingError(p)
    PROVE  TokenInv'
<1>1. /\ token[p].at = "exchange" /\ UNCHANGED <<expired, cache, profile, world>>
      /\ UNCHANGED <<grants, accepts>> \/ (world.losses /\ Token!Issue(token[p].grant))
      /\ \/ /\ attempt[p] + 1 < MaxAttempts
            /\ attempt' = [attempt EXCEPT ![p] = @ + 1] /\ UNCHANGED token
         \/ Token!Return(p)
    BY DEF Token!PassingError
<1>2. /\ grants \in Nat /\ grants <= MaxGrants /\ accepts \subseteq 1..grants /\ cache \in 0..grants
      /\ ~world.rotates => accepts = 1..grants /\ (profile => cache # 0)
      /\ world.rotates => ~world.losses
      /\ token \in [TokenProcs -> [at : Token!Places, grant : 0..grants]]
      /\ attempt \in [TokenProcs -> 0..MaxAttempts]
      /\ token[p].grant # 0
    BY <1>1 DEF TokenInv
<1>3. ~Writing(p)
    BY <1>1 DEF Writing
<1>4. /\ grants' \in Nat /\ grants <= grants' /\ grants' <= MaxGrants
      /\ accepts' \subseteq 1..grants' /\ (~world.rotates => accepts' = 1..grants')
      /\ world.rotates => UNCHANGED <<grants, accepts>>
    <2>1. CASE UNCHANGED <<grants, accepts>>
        BY <1>2, <2>1
    <2>2. CASE world.losses /\ Token!Issue(token[p].grant)
        <3>1. ~world.rotates
            BY <1>2, <2>2
        <3> QED BY <2>2, <3>1, TokenIssued
    <2> QED BY <1>1, <2>1, <2>2
<1>5. cache' \in 0..grants' /\ token[p].grant \in 0..grants'
    BY <1>1, <1>2, <1>4
<1>6. CASE Token!Return(p)
    <2>1. ~world.rotates => accepts' = 1..grants' /\ (profile => cache' # 0)
        BY <1>1, <1>2, <1>4
    <2>2. world.rotates => accepts' = accepts /\ cache' = cache
        BY <1>1, <1>4
    <2> QED BY <1>1, <1>3, <1>4, <1>5, <1>6, <2>1, <2>2, TokenReturns
<1>7. CASE /\ attempt[p] + 1 < MaxAttempts
           /\ attempt' = [attempt EXCEPT ![p] = @ + 1] /\ UNCHANGED token
    <2>1. token[p] = [at |-> "exchange", grant |-> token[p].grant]
        BY <1>1, <1>2
    <2>2. token' = [token EXCEPT ![p] = [at |-> "exchange", grant |-> token[p].grant]]
        BY <1>2, <1>7, <2>1
    <2>3. ASSUME world.rotates PROVE Rotating'
        <3>1. Rotating /\ UNCHANGED <<accepts, cache, profile, token>>
            BY <1>1, <1>4, <1>7, <2>3 DEF TokenInv
        <3> QED BY <3>1 DEF Rotating, Writing
    <2>4. attempt[p] + 1 \in Nat /\ "exchange" \in Token!Places
        BY <1>2 DEF Token!Places
    <2>5. \E n \in Nat : n < MaxAttempts /\ attempt' = [attempt EXCEPT ![p] = n]
        BY <1>7, <2>4
    <2> QED BY <1>1, <1>2, <1>4, <1>5, <2>2, <2>3, <2>4, <2>5, TokenMoves
<1> QED BY <1>1, <1>6, <1>7

\* The new token is written to the cache file, or the command dies.
LEMMA TokenWrites ==
    ASSUME Token!Assumptions, TokenInv, NEW p \in TokenProcs, Token!Write(p) \/ Token!Die(p)
    PROVE  TokenInv'
<1>1. /\ Token!Return(p) /\ UNCHANGED <<grants, accepts, expired, profile, world>>
      /\ \/ Writing(p) /\ cache' = token[p].grant
         \/ world.losses /\ UNCHANGED cache
    BY DEF Token!Write, Token!Die, Writing
<1>2. /\ grants \in Nat /\ grants <= MaxGrants /\ accepts \subseteq 1..grants /\ cache \in 0..grants
      /\ ~world.rotates => accepts = 1..grants /\ (profile => cache # 0)
      /\ world.rotates => ~world.losses
      /\ token \in [TokenProcs -> [at : Token!Places, grant : 0..grants]]
      /\ Writing(p) => token[p].grant # 0
    BY DEF TokenInv, Writing
<1>3. cache' \in 0..grants' /\ (profile => cache' # 0 \/ cache = 0)
    <2>1. CASE Writing(p) /\ cache' = token[p].grant
        BY <1>1, <1>2, <2>1
    <2>2. CASE UNCHANGED cache
        BY <1>1, <1>2, <2>2
    <2> QED BY <1>1, <2>1, <2>2
<1>4. /\ grants' \in Nat /\ grants <= grants' /\ grants' <= MaxGrants
      /\ accepts' \subseteq 1..grants' /\ (~world.rotates => accepts' = 1..grants')
    BY <1>1, <1>2
<1>5. ~world.rotates => accepts' = 1..grants' /\ (profile => cache' # 0)
    BY <1>2, <1>3, <1>4
<1>6. world.rotates => /\ accepts' = accepts
                       /\ IF Writing(p) THEN cache' = token[p].grant ELSE cache' = cache
    BY <1>1, <1>2
<1> QED BY <1>1, <1>3, <1>4, <1>5, <1>6, TokenReturns

\* An access token expires.
LEMMA TokenExpires ==
    ASSUME TokenInv, NEW g \in Token!Grants, Token!Expire(g)
    PROVE  TokenInv'
<1>1. /\ g <= grants /\ expired' = expired \union {g}
      /\ UNCHANGED <<grants, accepts, cache, profile, token, attempt, world>>
    BY DEF Token!Expire
<1>2. expired' \subseteq 1..grants
    <2>1. grants \in Nat /\ expired \subseteq 1..grants /\ g \in Nat /\ g >= 1
        BY DEF TokenInv, Token!Grants
    <2> QED BY <1>1, <2>1
<1> QED BY <1>1, <1>2 DEF TokenInv, Rotating, Writing

\* A logout takes the file and the profile away, a login issues a grant for both.
LEMMA TokenLogins ==
    ASSUME Token!Assumptions, TokenInv, Token!Logout \/ Token!Login
    PROVE  TokenInv'
<1>1. /\ grants \in Nat /\ grants > 0 /\ grants <= MaxGrants /\ accepts \subseteq 1..grants
      /\ expired \subseteq 1..grants /\ world \in SafeWorlds
      /\ token \in [TokenProcs -> [at : Token!Places, grant : 0..grants]]
      /\ attempt \in [TokenProcs -> 0..MaxAttempts]
      /\ \A p \in TokenProcs : attempt[p] < MaxAttempts
      /\ \A p \in TokenProcs : token[p].at \in {"exchange", "write"} => token[p].grant # 0
      /\ ~world.rotates => accepts = 1..grants
      /\ world.rotates => ~world.losses /\ Rotating
    BY DEF TokenInv
<1>2. CASE Token!Logout
    <2>1. /\ cache' = 0 /\ profile' = FALSE
          /\ UNCHANGED <<grants, accepts, expired, token, attempt, world>>
        BY <1>2 DEF Token!Logout
    <2>2. ASSUME world.rotates PROVE Rotating'
        <3>1. \A p \in TokenProcs : Writing(p)' <=> Writing(p)
            BY <2>1 DEF Writing
        <3>2. \A p \in TokenProcs : Writing(p) => token[p].grant # 0
            BY <1>1 DEF Writing
        <3> QED BY <1>1, <2>1, <2>2, <3>1, <3>2 DEF Rotating
    <2>3. cache' \in 0..grants'
        BY <1>1, <2>1
    <2> QED BY <1>1, <2>1, <2>2, <2>3 DEF TokenInv
<1>3. CASE Token!Login
    <2> DEFINE new == grants + 1
    <2>1. /\ grants < MaxGrants /\ grants' = new /\ accepts' = accepts \union {new}
          /\ cache' = new /\ profile' = TRUE /\ UNCHANGED <<expired, token, attempt, world>>
        BY <1>3 DEF Token!Login
    <2>2. new \in Nat /\ new > 0 /\ new # 0 /\ new <= MaxGrants /\ new \in 0..new
        BY <1>1, <2>1 DEF Token!Assumptions
    <2>3. \A p \in TokenProcs : token[p].grant # new
        BY <1>1
    <2>4. accepts' \subseteq 1..new /\ expired' \subseteq 1..new
        <3>1. accepts \subseteq 1..grants /\ expired \subseteq 1..grants /\ grants \in Nat
            BY <1>1
        <3> QED BY <2>1, <3>1
    <2>5. ~world.rotates => accepts' = 1..new
        <3>1. accepts = 1..grants /\ grants \in Nat => accepts \union {new} = 1..new
            OBVIOUS
        <3> QED BY <1>1, <2>1, <3>1
    <2>6. token' \in [TokenProcs -> [at : Token!Places, grant : 0..new]]
        <3>1. 0..grants \subseteq 0..new
            BY <1>1
        <3> QED BY <1>1, <2>1, <3>1
    <2>7. ASSUME world.rotates PROVE Rotating'
        <3>1. \A p \in TokenProcs : Writing(p)' <=> Writing(p)
            BY <2>1 DEF Writing
        <3> QED BY <1>1, <2>1, <2>3, <2>7, <3>1 DEF Rotating
    <2> HIDE DEF new
    <2> QED BY <1>1, <2>1, <2>2, <2>4, <2>5, <2>6, <2>7 DEF TokenInv
<1> QED BY <1>2, <1>3

\* Every action keeps it.
LEMMA TokenNext ==
    ASSUME Token!Assumptions, TokenInv, Token!Next
    PROVE  TokenInv'
<1>1. ASSUME NEW p \in TokenProcs, Token!Begin(p) \/ Token!Command(p) \/ Token!Die(p) PROVE TokenInv'
    BY <1>1, TokenBegins, TokenReads, TokenExchanges, TokenRejected, TokenRetries, TokenWrites
    DEF Token!Command
<1> QED BY <1>1, TokenExpires, TokenLogins DEF Token!Next

\* Nothing else changes it.
LEMMA TokenStutters ==
    ASSUME TokenInv, UNCHANGED tokenVars
    PROVE  TokenInv'
BY DEF TokenInv, tokenVars, Rotating, Writing

\* It says that the session survives.
LEMMA TokenInvSays ==
    ASSUME TokenInv
    PROVE  SessionSurvives
<1>1. ASSUME Token!Resting, profile PROVE cache \in accepts
    <2>1. CASE world.rotates
        <3>1. \A p \in TokenProcs : ~Writing(p)
            BY <1>1 DEF Token!Resting, Writing
        <3> QED BY <1>1, <2>1, <3>1 DEF TokenInv, Rotating
    <2>2. CASE ~world.rotates
        <3>1. accepts = 1..grants /\ cache \in 0..grants /\ cache # 0
            BY <1>1, <2>2 DEF TokenInv
        <3>2. grants \in Nat
            BY DEF TokenInv
        <3> QED BY <3>1, <3>2
    <2> QED BY <2>1, <2>2
<1> QED BY <1>1 DEF SessionSurvives, Token!SessionSurvives

\* It has the types.
LEMMA TokenInvTypes ==
    ASSUME Token!Assumptions, TokenInv
    PROVE  Token!TypeOK
<1>1. /\ grants \in Nat /\ grants > 0 /\ grants <= MaxGrants /\ MaxGrants \in Nat
      /\ accepts \subseteq 1..grants /\ expired \subseteq 1..grants /\ cache \in 0..grants
      /\ token \in [TokenProcs -> [at : Token!Places, grant : 0..grants]]
    BY DEF TokenInv, Token!Assumptions
<1>2. grants \in 1..MaxGrants /\ accepts \subseteq 1..MaxGrants /\ expired \subseteq 1..MaxGrants
    BY <1>1
<1>3. 0..grants \subseteq {0} \union 1..MaxGrants
    BY <1>1
<1>4. token \in [TokenProcs -> [at : Token!Places, grant : {0} \union 1..MaxGrants]]
    BY <1>1, <1>3
<1>5. cache \in {0} \union 1..MaxGrants
    BY <1>1, <1>3
<1> QED BY <1>2, <1>4, <1>5 DEF TokenInv, Token!TypeOK, Token!Grants

-----------------------------------------------------------------------------
(* The stores among the behaviours of the module *)

\* The cache files and the profiles that are logged out are known ones.
LEMMA FilesOfStores ==
    ASSUME Assumptions, IInv, CacheInv, caches \subseteq Sessions, retired \subseteq Names,
           NEW p \in Procs, Begin(p) \/ Step(p) \/ Fail(p) \/ Crash(p)
    PROVE  caches' \subseteq Sessions /\ retired' \subseteq Names
<1> DEFINE c == proc[p]
<1>1. CASE Begin(p) \/ RemoveOld(p) \/ RemoveCache(p) \/ LoadPlans(p) \/ SavePlans(p) \/ Finish(p)
           \/ Fail(p) \/ Crash(p)
    BY <1>1 DEF Begin, RemoveOld, RemoveCache, LoadPlans, SavePlans, Finish, Fail, Crash
<1>2. CASE Load(p)
    <2>1. c.name \in Names
        BY <1>2, Runs DEF Load, Command
    <2> QED BY <1>2, <2>1 DEF Load
<1>3. CASE WriteCache(p)
    <2>1. c.todo # <<>> /\ Head(c.todo) = "writeCache"
        BY <1>3 DEF WriteCache, At
    <2>2. c \in Command /\ c.cmd \in AllCommands
        BY <2>1, Runs
    <2>3. c.cmd # "idle" /\ 1 \in DOMAIN c.todo /\ c.todo[1] = "writeCache"
        BY <2>1, <2>2 DEF AllCommands, Command
    <2>4. Signs(c)
        BY <2>3 DEF CacheInv, CommandInv, FileOrder, Pending, Signs
    <2>5. c.session \in scene.accounts[c.name]
        BY <2>3, <2>4 DEF CacheInv, CommandInv, OwnCommand
    <2>6. scene.accounts \in [Names -> SUBSET Sessions] /\ c.name \in Names
        BY <2>2 DEF Command, IInv, Shape, Assumptions, Scene
    <2>7. c.session \in Sessions
        BY SMTT(60), <2>5, <2>6
    <2> QED BY <1>3, <2>7 DEF WriteCache
<1>4. CASE Purge(p)
    <2>1. c.victims \subseteq Names
        BY <1>4, Runs DEF Purge, At, Command
    <2> QED BY ZenonT(90), <1>4, <2>1 DEF Purge
<1>5. CASE Save(p)
    BY <1>5 DEF Save
<1> QED BY SMTT(60), <1>1, <1>2, <1>3, <1>4, <1>5 DEF Step

StoreInv ==
    /\ IInv /\ CacheInv /\ TokenInv
    /\ caches \subseteq Sessions /\ retired \subseteq Names

\* Both invariants hold at first.
LEMMA StoreInit ==
    ASSUME AllInit
    PROVE  StoreInv
<1>1. Assumptions /\ Token!Assumptions
    BY AllAssumptions DEF BothAssumptions
<1>2. Init /\ Token!Init
    BY DEF AllInit, StoreRests, BothInit
<1>3. caches = {} /\ retired = {}
    BY <1>2 DEF Init
<1> QED BY <1>1, <1>2, <1>3, InitIInv, CacheInit, TokenInit DEF StoreInv

\* Both invariants are inductive together.
LEMMA StoreNext ==
    ASSUME StoreInv, [AllNext]_allVars
    PROVE  StoreInv'
<1>1. Assumptions /\ Token!Assumptions
    BY AllAssumptions DEF BothAssumptions
<1>2. CASE UNCHANGED <<vars, tokenVars>>
    <2>1. IInv' /\ CacheInv' /\ TokenInv'
        BY <1>2, Stutters, CacheStutters, TokenStutters DEF StoreInv
    <2>2. UNCHANGED <<caches, retired>>
        BY <1>2 DEF vars
    <2> QED BY <2>1, <2>2 DEF StoreInv
<1>3. CASE Next /\ UNCHANGED tokenVars
    <2>1. PICK p \in Procs : Begin(p) \/ Step(p) \/ Fail(p) \/ Crash(p)
        BY <1>3 DEF Next
    <2>2. IInv'
        BY <1>1, <2>1, BeginInv, LoadInv, CacheStepInv, PurgeInv, SaveInv, LoadPlansInv,
           SavePlansInv, EndInv DEF Step, StoreInv
    <2>3. CacheInv'
        BY <1>1, <2>1, BeginCache, LoadCache, WriteCacheCache, RemoveOldCache, RemoveCacheCache,
           PurgeCache, SaveCache, PlansCache, EndCache DEF Step, StoreInv
    <2>4. caches' \subseteq Sessions /\ retired' \subseteq Names
        BY <1>1, <2>1, FilesOfStores DEF StoreInv
    <2>5. TokenInv'
        BY <1>3, TokenStutters DEF StoreInv
    <2> QED BY <2>2, <2>3, <2>4, <2>5 DEF StoreInv
<1>4. CASE Token!Next /\ UNCHANGED vars
    <2>1. TokenInv'
        BY <1>1, <1>4, TokenNext DEF StoreInv
    <2>2. IInv' /\ CacheInv'
        BY <1>4, Stutters, CacheStutters DEF StoreInv
    <2>3. UNCHANGED <<caches, retired>>
        BY <1>4 DEF vars
    <2> QED BY <2>1, <2>2, <2>3 DEF StoreInv
<1>5. UNCHANGED allVars => UNCHANGED <<vars, tokenVars>>
    BY DEF allVars, storeVars
<1>6. AllNext => \/ UNCHANGED <<vars, tokenVars>>
                 \/ Next /\ UNCHANGED tokenVars
                 \/ Token!Next /\ UNCHANGED vars
    BY DEF AllNext, BothNext, storeVars
<1> QED BY <1>2, <1>3, <1>4, <1>5, <1>6

\* Both invariants hold always.
LEMMA StoreInvAlways == AllSpec => []StoreInv
BY StoreInit, StoreNext, PTL DEF AllSpec

\* They have the types of both parts.
LEMMA StoreInvTypes ==
    ASSUME StoreInv
    PROVE  BothTypeOK
<1>1. Assumptions /\ Token!Assumptions
    BY AllAssumptions DEF BothAssumptions
<1>2. Token!TypeOK
    BY <1>1, TokenInvTypes DEF StoreInv
<1>3. ASSUME NEW p \in Procs PROVE proc[p] \in Command /\ CommandInv(proc[p])
    BY DEF StoreInv, IInv, Shape, CacheInv
<1>4. TypeOK
    <2>1. ASSUME NEW p \in Procs
          PROVE  /\ proc[p].cmd \in scene.commands \union {"idle"}
                 /\ proc[p].todo \in Seq(Steps)
                 /\ proc[p].name \in Names
                 /\ proc[p].session \in Sessions \union {NoSession}
                 /\ proc[p].old \in Sessions \union {NoSession}
                 /\ proc[p].plan \in {"keep", "set", "delete"}
                 /\ proc[p].edit \in Config
                 /\ proc[p].planEdit \subseteq Names
                 /\ proc[p].victims \subseteq Names
        BY <1>3 DEF Command, CommandInv
    <2> QED BY <2>1 DEF TypeOK, StoreInv, IInv, Shape
<1> QED BY <1>2, <1>4 DEF BothTypeOK

\* A session survives commands that refresh it at the same time, a logout and a
\* login in between, lost answers and failed writes, for any number of commands:
\* its newest refresh token is in the cache file whenever no command is about to
\* write it, unless the service replaces refresh tokens and an answer is lost
\* (EnsureValidLoginToken).
THEOREM SessionSurvivesAlways == AllSpec => []SessionSurvives
<1>1. StoreInv => SessionSurvives
    BY TokenInvSays DEF StoreInv
<1> QED BY <1>1, StoreInvAlways, PTL

\* The three properties of profiles, for the specification the run checks.
THEOREM ProfilesAgreeInStores ==
    AllSpec => [](ProfilesAgree /\ LoginSurvives /\ CachesMatchProfiles)
<1>1. StoreInv => ProfilesAgree
    BY DEF StoreInv, IInv, Turns, ProfilesAgree, PlanHasProfile
<1>2. StoreInv => LoginSurvives /\ CachesMatchProfiles
    BY CacheInvSays DEF StoreInv
<1> QED BY <1>1, <1>2, StoreInvAlways, PTL

-----------------------------------------------------------------------------
(* The histories among the behaviours of the module *)

HistoryP == INSTANCE MigrationHistoryProofs

\* Both instances of MigrationHistory do the same.
LEMMA SameNext == ASSUME History!Next PROVE HistoryP!Next
<1>1. PICK d \in team.members :
        \/ History!NewMigration(d)
        \/ \E e \in team.members : History!GitPull(d, e)
        \/ History!Fetch(d)
        \/ \E includeAll \in BOOLEAN : History!Push(d, includeAll)
        \/ History!ApplyNext(d)
        \/ History!Finish(d)
        \/ History!Stop(d)
        \/ \E last \in 1..History!Cardinality(DOMAIN rows) : History!Down(d, last)
        \/ History!Reset(d)
        \/ \E versions \in SUBSET DOMAIN files[d], all \in BOOLEAN : History!RepairApplied(d, versions, all)
        \/ \E versions \in SUBSET DOMAIN rows, all \in BOOLEAN : History!RepairReverted(d, versions, all)
        \/ \E version \in DOMAIN files[d], given \in BOOLEAN :
              History!SquashNothing(d, version, given) \/ History!Squash(d, version, given)
        \/ History!RemoveMerged(d)
        \/ History!Baseline(d)
    BY DEF History!Next
<1>2. History!NewMigration(d) <=> HistoryP!NewMigration(d)
    BY DEF History!NewMigration, HistoryP!NewMigration, History!Idle, HistoryP!Idle, History!Over, HistoryP!Over,
           History!Entry, HistoryP!Entry
<1>3. \A e : History!GitPull(d, e) <=> HistoryP!GitPull(d, e)
    BY DEF History!GitPull, HistoryP!GitPull, History!Idle, HistoryP!Idle, History!ToSet, HistoryP!ToSet
<1>4. History!Fetch(d) <=> HistoryP!Fetch(d)
    BY SMTT(60) DEF History!Fetch, HistoryP!Fetch, History!Free, HistoryP!Free, History!Idle, HistoryP!Idle,
           History!Over, HistoryP!Over
<1>5. ASSUME NEW includeAll PROVE History!Pending(d, includeAll) = HistoryP!Pending(d, includeAll)
    BY DEF History!Pending, HistoryP!Pending, History!GetPendingMigrations, HistoryP!GetPendingMigrations,
       History!FindPendingMigrations, HistoryP!FindPendingMigrations, History!Merge, HistoryP!Merge,
       History!Places, HistoryP!Places, History!Missing, HistoryP!Missing, History!Unapplied, HistoryP!Unapplied,
       History!Outcome, HistoryP!Outcome, History!Drop, HistoryP!Drop, History!InOrder, HistoryP!InOrder,
       History!Sorted, HistoryP!Sorted, History!Older, HistoryP!Older, History!Versions, HistoryP!Versions,
       History!Cardinality, HistoryP!Cardinality, History!IsFiniteSet, HistoryP!IsFiniteSet
<1>6. \A includeAll : History!Push(d, includeAll) <=> HistoryP!Push(d, includeAll)
    BY <1>5 DEF History!Push, HistoryP!Push, History!Free, HistoryP!Free, History!Idle, HistoryP!Idle,
           History!Goto, HistoryP!Goto, History!Running, HistoryP!Running
<1>7. History!ApplyNext(d) <=> HistoryP!ApplyNext(d)
    BY DEF History!ApplyNext, HistoryP!ApplyNext, History!Commit, HistoryP!Commit, History!Over, HistoryP!Over,
           History!Entry, HistoryP!Entry, History!Goto, HistoryP!Goto, History!Running, HistoryP!Running,
           History!EndCommand, HistoryP!EndCommand, History!NoCommand, HistoryP!NoCommand
<1>8. (History!Finish(d) <=> HistoryP!Finish(d)) /\ (History!Stop(d) <=> HistoryP!Stop(d))
    BY DEF History!Finish, HistoryP!Finish, History!Stop, HistoryP!Stop, History!Idle, HistoryP!Idle,
           History!Goto, HistoryP!Goto, History!EndCommand, HistoryP!EndCommand, History!NoCommand, HistoryP!NoCommand
<1>9. History!Cardinality(DOMAIN rows) = HistoryP!Cardinality(DOMAIN rows)
    BY DEF History!Cardinality, HistoryP!Cardinality, History!IsFiniteSet, HistoryP!IsFiniteSet
<1>10. \A last : History!Down(d, last) <=> HistoryP!Down(d, last)
    BY DEF History!Down, HistoryP!Down, History!Free, HistoryP!Free, History!Idle, HistoryP!Idle,
       History!Goto, HistoryP!Goto, History!Running, HistoryP!Running, History!InOrder, HistoryP!InOrder,
       History!Sorted, HistoryP!Sorted, History!Older, HistoryP!Older, History!Versions, HistoryP!Versions,
       History!Cardinality, HistoryP!Cardinality, History!IsFiniteSet, HistoryP!IsFiniteSet,
       History!ToSet, HistoryP!ToSet
<1>11. History!Reset(d) <=> HistoryP!Reset(d)
    BY DEF History!Reset, HistoryP!Reset,
       History!Goto, HistoryP!Goto, History!Running, HistoryP!Running, History!InOrder, HistoryP!InOrder,
       History!Sorted, HistoryP!Sorted, History!Older, HistoryP!Older, History!Versions, HistoryP!Versions,
       History!Cardinality, HistoryP!Cardinality, History!IsFiniteSet, HistoryP!IsFiniteSet
<1>12. \A versions, all : /\ History!RepairApplied(d, versions, all) <=> HistoryP!RepairApplied(d, versions, all)
                          /\ History!RepairReverted(d, versions, all) <=> HistoryP!RepairReverted(d, versions, all)
    BY SMTT(60) DEF History!RepairApplied, HistoryP!RepairApplied, History!RepairReverted, HistoryP!RepairReverted,
           History!Free, HistoryP!Free, History!Idle, HistoryP!Idle, History!Over, HistoryP!Over,
           History!Table, HistoryP!Table
<1>13. ASSUME NEW version
       PROVE  /\ History!Dumped(d, version) = HistoryP!Dumped(d, version)
              /\ History!Merged(d, version) = HistoryP!Merged(d, version)
              /\ History!Cardinality(History!Merged(d, version)) = HistoryP!Cardinality(HistoryP!Merged(d, version))
              /\ History!IsInjective(History!Dumped(d, version)) <=> HistoryP!IsInjective(HistoryP!Dumped(d, version))
    BY DEF History!Dumped, HistoryP!Dumped, History!Merged, HistoryP!Merged, History!InOrder, HistoryP!InOrder,
       History!Sorted, HistoryP!Sorted, History!Older, HistoryP!Older, History!Versions, HistoryP!Versions,
       History!Cardinality, HistoryP!Cardinality, History!IsFiniteSet, HistoryP!IsFiniteSet,
       History!FlattenSeq, HistoryP!FlattenSeq, History!IsInjective, HistoryP!IsInjective
<1>14. ASSUME NEW version, NEW given
       PROVE  /\ History!SquashNothing(d, version, given) <=> HistoryP!SquashNothing(d, version, given)
              /\ History!Squash(d, version, given) <=> HistoryP!Squash(d, version, given)
    <2>1. /\ History!Given(version, given) = HistoryP!Given(version, given)
          /\ History!Chosen(d, version, given) <=> HistoryP!Chosen(d, version, given)
        BY <1>13 DEF History!Given, HistoryP!Given, History!Chosen, HistoryP!Chosen, History!Free, HistoryP!Free,
           History!Idle, HistoryP!Idle
    <2>2. History!SquashNothing(d, version, given) <=> HistoryP!SquashNothing(d, version, given)
        BY <1>13, <2>1 DEF History!SquashNothing, HistoryP!SquashNothing, History!Goto, HistoryP!Goto,
           History!Running, HistoryP!Running
    <2>3. History!Squash(d, version, given) <=> HistoryP!Squash(d, version, given)
        <3>1. \A list : History!ToSet(list) = HistoryP!ToSet(list)
            BY DEF History!ToSet, HistoryP!ToSet
        <3>2. /\ \A c : History!Goto(d, c) <=> HistoryP!Goto(d, c)
              /\ \A at, queue, keep : History!Running(at, queue, keep) = HistoryP!Running(at, queue, keep)
              /\ History!NoCommand = HistoryP!NoCommand
            BY DEF History!Goto, HistoryP!Goto, History!Running, HistoryP!Running, History!NoCommand, HistoryP!NoCommand
        <3> DEFINE DumpsH(n) ==
                       LET body == History!Dumped(d, version)
                       IN  /\ files' = [files EXCEPT ![d][version] = SubSeq(body, 1, n)]
                           /\ torn' = torn \union (History!ToSet(files[d][version]) \ History!ToSet(SubSeq(body, 1, n)))
                           /\ History!Goto(d, IF n = Len(body)
                                              THEN History!Running("remove", History!Given(version, given),
                                                                   History!Merged(d, version) \ {version})
                                              ELSE History!NoCommand)
                   DumpsP(n) ==
                       LET body == HistoryP!Dumped(d, version)
                       IN  /\ files' = [files EXCEPT ![d][version] = SubSeq(body, 1, n)]
                           /\ torn' = torn \union (HistoryP!ToSet(files[d][version]) \ HistoryP!ToSet(SubSeq(body, 1, n)))
                           /\ HistoryP!Goto(d, IF n = Len(body)
                                               THEN HistoryP!Running("remove", HistoryP!Given(version, given),
                                                                     HistoryP!Merged(d, version) \ {version})
                                               ELSE HistoryP!NoCommand)
        <3>3. ASSUME NEW n PROVE DumpsH(n) <=> DumpsP(n)
            <4>1. PICK body : body = HistoryP!Dumped(d, version) /\ body = History!Dumped(d, version)
                BY <1>13
            <4>2. PICK part : part = SubSeq(body, 1, n)
                OBVIOUS
            <4>3. PICK c : c = IF n = Len(body)
                               THEN HistoryP!Running("remove", HistoryP!Given(version, given),
                                                     HistoryP!Merged(d, version) \ {version})
                               ELSE HistoryP!NoCommand
                OBVIOUS
            <4>4. c = IF n = Len(body)
                      THEN History!Running("remove", History!Given(version, given),
                                           History!Merged(d, version) \ {version})
                      ELSE History!NoCommand
                BY <1>13, <2>1, <3>2, <4>3
            <4>5. DumpsH(n) <=> /\ files' = [files EXCEPT ![d][version] = part]
                                /\ torn' = torn \union (History!ToSet(files[d][version]) \ History!ToSet(part))
                                /\ History!Goto(d, c)
                BY <4>1, <4>2, <4>4
            <4>6. DumpsP(n) <=> /\ files' = [files EXCEPT ![d][version] = part]
                                /\ torn' = torn \union (HistoryP!ToSet(files[d][version]) \ HistoryP!ToSet(part))
                                /\ HistoryP!Goto(d, c)
                BY <4>1, <4>2, <4>3
            <4> HIDE DEF DumpsH, DumpsP
            <4> QED BY <3>1, <3>2, <4>5, <4>6
        <3>4. History!Squash(d, version, given) <=>
                 /\ History!Chosen(d, version, given)
                 /\ History!Cardinality(History!Merged(d, version)) > 1
                 /\ History!IsInjective(History!Dumped(d, version))
                 /\ \E n \in 0..Len(History!Dumped(d, version)) : DumpsH(n)
                 /\ UNCHANGED <<clock, rows, ran, team>>
            BY DEF History!Squash
        <3>5. HistoryP!Squash(d, version, given) <=>
                 /\ HistoryP!Chosen(d, version, given)
                 /\ HistoryP!Cardinality(HistoryP!Merged(d, version)) > 1
                 /\ HistoryP!IsInjective(HistoryP!Dumped(d, version))
                 /\ \E n \in 0..Len(HistoryP!Dumped(d, version)) : DumpsP(n)
                 /\ UNCHANGED <<clock, rows, ran, team>>
            BY DEF HistoryP!Squash
        <3> HIDE DEF DumpsH, DumpsP
        <3> QED BY <1>13, <2>1, <3>3, <3>4, <3>5
    <2> QED BY <2>2, <2>3
<1>15. History!RemoveMerged(d) <=> HistoryP!RemoveMerged(d)
    BY DEF History!RemoveMerged, HistoryP!RemoveMerged, History!Table, HistoryP!Table,
       History!Goto, HistoryP!Goto, History!Running, HistoryP!Running
<1>16. History!Baseline(d) <=> HistoryP!Baseline(d)
    <2>1. History!InOrder(DOMAIN files[d]) = HistoryP!InOrder(DOMAIN files[d])
        BY DEF History!InOrder, HistoryP!InOrder, History!Sorted, HistoryP!Sorted, History!Older, HistoryP!Older,
           History!Versions, HistoryP!Versions, History!Cardinality, HistoryP!Cardinality,
           History!IsFiniteSet, HistoryP!IsFiniteSet
    <2> QED BY <2>1 DEF History!Baseline, HistoryP!Baseline, History!Over, HistoryP!Over, History!Table, HistoryP!Table,
            History!Entry, HistoryP!Entry, History!Goto, HistoryP!Goto, History!EndCommand, HistoryP!EndCommand,
            History!NoCommand, HistoryP!NoCommand
<1> QED BY <1>1, <1>2, <1>3, <1>4, <1>6, <1>7, <1>8, <1>9, <1>10, <1>11, <1>12, <1>14, <1>15, <1>16 DEF HistoryP!Next

\* They begin in the same states, and the properties say the same of them.
LEMMA SameHistory ==
    /\ History!Assumptions <=> HistoryP!Assumptions
    /\ History!Init <=> HistoryP!Init
    /\ History!TypeOK <=> HistoryP!TypeOK
    /\ History!HistoryTellsWhatRan <=> HistoryP!HistoryTellsWhatRan
    /\ History!RunsInOrder <=> HistoryP!RunsInOrder
<1>1. History!Assumptions <=> HistoryP!Assumptions
    BY DEF History!Assumptions, HistoryP!Assumptions, History!Team, HistoryP!Team,
           History!IsFiniteSet, HistoryP!IsFiniteSet
<1>2. History!Init <=> HistoryP!Init
    BY DEF History!Init, HistoryP!Init, History!NoCommand, HistoryP!NoCommand
<1>3. History!TypeOK <=> HistoryP!TypeOK
    BY DEF History!TypeOK, HistoryP!TypeOK, History!Versions, HistoryP!Versions
<1>4. History!HistoryTellsWhatRan <=> HistoryP!HistoryTellsWhatRan
    BY DEF History!HistoryTellsWhatRan, HistoryP!HistoryTellsWhatRan, History!Applied, HistoryP!Applied,
           History!ToSet, HistoryP!ToSet, History!IsInjective, HistoryP!IsInjective
<1>5. History!RunsInOrder <=> HistoryP!RunsInOrder
    BY SMTT(60) DEF History!RunsInOrder, HistoryP!RunsInOrder, History!Cardinality, HistoryP!Cardinality,
           History!IsFiniteSet, HistoryP!IsFiniteSet
<1> QED BY <1>1, <1>2, <1>3, <1>4, <1>5

\* Both instances find the same pending.
LEMMA SamePending ==
    ASSUME NEW d
    PROVE  /\ History!Pending(d, FALSE) = HistoryP!Pending(d, FALSE)
           /\ History!Outcome("none", <<>>) = HistoryP!Outcome("none", <<>>)
<1>1. History!Outcome("none", <<>>) = HistoryP!Outcome("none", <<>>)
    BY DEF History!Outcome, HistoryP!Outcome
<1> QED BY <1>1
    DEF History!Pending, HistoryP!Pending, History!GetPendingMigrations, HistoryP!GetPendingMigrations,
       History!FindPendingMigrations, HistoryP!FindPendingMigrations, History!Merge, HistoryP!Merge,
       History!Places, HistoryP!Places, History!Missing, HistoryP!Missing, History!Unapplied, HistoryP!Unapplied,
       History!Outcome, HistoryP!Outcome, History!Drop, HistoryP!Drop, History!InOrder, HistoryP!InOrder,
       History!Sorted, HistoryP!Sorted, History!Older, HistoryP!Older, History!Versions, HistoryP!Versions,
       History!Cardinality, HistoryP!Cardinality, History!IsFiniteSet, HistoryP!IsFiniteSet

\* Both instances mean the same by FilesAreRun.
LEMMA SameFilesAreRun == History!FilesAreRun <=> HistoryP!FilesAreRun
<1>1. History!UpToDateMeansRun <=> HistoryP!UpToDateMeansRun
    BY SamePending DEF History!UpToDateMeansRun, HistoryP!UpToDateMeansRun, History!ToSet, HistoryP!ToSet
<1>2. History!RanIsWritten <=> HistoryP!RanIsWritten
    BY DEF History!RanIsWritten, HistoryP!RanIsWritten, History!ToSet, HistoryP!ToSet
<1> QED BY <1>1, <1>2 DEF History!FilesAreRun, HistoryP!FilesAreRun

\* Both instances mean the same by their action properties.
LEMMA SameSteps ==
    /\ History!DownKeepsTheRestStep <=> HistoryP!DownKeepsTheRestStep
    /\ History!RepairsAgreeStep <=> HistoryP!RepairsAgreeStep
<1>1. History!DownKeepsTheRestStep <=> HistoryP!DownKeepsTheRestStep
    BY SMTT(60) DEF History!DownKeepsTheRestStep, HistoryP!DownKeepsTheRestStep, History!Cardinality, HistoryP!Cardinality,
           History!IsFiniteSet, HistoryP!IsFiniteSet, History!Finish, HistoryP!Finish,
           History!EndCommand, HistoryP!EndCommand, History!Goto, HistoryP!Goto, History!NoCommand, HistoryP!NoCommand
<1>2. ASSUME NEW d PROVE History!Pending(d, FALSE)' = HistoryP!Pending(d, FALSE)'
    BY DEF History!Pending, HistoryP!Pending, History!GetPendingMigrations, HistoryP!GetPendingMigrations,
       History!FindPendingMigrations, HistoryP!FindPendingMigrations, History!Merge, HistoryP!Merge,
       History!Places, HistoryP!Places, History!Missing, HistoryP!Missing, History!Unapplied, HistoryP!Unapplied,
       History!Outcome, HistoryP!Outcome, History!Drop, HistoryP!Drop, History!InOrder, HistoryP!InOrder,
       History!Sorted, HistoryP!Sorted, History!Older, HistoryP!Older, History!Versions, HistoryP!Versions,
       History!Cardinality, HistoryP!Cardinality, History!IsFiniteSet, HistoryP!IsFiniteSet
<1>3. \A d : /\ History!Fetch(d) <=> HistoryP!Fetch(d)
             /\ \A versions : History!RepairApplied(d, versions, TRUE) <=> HistoryP!RepairApplied(d, versions, TRUE)
    BY DEF History!RepairApplied, HistoryP!RepairApplied, History!Fetch, HistoryP!Fetch,
           History!Free, HistoryP!Free, History!Idle, HistoryP!Idle, History!Over, HistoryP!Over,
           History!Table, HistoryP!Table
<1>4. History!RepairsAgreeStep <=> HistoryP!RepairsAgreeStep
    BY <1>2, <1>3 DEF History!RepairsAgreeStep, HistoryP!RepairsAgreeStep
<1> QED BY <1>1, <1>4

\* Both instances compare the same texts.
LEMMA SameTexts ==
    /\ HistoryP!FindsPending => History!FindsPending
    /\ History!VersionTexts = HistoryP!VersionTexts
<1>1. History!VersionTexts = HistoryP!VersionTexts
    BY SMTT(60) DEF History!VersionTexts, HistoryP!VersionTexts
<1>2. \A local, remote, before :
        /\ History!Texts!FindPendingMigrations(local, remote, before) = HistoryP!Texts!FindPendingMigrations(local, remote, before)
        /\ History!Texts!GetPendingMigrations(local, remote, TRUE, before) = HistoryP!Texts!GetPendingMigrations(local, remote, TRUE, before)
    BY DEF History!Texts!FindPendingMigrations, HistoryP!Texts!FindPendingMigrations,
           History!Texts!GetPendingMigrations, HistoryP!Texts!GetPendingMigrations,
           History!Texts!Merge, HistoryP!Texts!Merge, History!Texts!Places, HistoryP!Texts!Places,
           History!Texts!Missing, HistoryP!Texts!Missing, History!Texts!Unapplied, HistoryP!Texts!Unapplied,
           History!Texts!Drop, HistoryP!Texts!Drop, History!Texts!Outcome, HistoryP!Texts!Outcome
<1>3. \A a, b : /\ History!Texts!TextBefore(a, b) <=> HistoryP!Texts!TextBefore(a, b)
                /\ History!Texts!FileBefore(a, b) <=> HistoryP!Texts!FileBefore(a, b)
    BY DEF History!Texts!TextBefore, HistoryP!Texts!TextBefore, History!Texts!FileBefore, HistoryP!Texts!FileBefore,
           History!Texts!IsStrictPrefix, HistoryP!Texts!IsStrictPrefix, History!Texts!IsPrefix, HistoryP!Texts!IsPrefix
<1>4. /\ History!Texts!TextOrder = HistoryP!Texts!TextOrder
      /\ History!Texts!FileOrder = HistoryP!Texts!FileOrder
    BY <1>1, <1>3 DEF History!Texts!TextOrder, HistoryP!Texts!TextOrder, History!Texts!FileOrder, HistoryP!Texts!FileOrder
<1>5. /\ \A set, before : History!Texts!Sorted(set, before) = HistoryP!Texts!Sorted(set, before)
      /\ \A e, l : History!Texts!Outcome(e, l) = HistoryP!Texts!Outcome(e, l)
    <2>1. \A set, before : History!Texts!Sorted(set, before) = HistoryP!Texts!Sorted(set, before)
        BY DEF History!Texts!Sorted, HistoryP!Texts!Sorted, History!Texts!Cardinality, HistoryP!Texts!Cardinality,
               History!Texts!IsFiniteSet, HistoryP!Texts!IsFiniteSet
    <2>2. \A e, l : History!Texts!Outcome(e, l) = HistoryP!Texts!Outcome(e, l)
        BY DEF History!Texts!Outcome, HistoryP!Texts!Outcome
    <2> QED BY <2>1, <2>2
<1>6. History!Texts!Local = HistoryP!Texts!Local /\ History!Texts!Remote = HistoryP!Texts!Remote
    BY <1>4, <1>5 DEF History!Texts!Local, HistoryP!Texts!Local, History!Texts!Remote, HistoryP!Texts!Remote
<1>7. History!Texts!Found = HistoryP!Texts!Found /\ History!Texts!FoundAll = HistoryP!Texts!FoundAll
    BY <1>2, <1>4, <1>6 DEF History!Texts!Found, HistoryP!Texts!Found, History!Texts!FoundAll, HistoryP!Texts!FoundAll
<1>8. History!Texts!OutOfOrder = HistoryP!Texts!OutOfOrder
    <2>1. History!Texts!Last(History!Texts!Remote) = HistoryP!Texts!Last(HistoryP!Texts!Remote)
        BY <1>6 DEF History!Texts!Last, HistoryP!Texts!Last
    <2> QED BY <1>3, <2>1 DEF History!Texts!OutOfOrder, HistoryP!Texts!OutOfOrder
<1>9. (History!Texts!FindsPending <=> HistoryP!Texts!FindsPending)
      /\ (History!Texts!IncludesAll <=> HistoryP!Texts!IncludesAll)
    BY <1>4, <1>5, <1>7, <1>8
    DEF History!Texts!FindsPending, HistoryP!Texts!FindsPending, History!Texts!IncludesAll, HistoryP!Texts!IncludesAll
<1> QED BY <1>1, <1>9 DEF History!FindsPending, HistoryP!FindsPending

\* The history of the chosen team keeps its invariant; else it is at rest.
HistoryInv ==
    /\ InHistory => HistoryP!HistoryInv
    /\ which = "texts" => textFiles \subseteq History!VersionTexts /\ textRows \subseteq History!VersionTexts

\* The invariant of the histories holds at first.
LEMMA HistoryInit == ASSUME AllInit PROVE HistoryInv
<1>1. HistoryP!Assumptions
    BY AllAssumptions, SameHistory
<1>2. CASE InHistory
    <2>1. History!BothInit
        BY <1>2 DEF AllInit, InHistory, BothInit
    <2>2. HistoryP!HistoryInv
        BY <1>1, <2>1, SameHistory, HistoryP!HistoryInvInit DEF History!BothInit
    <2>3. which = "texts" => History!Texts!Init
        BY <2>1 DEF History!BothInit
    <2> QED BY <2>2, <2>3 DEF HistoryInv, History!Texts!Init
<1> QED BY <1>2 DEF HistoryInv, InHistory

\* A step of the model is one of the history, where one was chosen.
LEMMA HistorySteps ==
    ASSUME [AllNext]_allVars
    PROVE  /\ which' = which
           /\ InHistory => [HistoryP!Next]_(HistoryP!vars)
           /\ which = "texts" => UNCHANGED <<textFiles, textRows>>
<1>1. CASE UNCHANGED allVars
    <2>1. UNCHANGED <<which, historyVars>>
        BY <1>1 DEF allVars
    <2> QED BY <2>1 DEF historyVars, HistoryP!vars
<1>2. CASE History!BothNext
    BY <1>2, SameNext DEF History!BothNext
<1>3. CASE BothNext /\ UNCHANGED historyVars
    <2>1. UNCHANGED <<which, historyVars>>
        BY <1>3 DEF BothNext
    <2> QED BY <2>1 DEF historyVars, HistoryP!vars
<1>4. CASE which = "sql" /\ UNCHANGED which
    BY <1>4 DEF InHistory
<1> QED BY <1>1, <1>2, <1>3, <1>4 DEF AllNext

\* The invariant of the histories is kept.
LEMMA HistoryNext == ASSUME HistoryInv, [AllNext]_allVars PROVE HistoryInv'
<1>1. HistoryP!Assumptions
    BY AllAssumptions, SameHistory
<1>2. CASE InHistory
    <2>1. which' = which /\ [HistoryP!Next]_(HistoryP!vars)
          /\ (which = "texts" => UNCHANGED <<textFiles, textRows>>)
        BY <1>2, HistorySteps
    <2>2. HistoryP!HistoryInv'
        BY <1>1, <1>2, <2>1, HistoryP!HistoryInvNext DEF HistoryInv
    <2>3. History!VersionTexts' = History!VersionTexts
        BY DEF History!VersionTexts
    <2> QED BY <2>1, <2>2, <2>3 DEF HistoryInv
<1>3. CASE ~InHistory
    BY <1>3, HistorySteps DEF HistoryInv, InHistory
<1> QED BY <1>2, <1>3

-----------------------------------------------------------------------------
(* The tokenizer *)

Tokenizer == INSTANCE SqlTokenizerProofs

\* Both instances of SqlTokenizer make the same of a symbol,
LEMMA SameNextState ==
    ASSUME NEW s, NEW r, NEW d
    PROVE  Sql!NextState(s, r, d) = Tokenizer!NextState(s, r, d)
<1>1. \A w : Sql!EndsWith(d, w) <=> Tokenizer!EndsWith(d, w)
    BY DEF Sql!EndsWith, Tokenizer!EndsWith, Sql!IsSuffix, Tokenizer!IsSuffix, Sql!IsPrefix,
         Tokenizer!IsPrefix, Sql!Reverse, Tokenizer!Reverse
<1>2. Sql!IsBeginAtomic(d) <=> Tokenizer!IsBeginAtomic(d)
    BY <1>1 DEF Sql!IsBeginAtomic, Tokenizer!IsBeginAtomic, Sql!Identifier,
         Tokenizer!Identifier, Sql!Words, Tokenizer!Words
<1>3. Sql!Ready = Tokenizer!Ready /\ Sql!Emit = Tokenizer!Emit
    BY DEF Sql!Ready, Tokenizer!Ready, Sql!Emit, Tokenizer!Emit
<1>4. Sql!FromReady(r, d) = Tokenizer!FromReady(r, d)
    BY <1>2 DEF Sql!FromReady, Tokenizer!FromReady, Sql!Ready, Tokenizer!Ready, Sql!Comment,
         Tokenizer!Comment, Sql!Escape, Tokenizer!Escape, Sql!Block, Tokenizer!Block,
         Sql!Quote, Tokenizer!Quote, Sql!Dollar, Tokenizer!Dollar, Sql!Tag, Tokenizer!Tag,
         Sql!Atomic, Tokenizer!Atomic, Sql!Emit, Tokenizer!Emit, Sql!Quotes, Tokenizer!Quotes
<1>5. \A p : Sql!FromInnermost(p, r, d) = Tokenizer!FromInnermost(p, r, d)
    BY <1>1, <1>4 DEF Sql!FromInnermost, Tokenizer!FromInnermost, Sql!FromBlock,
         Tokenizer!FromBlock, Sql!FromQuote, Tokenizer!FromQuote, Sql!FromTag,
         Tokenizer!FromTag, Sql!Ready, Tokenizer!Ready, Sql!Escape, Tokenizer!Escape,
         Sql!Block, Tokenizer!Block, Sql!Quote, Tokenizer!Quote, Sql!Dollar, Tokenizer!Dollar,
         Sql!Words, Tokenizer!Words
<1> DEFINE Inner(f, k, emit) == IF f[k + 1] = emit THEN SubSeq(s, k + 1, Len(s)) ELSE f[k + 1]
           Here(f) == [k \in 1..Len(s) |->
                        IF k = Len(s) THEN Sql!FromInnermost(s[k], r, d)
                        ELSE IF Inner(f, k, Sql!Emit) = Sql!Ready /\ Sql!EndsWith(d, s[k].delimiter)
                             THEN Sql!Ready ELSE <<s[k]>> \o Inner(f, k, Sql!Emit)]
           There(f) == [k \in 1..Len(s) |->
                        IF k = Len(s) THEN Tokenizer!FromInnermost(s[k], r, d)
                        ELSE IF Inner(f, k, Tokenizer!Emit) = Tokenizer!Ready
                                  /\ Tokenizer!EndsWith(d, s[k].delimiter)
                             THEN Tokenizer!Ready ELSE <<s[k]>> \o Inner(f, k, Tokenizer!Emit)]
<1>6. \A f : Here(f) = There(f)
    <2> HIDE DEF Inner
    <2> QED BY <1>1, <1>3, <1>5
<1>7. (CHOOSE f : f = Here(f)) = (CHOOSE f : f = There(f))
    <2> HIDE DEF Here, There
    <2> QED BY <1>6
<1>8. Sql!NextState(s, r, d) = (CHOOSE f : f = Here(f))[1]
    BY ZenonT(60) DEF Sql!NextState
<1>9. Tokenizer!NextState(s, r, d) = (CHOOSE f : f = There(f))[1]
    BY ZenonT(60) DEF Tokenizer!NextState
<1> QED
    <2> HIDE DEF Here, There
    <2> QED BY <1>7, <1>8, <1>9, ZenonT(60)

\* begin and go on alike,
LEMMA SameScan ==
    /\ Sql!Symbols = Tokenizer!Symbols
    /\ Sql!Init => Tokenizer!Init
    /\ \A r : Sql!Scan(r) => Tokenizer!Scan(r)
<1>1. Sql!Symbols = Tokenizer!Symbols
    BY DEF Sql!Symbols, Tokenizer!Symbols
<1>2. Sql!Init => Tokenizer!Init
    BY DEF Sql!Init, Tokenizer!Init, Sql!Ready, Tokenizer!Ready
<1>3. \A s, r, d : Sql!NextState(s, r, d) = Tokenizer!NextState(s, r, d)
    BY SameNextState
<1>4. Sql!Invalid = Tokenizer!Invalid /\ Sql!Emit = Tokenizer!Emit /\ Sql!Ready = Tokenizer!Ready
    BY DEF Sql!Invalid, Tokenizer!Invalid, Sql!Emit, Tokenizer!Emit, Sql!Ready, Tokenizer!Ready
<1>5. ASSUME NEW r, Sql!Scan(r) PROVE Tokenizer!Scan(r)
    BY <1>3, <1>4, <1>5 DEF Sql!Scan, Tokenizer!Scan
<1> QED BY <1>1, <1>2, <1>5

\* and ask the same of the cuts.
LEMMA SameCuts == Sql!CutsAtEnds <=> Tokenizer!CutsAtEnds
<1>0. \A t, i : Sql!LexemeEnd(t, i) = Tokenizer!LexemeEnd(t, i)
    BY DEF Sql!LexemeEnd, Tokenizer!LexemeEnd, Sql!Has, Tokenizer!Has, Sql!TagAt,
         Tokenizer!TagAt, Sql!First, Tokenizer!First, Sql!Min, Tokenizer!Min, Sql!Words,
         Tokenizer!Words, Sql!Quotes, Tokenizer!Quotes, Sql!Cardinality,
         Tokenizer!Cardinality, Sql!IsFiniteSet, Tokenizer!IsFiniteSet
<1>1. \A t : Sql!Lexemes(t) = Tokenizer!Lexemes(t)
    <2> TAKE t
    <2> DEFINE Here(f) == [j \in 1..Len(t) |->
                            j = 1 \/ \E i \in 1..(j - 1) : f[i] /\ Sql!LexemeEnd(t, i) = j - 1]
               There(f) == [j \in 1..Len(t) |->
                            j = 1 \/ \E i \in 1..(j - 1) : f[i] /\ Tokenizer!LexemeEnd(t, i) = j - 1]
    <2>1. \A f : Here(f) = There(f)
        BY <1>0
    <2>2. (CHOOSE f : f = Here(f)) = (CHOOSE f : f = There(f))
        <3> HIDE DEF Here, There
        <3> QED BY <2>1
    <2>3. Sql!Lexemes(t) = {j \in 1..Len(t) : (CHOOSE f : f = Here(f))[j]}
        BY ZenonT(60) DEF Sql!Lexemes
    <2>4. Tokenizer!Lexemes(t) = {j \in 1..Len(t) : (CHOOSE f : f = There(f))[j]}
        BY ZenonT(60) DEF Tokenizer!Lexemes
    <2> QED
        <3> HIDE DEF Here, There
        <3> QED BY <2>2, <2>3, <2>4, ZenonT(60)
<1>2. \A t, L : Sql!Groups(t, L) = Tokenizer!Groups(t, L)
    BY DEF Sql!Groups, Tokenizer!Groups, Sql!Grouped, Tokenizer!Grouped, Sql!BeginsBody,
         Tokenizer!BeginsBody, Sql!Whole, Tokenizer!Whole, Sql!Identifier,
         Tokenizer!Identifier, Sql!Words, Tokenizer!Words, Sql!Contains, Tokenizer!Contains
<1>3. \A t : Sql!StatementEnds(t) = Tokenizer!StatementEnds(t)
    BY <1>1, <1>2 DEF Sql!StatementEnds, Tokenizer!StatementEnds
<1>4. \A t, i, w : Sql!Has(t, i, w) <=> Tokenizer!Has(t, i, w)
    BY DEF Sql!Has, Tokenizer!Has
<1>5. \A t : Sql!Nested(t) <=> Tokenizer!Nested(t)
    BY <1>1, <1>2, <1>4 DEF Sql!Nested, Tokenizer!Nested
<1>6. \A t, i : Sql!TagAt(t, i) = Tokenizer!TagAt(t, i)
    BY DEF Sql!TagAt, Tokenizer!TagAt, Sql!First, Tokenizer!First, Sql!Min, Tokenizer!Min,
         Sql!Words, Tokenizer!Words
<1>7. \A t, i : Sql!Whole(t, i) <=> Tokenizer!Whole(t, i)
    BY DEF Sql!Whole, Tokenizer!Whole, Sql!Identifier, Tokenizer!Identifier, Sql!Words,
         Tokenizer!Words
<1>8. \A t, i : Sql!Contains(t, i) <=> Tokenizer!Contains(t, i)
    BY DEF Sql!Contains, Tokenizer!Contains
<1>9. Sql!Identifier = Tokenizer!Identifier
    BY DEF Sql!Identifier, Tokenizer!Identifier, Sql!Words, Tokenizer!Words
<1>10. \A t : Sql!Misread(t) <=> Tokenizer!Misread(t)
    BY <1>0, <1>1, <1>2, <1>4, <1>6, <1>7, <1>8, <1>9 DEF Sql!Misread, Tokenizer!Misread
<1> QED BY <1>3, <1>5, <1>10 DEF Sql!CutsAtEnds, Tokenizer!CutsAtEnds, Sql!Last, Tokenizer!Last

\* The tokenizer has read a part of the script, and all that it keeps is what
\* that part has made of it (SqlTokenizerProofs).
SqlInv == which = "sql" => Sql!TypeOK /\ Tokenizer!TraceInv

\* The tokenizer has read nothing at first.
LEMMA SqlInit == ASSUME AllInit PROVE SqlInv
<1> SUFFICES ASSUME which = "sql" PROVE Sql!TypeOK /\ Tokenizer!TraceInv
    BY DEF SqlInv
<1>1. Sql!Init
    BY DEF AllInit, BothInit, History!BothInit
<1>2. Tokenizer!TraceInv
    BY <1>1, SameScan, Tokenizer!TraceInit
<1> QED BY <1>1, <1>2 DEF Sql!Init, Sql!TypeOK

\* The tokenizer keeps it, symbol by symbol.
LEMMA SqlNext == ASSUME SqlInv, [AllNext]_allVars PROVE SqlInv'
<1> SUFFICES ASSUME which' = "sql" PROVE Sql!TypeOK' /\ Tokenizer!TraceInv'
    BY DEF SqlInv
<1>1. which = "sql" /\ Sql!TypeOK /\ Tokenizer!TraceInv
    BY HistorySteps DEF SqlInv
<1>2. CASE UNCHANGED sqlVars
    <2>1. UNCHANGED <<alphabet, text, start, state, cuts>>
        BY <1>2 DEF sqlVars
    <2>2. Tokenizer!TraceInv'
        BY <1>1, <2>1 DEF Tokenizer!TraceInv, Tokenizer!Trace
    <2> QED BY <1>1, <2>1, <2>2 DEF Sql!TypeOK
<1>3. CASE Sql!Next
    <2>1. PICK r \in alphabet : Sql!Scan(r)
        BY <1>3 DEF Sql!Next
    <2>2. /\ text' = Append(text, r) /\ alphabet' = alphabet
          /\ \/ cuts' = cuts \union {Len(text')} /\ start' = Len(text')
             \/ UNCHANGED <<start, cuts>>
        BY <2>1 DEF Sql!Scan
    <2>3. text \in Seq(alphabet) /\ start \in 0..Len(text) /\ cuts \subseteq 1..Len(text)
        BY <1>1 DEF Sql!TypeOK
    <2>4. text' \in Seq(alphabet) /\ Len(text') = Len(text) + 1 /\ Len(text) \in Nat
        BY <2>2, <2>3
    <2>5. start' \in 0..Len(text')
        BY <2>2, <2>3, <2>4
    <2>6. cuts' \subseteq 1..Len(text')
        <3>1. 1..Len(text) \subseteq 1..Len(text') /\ Len(text') \in 1..Len(text')
            BY <2>4
        <3> QED BY <2>2, <2>3, <3>1
    <2>7. r \in Tokenizer!Symbols
        BY <1>1, AllAssumptions, SameScan DEF Sql!Assumptions, Sql!TypeOK
    <2>8. Tokenizer!TraceInv'
        BY <1>1, <2>1, <2>7, SameScan, Tokenizer!TraceScan
    <2> QED BY <1>1, <2>2, <2>4, <2>5, <2>6, <2>8 DEF Sql!TypeOK
<1>4. UNCHANGED sqlVars \/ Sql!Next
    BY <1>1 DEF AllNext, allVars, BothNext, History!BothNext
<1> QED BY <1>2, <1>3, <1>4

-----------------------------------------------------------------------------
(* The theorems of the run *)

\* They hold always.
LEMMA HistoryInvAlways == AllSpec => [](HistoryInv /\ SqlInv)
BY HistoryInit, HistoryNext, SqlInit, SqlNext, PTL DEF AllSpec

\* They say what the properties of the run ask.
LEMMA HistoryInvSays ==
    ASSUME HistoryInv
    PROVE  /\ InHistory => History!TypeOK
           /\ HistoryTellsWhatRan /\ RunsInOrder /\ FilesAreRun /\ FindsPending
<1>1. HistoryP!Assumptions
    BY AllAssumptions, SameHistory
<1>2. InHistory => /\ HistoryP!TypeOK /\ HistoryP!HistoryTellsWhatRan /\ HistoryP!RunsInOrder
                   /\ HistoryP!UpToDateMeansRun /\ HistoryP!RanIsWritten
    BY <1>1, HistoryP!HistoryInvSays DEF HistoryInv
<1>3. InHistory => /\ History!TypeOK /\ History!HistoryTellsWhatRan /\ History!RunsInOrder
                   /\ History!FilesAreRun
    BY <1>2, SameHistory, SameFilesAreRun DEF HistoryP!FilesAreRun
<1>4. which = "texts" => History!FindsPending
    BY SameTexts, HistoryP!TextsFindPending DEF HistoryInv
<1> QED BY <1>3, <1>4 DEF InHistory, HistoryTellsWhatRan, RunsInOrder, FilesAreRun, FindsPending

\* Every part of the model keeps its types.
THEOREM AllTypeOKAlways == AllSpec => []AllTypeOK
<1>1. StoreInv /\ HistoryInv /\ SqlInv => AllTypeOK
    BY StoreInvTypes, HistoryInvSays DEF AllTypeOK, SqlInv
<1> QED BY <1>1, StoreInvAlways, HistoryInvAlways, PTL

\* However the pushes, downs and fetches of developers interleave, and whenever
\* they are cut short, the rows of the history table are the migrations that
\* ran, each of which ran once (ExecBatch).
THEOREM HistoryTellsWhatRanAlways == AllSpec => []HistoryTellsWhatRan
BY HistoryInvAlways, HistoryInvSays, PTL

\* Where one developer pushes, no migration is run after a newer one.
THEOREM RunsInOrderAlways == AllSpec => []RunsInOrder
BY HistoryInvAlways, HistoryInvSays, PTL

\* A push that finds nothing to do means that every file was run, and what was
\* run is written down, through squashes, pulls and downs, wherever these are
\* cut short, but for what a squash cut from its file and did not dump.
THEOREM FilesAreRunAlways == AllSpec => []FilesAreRun
BY HistoryInvAlways, HistoryInvSays, PTL

\* The files without a row are found pending (FindPendingMigrations).
THEOREM FindsPendingAlways == AllSpec => []FindsPending
BY HistoryInvAlways, HistoryInvSays, PTL

\* Of every script, of any length: it is cut exactly where its statements end,
\* however comments, quotes, dollar quotes, groups and function bodies stand in
\* each other, apart from what Misread and Nested name (tokenizer.ScanToken).
THEOREM CutsAtEndsAlways == AllSpec => []CutsAtEnds
<1>1. SqlInv => CutsAtEnds
    BY SameCuts, Tokenizer!TraceSays DEF SqlInv, CutsAtEnds, Tokenizer!CutsAtEnds
<1> QED BY <1>1, HistoryInvAlways, PTL

\* A down of a developer on his own keeps the rows it promised to keep.
THEOREM DownKeepsTheRestAlways == AllSpec => DownKeepsTheRest
<1>1. HistoryP!Assumptions
    BY AllAssumptions, SameHistory
<1>2. HistoryInv /\ HistoryInv' /\ [AllNext]_allVars =>
        [which = "history" => History!DownKeepsTheRestStep]_allVars
    BY <1>1, HistorySteps, SameSteps, HistoryP!HistorySteps DEF HistoryInv, InHistory
<1> QED BY <1>2, HistoryInvAlways, PTL DEF AllSpec, DownKeepsTheRest

\* A repair of the whole table, and a fetch, leave no row without a file.
THEOREM RepairsAgreeAlways == AllSpec => RepairsAgree
<1>1. HistoryP!Assumptions
    BY AllAssumptions, SameHistory
<1>2. HistoryInv /\ HistoryInv' /\ [AllNext]_allVars =>
        [which = "history" => History!RepairsAgreeStep]_allVars
    BY <1>1, HistorySteps, SameSteps, HistoryP!HistorySteps DEF HistoryInv, InHistory
<1> QED BY <1>2, HistoryInvAlways, PTL DEF AllSpec, RepairsAgree
==============================================================================
