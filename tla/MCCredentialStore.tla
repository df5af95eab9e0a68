-------------------------- MODULE MCCredentialStore --------------------------
(***************************************************************************)
(* Instances of CredentialStore, two profiles and three sessions in four   *)
(* scenes, and of LoginToken, under the two services with which a session  *)
(* should survive.  They share no state here: the first state chooses one  *)
(* of them (which), and the other stays in one of its initial states.      *)
(***************************************************************************)
EXTENDS CredentialStore, TLC

CONSTANTS TokenProcs,               \* the commands that use one session
          MaxAttempts, MaxGrants    \* of LoginToken

\* Every profile signs in to sessions of its own.
Own == (1 :> {"s1", "s2"}) @@ (2 :> {"s3"})

\* One identity is used from two profiles.
Shared == (1 :> {"s1", "s2"}) @@ (2 :> {"s1"})
One == (1 :> {"s1"}) @@ (2 :> {"s1"})

\* Every command, one after the other.
Orderly == [commands |-> AllCommands, accounts |-> Own, alone |-> TRUE, faults |-> FALSE]

\* Commands fail and are killed.
Faulty == [commands |-> AllCommands \ {"login"}, accounts |-> Own, alone |-> TRUE, faults |-> TRUE]

\* Profiles share an identity and change it.
Sharing == [commands |-> AllCommands \ {"set", "delete"}, accounts |-> Shared,
            alone |-> TRUE, faults |-> FALSE]

\* The commands that change which profile is current, two at a time, and they
\* fail and are killed.
Racing == [commands |-> {"import", "logout", "logoutAll", "switch", "delete"},
           accounts |-> One, alone |-> FALSE, faults |-> TRUE]

EveryScene == {Orderly, Faulty, Sharing, Racing}
OrderlyScene == {Orderly}

ProcSymmetry == Permutations(Procs)

SafeWorlds == {[rotates |-> TRUE, losses |-> FALSE], [rotates |-> FALSE, losses |-> TRUE]}

VARIABLES which, grants, accepts, expired, cache, profile, token, attempt, world

Token == INSTANCE LoginToken WITH Procs <- TokenProcs, Worlds <- SafeWorlds, proc <- token

tokenVars == <<grants, accepts, expired, cache, profile, token, attempt, world>>

BothInit ==
    /\ which \in {"store", "token"}
    /\ Init /\ (which = "token" => scene = Orderly)
    /\ Token!Init /\ (which = "store" => world.losses)

BothNext ==
    \/ which = "store" /\ Next /\ UNCHANGED <<which, tokenVars>>
    \/ which = "token" /\ Token!Next /\ UNCHANGED <<which, vars>>

BothSpec == BothInit /\ [][BothNext]_<<which, vars, tokenVars>>

-----------------------------------------------------------------------------

BothAssumptions == Assumptions /\ Token!Assumptions
BothTypeOK == TypeOK /\ Token!TypeOK

\* A session survives commands that refresh it at the same time, and a logout
\* and a login in between (LoginToken).
SessionSurvives == Token!SessionSurvives
=============================================================================
