--------------------------- MODULE JobQueueProofs ---------------------------
(***************************************************************************)
(* Theorems about pkg/queue, for every number of jobs and every value of   *)
(* maxConcurrency.  The argument counts tokens: what is in the channel,    *)
(* plus the goroutines that will still send, plus the result Collect holds *)
(* between its receive and its refill, is always Workers.                  *)
(***************************************************************************)
EXTENDS JobQueue, FiniteSetTheorems, SequenceTheorems, TLAPS

USE JobsAssumption, WorkersAssumption

-----------------------------------------------------------------------------
(* How often a value occurs in a sequence *)

\* How often something occurs in a sequence is a number.
LEMMA TimesType ==
    ASSUME NEW S, NEW seq \in Seq(S), NEW e
    PROVE  /\ IsFiniteSet({n \in DOMAIN seq : seq[n] = e})
           /\ Times(seq, e) \in Nat
<1>1. IsFiniteSet(1..Len(seq)) /\ DOMAIN seq = 1..Len(seq)
    BY FS_Interval, LenProperties
<1>2. IsFiniteSet({n \in DOMAIN seq : seq[n] = e})
    BY <1>1, FS_Subset
<1> QED BY <1>2, FS_CardinalityType DEF Times

\* Nothing occurs in the empty sequence.
LEMMA TimesEmpty ==
    ASSUME NEW e
    PROVE  Times(<<>>, e) = 0
<1>1. {n \in DOMAIN <<>> : <<>>[n] = e} = {}
    OBVIOUS
<1> QED BY <1>1, FS_EmptySet DEF Times

\* The count in a sequence of one.
LEMMA TimesSingleton ==
    ASSUME NEW a, NEW e
    PROVE  Times(<<a>>, e) = IF a = e THEN 1 ELSE 0
<1>1. {n \in DOMAIN <<a>> : <<a>>[n] = e} = IF a = e THEN {1} ELSE {}
    OBVIOUS
<1> QED BY <1>1, FS_EmptySet, FS_Singleton DEF Times

\* The count after a send.
LEMMA TimesAppend ==
    ASSUME NEW S, NEW seq \in Seq(S), NEW a \in S, NEW e
    PROVE  Times(Append(seq, a), e) = Times(seq, e) + (IF a = e THEN 1 ELSE 0)
<1> DEFINE old == {n \in DOMAIN seq : seq[n] = e}
           new == {n \in DOMAIN Append(seq, a) : Append(seq, a)[n] = e}
<1>1. IsFiniteSet(old) /\ Cardinality(old) \in Nat
    BY TimesType DEF Times
<1>2. /\ DOMAIN seq = 1..Len(seq)
      /\ Len(seq) \in Nat
      /\ DOMAIN Append(seq, a) = 1..(Len(seq) + 1)
      /\ \A n \in 1..Len(seq) : Append(seq, a)[n] = seq[n]
      /\ Append(seq, a)[Len(seq) + 1] = a
    BY LenProperties, AppendProperties
<1>3. new = IF a = e THEN old \union {Len(seq) + 1} ELSE old
    BY <1>2
<1>4. Len(seq) + 1 \notin old
    BY <1>2
<1> HIDE DEF old, new
<1>5. Cardinality(old \union {Len(seq) + 1}) = Cardinality(old) + 1
    BY <1>1, <1>4, FS_AddElement
<1>6. Cardinality(new) = Cardinality(old) + (IF a = e THEN 1 ELSE 0)
    BY <1>1, <1>3, <1>5
<1> QED BY <1>6 DEF Times, old, new

\* The count before a receive.
LEMMA TimesTail ==
    ASSUME NEW S, NEW seq \in Seq(S), seq # <<>>, NEW e
    PROVE  Times(seq, e) = Times(Tail(seq), e) + (IF Head(seq) = e THEN 1 ELSE 0)
<1> DEFINE all == {n \in DOMAIN seq : seq[n] = e}
           rest == {n \in DOMAIN Tail(seq) : Tail(seq)[n] = e}
           later == all \ {1}
           f == [n \in rest |-> n + 1]
<1>1. /\ DOMAIN seq = 1..Len(seq)
      /\ Len(seq) \in Nat \ {0}
      /\ DOMAIN Tail(seq) = 1..(Len(seq) - 1)
      /\ \A n \in 1..(Len(seq) - 1) : Tail(seq)[n] = seq[n + 1]
      /\ Tail(seq) \in Seq(S)
      /\ Head(seq) = seq[1]
    <2>1. Len(seq) \in Nat \ {0} /\ DOMAIN seq = 1..Len(seq)
        BY LenProperties, EmptySeq
    <2>2. Tail(seq) \in Seq(S) /\ Len(Tail(seq)) = Len(seq) - 1
        BY HeadTailProperties
    <2>3. DOMAIN Tail(seq) = 1..(Len(seq) - 1)
        BY <2>2, LenProperties
    <2> QED BY <2>1, <2>2, <2>3, HeadTailProperties
<1>2. IsFiniteSet(all) /\ IsFiniteSet(rest) /\ Cardinality(rest) \in Nat
    BY <1>1, TimesType DEF Times
<1>3. f \in Bijection(rest, later)
    <2>1. f \in [rest -> later]
        BY <1>1
    <2>2. \A m, n \in rest : f[m] = f[n] => m = n
        BY <1>1
    <2>3. \A k \in later : \E n \in rest : f[n] = k
        <3> TAKE k \in later
        <3>1. k - 1 \in rest /\ f[k - 1] = k
            BY <1>1
        <3> QED BY <3>1
    <2> HIDE DEF f, rest, later
    <2> QED BY <2>1, <2>2, <2>3 DEF Bijection, Injection, Surjection, IsInjective
<1>4. Cardinality(later) = Cardinality(rest)
    <2>1. ExistsBijection(rest, later)
        BY <1>3 DEF ExistsBijection
    <2> HIDE DEF rest, later
    <2> QED BY <1>2, <2>1, FS_Bijection
<1>5. Cardinality(later) = IF 1 \in all THEN Cardinality(all) - 1 ELSE Cardinality(all)
    BY <1>2, FS_RemoveElement
<1>6. 1 \in all <=> Head(seq) = e
    BY <1>1
<1>7. Cardinality(all) \in Nat
    BY <1>2, FS_CardinalityType
<1> HIDE DEF all, rest, later
<1>8. Cardinality(all) = Cardinality(rest) + (IF Head(seq) = e THEN 1 ELSE 0)
    BY <1>2, <1>4, <1>5, <1>6, <1>7
<1> QED BY <1>8 DEF Times, all, rest

-----------------------------------------------------------------------------
(* How the two counts of goroutines change when one goroutine moves *)

\* The jobs between two points can be counted.
LEMMA CountsType ==
    ASSUME TypeOK
    PROVE  /\ IsFiniteSet(Busy) /\ IsFiniteSet(Unfinished)
           /\ Cardinality(Busy) \in Nat /\ Cardinality(Unfinished) \in Nat
<1>1. Busy \subseteq Jobs /\ Unfinished \subseteq Jobs
    BY DEF Busy, Unfinished
<1> QED BY <1>1, FS_Subset, FS_CardinalityType

\* A job that starts is busy and unfinished.
LEMMA CountsPut ==
    ASSUME TypeOK, NEW j \in Jobs, worker[j] = "new",
           worker' = [worker EXCEPT ![j] = "running"]
    PROVE  /\ Cardinality(Busy') = Cardinality(Busy) + 1
           /\ Cardinality(Unfinished') = Cardinality(Unfinished) + 1
<1>1. /\ Busy' = Busy \union {j} /\ j \notin Busy
      /\ Unfinished' = Unfinished \union {j} /\ j \notin Unfinished
    BY DEF TypeOK, Busy, Unfinished
<1> QED BY <1>1, CountsType, FS_AddElement

\* A job that has run is still both.
LEMMA CountsRun ==
    ASSUME TypeOK, NEW j \in Jobs, worker[j] = "running",
           worker' = [worker EXCEPT ![j] = "sending"]
    PROVE  Busy' = Busy /\ Unfinished' = Unfinished
BY DEF TypeOK, Busy, Unfinished

\* A job that has sent its result is busy no more.
LEMMA CountsSend ==
    ASSUME TypeOK, NEW j \in Jobs, worker[j] = "sending",
           worker' = [worker EXCEPT ![j] = "sent"]
    PROVE  /\ Cardinality(Busy') = Cardinality(Busy) - 1
           /\ Unfinished' = Unfinished
<1>1. /\ Busy' = Busy \ {j} /\ j \in Busy
      /\ Unfinished' = Unfinished
    BY DEF TypeOK, Busy, Unfinished
<1> QED BY <1>1, CountsType, FS_RemoveElement

\* A job that has left the wait group is finished.
LEMMA CountsDone ==
    ASSUME TypeOK, NEW j \in Jobs, worker[j] = "sent",
           worker' = [worker EXCEPT ![j] = "done"]
    PROVE  /\ Busy' = Busy
           /\ Cardinality(Unfinished') = Cardinality(Unfinished) - 1
<1>1. /\ Busy' = Busy
      /\ Unfinished' = Unfinished \ {j} /\ j \in Unfinished
    BY DEF TypeOK, Busy, Unfinished
<1> QED BY <1>1, CountsType, FS_RemoveElement

\* With an empty wait group no goroutine is left anywhere.
LEMMA QuietWhenZero ==
    ASSUME TypeOK, Group, wg = 0
    PROVE  /\ Busy = {} /\ Unfinished = {}
           /\ \A j \in Jobs : worker[j] \in {"new", "done"}
<1>1. Unfinished = {}
    BY CountsType, FS_EmptySet DEF Group
<1> QED BY <1>1 DEF TypeOK, Busy, Unfinished, Status

-----------------------------------------------------------------------------
(* The invariant holds at the start and is kept by every step *)

\* The channel is full of nil at first.
LEMMA InitInv == QueueInit => Inv
<1> SUFFICES ASSUME QueueInit PROVE Inv
    OBVIOUS
<1> USE DEF QueueInit
<1>1. errCh \in Seq(Results) /\ Len(errCh) = Workers /\ DOMAIN errCh = 1..Workers
    <2>1. errCh \in [1..Workers -> Results]
        BY DEF Results
    <2> QED BY <2>1
<1>2. TypeOK
    BY <1>1 DEF TypeOK, Results, Status, Places
<1>3. Busy = {} /\ Unfinished = {}
    BY DEF Busy, Unfinished
<1>4. Tokens /\ Group
    BY <1>1, <1>3, FS_EmptySet DEF Tokens, Group, Held
<1>5. PutFresh /\ Draining /\ FailedRan
    BY DEF PutFresh, Draining, FailedRan
<1>6. ErrorDeliveredOnce
    <2> SUFFICES ASSUME NEW j \in Jobs
                 PROVE  delivered[j] + Times(errCh, j) + Times(collected, j) = 0
        BY DEF ErrorDeliveredOnce
    <2>1. {n \in DOMAIN errCh : errCh[n] = j} = {}
        BY <1>1
    <2>2. Times(errCh, j) = 0
        BY <2>1, FS_EmptySet DEF Times
    <2> QED BY <2>2, TimesEmpty
<1> QED BY <1>2, <1>4, <1>5, <1>6 DEF Inv

\* A return delivers each error as often as it is in its argument.
LEMMA ReturnType ==
    ASSUME TypeOK, NEW errs \in Seq(Results), Return(errs)
    PROVE  /\ delivered' \in [Jobs -> Nat]
           /\ \A j \in Jobs : delivered'[j] = delivered[j] + Times(errs, j)
<1>1. ASSUME NEW j \in Jobs PROVE delivered[j] + Times(errs, j) \in Nat
    <2>1. Times(errs, j) \in Nat
        BY TimesType
    <2> QED BY <2>1 DEF TypeOK
<1> QED BY <1>1 DEF Return

\* Put receives a result and starts the job, or returns the error.
LEMMA PutInv == Inv /\ Put => Inv'
<1> SUFFICES ASSUME TypeOK, Tokens, Group, PutFresh, Draining, FailedRan,
                    ErrorDeliveredOnce, Put
             PROVE  Inv'
    BY DEF Inv
<1>0. /\ errCh' = Tail(errCh) /\ errCh # <<>> /\ wg' = wg + 1
      /\ worker' = [worker EXCEPT ![cur] = "running"]
      /\ failed' = failed /\ collected' = collected /\ i' = i
      /\ pc = "put" /\ pc' = "idle" /\ cur' = Nil
      /\ Return(<<Head(errCh)>>)
    BY DEF Put
<1>1. /\ Head(errCh) \in Results /\ Tail(errCh) \in Seq(Results)
      /\ Len(Tail(errCh)) = Len(errCh) - 1 /\ Len(errCh) \in Nat
    BY <1>0, HeadTailProperties, LenProperties DEF TypeOK
<1>2. cur \in Jobs /\ worker[cur] = "new"
    BY <1>0 DEF PutFresh
<1>3. /\ delivered' \in [Jobs -> Nat]
      /\ \A j \in Jobs : delivered'[j] = delivered[j] + (IF Head(errCh) = j THEN 1 ELSE 0)
    <2>1. <<Head(errCh)>> \in Seq(Results)
        BY <1>1
    <2>2. \A j \in Jobs : Times(<<Head(errCh)>>, j) = IF Head(errCh) = j THEN 1 ELSE 0
        BY TimesSingleton
    <2>3. /\ delivered' \in [Jobs -> Nat]
          /\ \A j \in Jobs : delivered'[j] = delivered[j] + Times(<<Head(errCh)>>, j)
        BY <1>0, <2>1, ReturnType
    <2> QED BY <2>2, <2>3
<1>4. TypeOK'
    <2>1. wg' \in Nat /\ worker' \in [Jobs -> Status]
        BY <1>0, <1>2 DEF TypeOK, Status
    <2> QED BY <1>0, <1>1, <1>3, <2>1 DEF TypeOK, Places, Results
<1>5. Tokens' /\ Group'
    <2>1. /\ Cardinality(Busy') = Cardinality(Busy) + 1
          /\ Cardinality(Unfinished') = Cardinality(Unfinished) + 1
        BY <1>0, <1>2, CountsPut
    <2> QED BY <1>0, <1>1, <2>1, CountsType DEF Tokens, Group, Held
<1>6. PutFresh' /\ Draining'
    BY <1>0 DEF PutFresh, Draining
<1>7. FailedRan'
    BY <1>0, <1>2 DEF FailedRan, TypeOK
<1>8. ErrorDeliveredOnce'
    <2> SUFFICES ASSUME NEW j \in Jobs
                 PROVE  delivered'[j] + Times(errCh', j) + Times(collected', j)
                          = IF j \in failed' /\ worker'[j] \in {"sent", "done"} THEN 1 ELSE 0
        BY DEF ErrorDeliveredOnce
    <2>1. Times(errCh, j) = Times(errCh', j) + (IF Head(errCh) = j THEN 1 ELSE 0)
        BY <1>0, TimesTail DEF TypeOK
    <2>2. Times(errCh', j) \in Nat /\ Times(errCh, j) \in Nat /\ Times(collected, j) \in Nat
        BY <1>0, <1>1, TimesType DEF TypeOK
    <2>3. (j \in failed' /\ worker'[j] \in {"sent", "done"})
             <=> (j \in failed /\ worker[j] \in {"sent", "done"})
        BY <1>0, <1>2 DEF FailedRan, TypeOK
    <2>4. delivered[j] \in Nat
        BY DEF TypeOK
    <2>5. delivered[j] + Times(errCh, j) + Times(collected, j)
             = IF j \in failed /\ worker[j] \in {"sent", "done"} THEN 1 ELSE 0
        BY DEF ErrorDeliveredOnce
    <2> QED BY SMTT(60), <1>0, <1>3, <2>1, <2>2, <2>3, <2>4, <2>5
<1> QED BY <1>4, <1>5, <1>6, <1>7, <1>8 DEF Inv

\* Collect receives a result.
LEMMA CollectReceiveInv == Inv /\ CollectReceive => Inv'
<1> SUFFICES ASSUME TypeOK, Tokens, Group, PutFresh, Draining, FailedRan,
                    ErrorDeliveredOnce, CollectReceive
             PROVE  Inv'
    BY DEF Inv
<1>0. /\ errCh' = Tail(errCh) /\ errCh # <<>> /\ wg' = wg /\ worker' = worker
      /\ failed' = failed /\ collected' = Append(collected, Head(errCh))
      /\ i' = i /\ i < Workers /\ pc = "drain" /\ pc' = "refill"
      /\ cur' = cur /\ delivered' = delivered
    BY DEF CollectReceive
<1>1. /\ Head(errCh) \in Results /\ Tail(errCh) \in Seq(Results)
      /\ Len(Tail(errCh)) = Len(errCh) - 1 /\ Len(errCh) \in Nat
      /\ DOMAIN Tail(errCh) = 1..(Len(errCh) - 1) /\ DOMAIN errCh = 1..Len(errCh)
      /\ \A n \in 1..(Len(errCh) - 1) : Tail(errCh)[n] = errCh[n + 1]
    <2>1. errCh \in Seq(Results) /\ Tail(errCh) \in Seq(Results)
        BY <1>0, HeadTailProperties DEF TypeOK
    <2>2. Len(Tail(errCh)) = Len(errCh) - 1
        BY <1>0, <2>1, HeadTailProperties
    <2>3. DOMAIN Tail(errCh) = 1..(Len(errCh) - 1) /\ DOMAIN errCh = 1..Len(errCh)
        BY <2>1, <2>2, LenProperties
    <2> QED BY <1>0, <2>1, <2>2, <2>3, HeadTailProperties, LenProperties
<1>2. TypeOK'
    <2>1. collected' \in Seq(Results)
        BY <1>0, <1>1, AppendProperties DEF TypeOK
    <2> QED BY <1>0, <1>1, <2>1 DEF TypeOK, Places
<1>3. Busy' = Busy /\ Unfinished' = Unfinished
    BY <1>0 DEF Busy, Unfinished
<1>4. Tokens' /\ Group'
    BY <1>0, <1>1, <1>3, CountsType DEF Tokens, Group, Held
<1>5. PutFresh' /\ FailedRan'
    BY <1>0 DEF PutFresh, FailedRan
<1>6. Draining'
    BY <1>0, <1>1 DEF Draining, Held, TypeOK
<1>7. ErrorDeliveredOnce'
    <2> SUFFICES ASSUME NEW j \in Jobs
                 PROVE  delivered'[j] + Times(errCh', j) + Times(collected', j)
                          = IF j \in failed' /\ worker'[j] \in {"sent", "done"} THEN 1 ELSE 0
        BY DEF ErrorDeliveredOnce
    <2>1. Times(errCh, j) = Times(errCh', j) + (IF Head(errCh) = j THEN 1 ELSE 0)
        BY <1>0, TimesTail DEF TypeOK
    <2>2. Times(collected', j) = Times(collected, j) + (IF Head(errCh) = j THEN 1 ELSE 0)
        BY <1>0, <1>1, TimesAppend DEF TypeOK
    <2>3. Times(errCh', j) \in Nat /\ Times(errCh, j) \in Nat /\ Times(collected, j) \in Nat
        BY <1>0, <1>1, TimesType DEF TypeOK
    <2>4. delivered[j] \in Nat
        BY DEF TypeOK
    <2>5. delivered[j] + Times(errCh, j) + Times(collected, j)
             = IF j \in failed /\ worker[j] \in {"sent", "done"} THEN 1 ELSE 0
        BY DEF ErrorDeliveredOnce
    <2> QED BY <1>0, <2>1, <2>2, <2>3, <2>4, <2>5
<1> QED BY <1>2, <1>4, <1>5, <1>6, <1>7 DEF Inv

\* Collect sends nil again.
LEMMA CollectRefillInv == Inv /\ CollectRefill => Inv'
<1> SUFFICES ASSUME TypeOK, Tokens, Group, PutFresh, Draining, FailedRan,
                    ErrorDeliveredOnce, CollectRefill
             PROVE  Inv'
    BY DEF Inv
<1>0. /\ errCh' = Append(errCh, Nil) /\ wg' = wg /\ worker' = worker
      /\ failed' = failed /\ collected' = collected
      /\ i' = i + 1 /\ pc = "refill" /\ pc' = "drain"
      /\ cur' = cur /\ delivered' = delivered
    BY DEF CollectRefill
<1>1. /\ errCh' \in Seq(Results) /\ Len(errCh') = Len(errCh) + 1 /\ Len(errCh) \in Nat
      /\ DOMAIN errCh' = 1..(Len(errCh) + 1) /\ DOMAIN errCh = 1..Len(errCh)
      /\ \A n \in 1..Len(errCh) : errCh'[n] = errCh[n]
      /\ errCh'[Len(errCh) + 1] = Nil
    <2>1. errCh \in Seq(Results) /\ Nil \in Results
        BY DEF TypeOK, Results
    <2>2. errCh' \in Seq(Results) /\ Len(errCh') = Len(errCh) + 1
        BY <1>0, <2>1, AppendProperties
    <2> QED BY <1>0, <2>1, <2>2, AppendProperties, LenProperties
<1>2. TypeOK'
    <2>1. i' \in 0..Workers
        BY <1>0 DEF Draining, TypeOK
    <2> QED BY <1>0, <1>1, <2>1 DEF TypeOK, Places
<1>3. Busy' = Busy /\ Unfinished' = Unfinished
    BY <1>0 DEF Busy, Unfinished
<1>4. Tokens' /\ Group'
    BY <1>0, <1>1, <1>3, CountsType DEF Tokens, Group, Held
<1>5. PutFresh' /\ FailedRan'
    BY <1>0 DEF PutFresh, FailedRan
<1>6. Draining'
    <2>1. wg' = 0
        BY <1>0 DEF Draining
    <2>2. ASSUME NEW n \in DOMAIN errCh', n > Workers - (i + 1)
          PROVE  errCh'[n] = Nil
        <3>1. i \in Nat
            BY DEF TypeOK
        <3>2. CASE n = Len(errCh) + 1
            BY <1>1, <3>2
        <3>3. CASE n \in 1..Len(errCh)
            BY <1>0, <1>1, <2>2, <3>1, <3>3 DEF Draining, Held
        <3> QED BY <1>1, <3>2, <3>3
    <2> QED BY <1>0, <2>1, <2>2 DEF Draining, Held, TypeOK
<1>7. ErrorDeliveredOnce'
    <2> SUFFICES ASSUME NEW j \in Jobs PROVE Times(errCh', j) = Times(errCh, j)
        BY <1>0 DEF ErrorDeliveredOnce
    <2>1. Nil \in Results /\ j # Nil
        BY DEF Results
    <2>2. Times(errCh', j) = Times(errCh, j) + 0
        BY <1>0, <2>1, TimesAppend DEF TypeOK
    <2>3. Times(errCh, j) \in Nat
        BY TimesType DEF TypeOK
    <2> QED BY <2>2, <2>3
<1> QED BY <1>2, <1>4, <1>5, <1>6, <1>7 DEF Inv

\* Collect has waited for all goroutines.
LEMMA WaitInv == Inv /\ Wait => Inv'
<1> SUFFICES ASSUME TypeOK, Tokens, Group, PutFresh, Draining, FailedRan,
                    ErrorDeliveredOnce, Wait
             PROVE  Inv'
    BY DEF Inv
<1>0. /\ pc = "wait" /\ wg = 0 /\ pc' = "drain" /\ i' = 0
      /\ collected = <<>> /\ collected' = collected
      /\ errCh' = errCh /\ wg' = wg /\ worker' = worker
      /\ failed' = failed /\ cur' = cur /\ delivered' = delivered
    BY DEF Wait, Draining
<1>1. TypeOK'
    BY <1>0 DEF TypeOK, Places
<1>2. Busy' = Busy /\ Unfinished' = Unfinished
    BY <1>0 DEF Busy, Unfinished
<1>3. Tokens' /\ Group'
    BY <1>0, <1>2 DEF Tokens, Group, Held
<1>4. PutFresh' /\ FailedRan' /\ ErrorDeliveredOnce'
    BY <1>0 DEF PutFresh, FailedRan, ErrorDeliveredOnce
<1>5. Draining'
    <2>1. Len(errCh) <= Workers
        BY LenProperties, CountsType DEF Tokens, Held, TypeOK
    <2>2. DOMAIN errCh = 1..Len(errCh) /\ Len(errCh) \in Nat
        BY LenProperties DEF TypeOK
    <2> QED BY <1>0, <2>1, <2>2 DEF Draining, Held
<1> QED BY <1>1, <1>3, <1>4, <1>5 DEF Inv

\* What Collect finds when its loop is over: only nils in the channel, and
\* nothing left of any job.
LEMMA AllExchanged ==
    ASSUME Inv, pc = "drain", i = Workers
    PROVE  /\ errCh = [n \in 1..Workers |-> Nil]
           /\ \A j \in Jobs : Times(errCh, j) = 0
           /\ \A j \in Jobs : worker[j] \in {"new", "done"}
           /\ collected \in Seq(Results)
           /\ \A j \in Jobs : delivered[j] + Times(collected, j)
                                = IF j \in failed THEN 1 ELSE 0
<1> SUFFICES ASSUME TypeOK, Tokens, Group, Draining, FailedRan, ErrorDeliveredOnce
             PROVE  /\ errCh = [n \in 1..Workers |-> Nil]
                    /\ \A j \in Jobs : Times(errCh, j) = 0
                    /\ \A j \in Jobs : worker[j] \in {"new", "done"}
                    /\ collected \in Seq(Results)
                    /\ \A j \in Jobs : delivered[j] + Times(collected, j)
                                         = IF j \in failed THEN 1 ELSE 0
    BY DEF Inv
<1>1. wg = 0 /\ \A n \in DOMAIN errCh : n > 0 => errCh[n] = Nil
    BY DEF Draining, Held
<1>2. Busy = {} /\ \A j \in Jobs : worker[j] \in {"new", "done"}
    BY <1>1, QuietWhenZero
<1>3. Len(errCh) = Workers
    BY <1>2, FS_EmptySet, LenProperties DEF Tokens, Held, TypeOK
<1>4. DOMAIN errCh = 1..Workers /\ errCh \in [1..Workers -> Results]
    BY <1>3, LenProperties DEF TypeOK
<1>5. errCh = [n \in 1..Workers |-> Nil]
    BY <1>1, <1>4
<1>6. ASSUME NEW j \in Jobs PROVE Times(errCh, j) = 0
    <2>1. {n \in DOMAIN errCh : errCh[n] = j} = {}
        BY <1>1, <1>4
    <2> QED BY <2>1, FS_EmptySet DEF Times
<1>7. ASSUME NEW j \in Jobs
      PROVE  delivered[j] + Times(collected, j) = IF j \in failed THEN 1 ELSE 0
    <2>1. delivered[j] + Times(errCh, j) + Times(collected, j)
             = IF j \in failed /\ worker[j] \in {"sent", "done"} THEN 1 ELSE 0
        BY DEF ErrorDeliveredOnce
    <2>2. j \in failed => worker[j] \in {"sent", "done"}
        BY <1>2 DEF FailedRan
    <2>3. delivered[j] \in Nat /\ Times(collected, j) \in Nat
        BY TimesType DEF TypeOK
    <2> QED BY <1>6, <2>1, <2>2, <2>3
<1> QED BY <1>2, <1>5, <1>6, <1>7 DEF TypeOK

\* Collect returns what it has received.
LEMMA CollectReturnInv == Inv /\ CollectReturn => Inv'
<1> SUFFICES ASSUME Inv, CollectReturn PROVE Inv'
    OBVIOUS
<1>0. /\ pc = "drain" /\ i = Workers /\ Return(collected)
      /\ pc' = "idle" /\ i' = 0 /\ collected' = <<>>
      /\ errCh' = errCh /\ wg' = wg /\ worker' = worker
      /\ failed' = failed /\ cur' = cur
    BY DEF CollectReturn
<1>1. /\ TypeOK /\ Tokens /\ Group /\ FailedRan /\ ErrorDeliveredOnce
      /\ collected \in Seq(Results)
    BY DEF Inv, TypeOK
<1>2. /\ delivered' \in [Jobs -> Nat]
      /\ \A j \in Jobs : delivered'[j] = delivered[j] + Times(collected, j)
    BY <1>0, <1>1, ReturnType
<1>3. TypeOK'
    BY <1>0, <1>1, <1>2 DEF TypeOK, Places
<1>4. Busy' = Busy /\ Unfinished' = Unfinished
    BY <1>0 DEF Busy, Unfinished
<1>5. Tokens' /\ Group'
    BY <1>0, <1>1, <1>4 DEF Tokens, Group, Held
<1>6. PutFresh' /\ FailedRan' /\ Draining'
    BY <1>0, <1>1 DEF PutFresh, FailedRan, Draining
<1>7. ErrorDeliveredOnce'
    <2> SUFFICES ASSUME NEW j \in Jobs
                 PROVE  delivered'[j] + Times(errCh, j) + Times(<<>>, j)
                          = IF j \in failed /\ worker[j] \in {"sent", "done"} THEN 1 ELSE 0
        BY <1>0 DEF ErrorDeliveredOnce
    <2>1. /\ Times(errCh, j) = 0 /\ Times(<<>>, j) = 0
          /\ delivered'[j] = IF j \in failed THEN 1 ELSE 0
          /\ worker[j] \in {"new", "done"}
        BY <1>0, <1>2, AllExchanged, TimesEmpty
    <2>2. j \in failed => worker[j] # "new"
        BY <1>1 DEF FailedRan
    <2> QED BY <2>1, <2>2
<1> QED BY <1>3, <1>5, <1>6, <1>7 DEF Inv

\* A call begins, or the caller leaves.
LEMMA CallInv == Inv /\ (CallCollect \/ Leave \/ \E j \in Jobs : CallPut(j)) => Inv'
<1> SUFFICES ASSUME TypeOK, Tokens, Group, PutFresh, Draining, FailedRan, ErrorDeliveredOnce,
                    CallCollect \/ Leave \/ \E j \in Jobs : CallPut(j)
             PROVE  Inv'
    BY DEF Inv
<1>0. /\ pc = "idle" /\ pc' \in {"wait", "gone", "put"}
      /\ pc' = "put" => cur' \in Jobs /\ worker[cur'] = "new"
      /\ cur' = cur \/ cur' \in Jobs
      /\ errCh' = errCh /\ wg' = wg /\ worker' = worker /\ i' = i
      /\ failed' = failed /\ delivered' = delivered /\ collected' = collected
    BY DEF CallCollect, Leave, CallPut
<1>1. TypeOK'
    BY <1>0 DEF TypeOK, Places, Results
<1>2. Busy' = Busy /\ Unfinished' = Unfinished
    BY <1>0 DEF Busy, Unfinished
<1>3. Tokens' /\ Group'
    BY <1>0, <1>2 DEF Tokens, Group, Held
<1>4. PutFresh' /\ Draining' /\ FailedRan' /\ ErrorDeliveredOnce'
    BY <1>0 DEF PutFresh, Draining, FailedRan, ErrorDeliveredOnce
<1> QED BY <1>1, <1>3, <1>4 DEF Inv

\* A goroutine runs its job, sends the result, or leaves the wait group.
LEMMA GoroutineInv ==
    ASSUME Inv, NEW j \in Jobs, Goroutine(j)
    PROVE  Inv'
<1> SUFFICES ASSUME TypeOK, Tokens, Group, PutFresh, Draining, FailedRan, ErrorDeliveredOnce
             PROVE  Inv'
    BY DEF Inv
\* A goroutine exists, so Collect has not passed the wait group.
<1>1. worker[j] \in {"running", "sending", "sent"} /\ pc \notin {"drain", "refill"}
    <2>1. worker[j] \in {"running", "sending", "sent"}
        BY DEF Goroutine, RunJob, SendResult, Done
    <2>2. pc \in {"drain", "refill"} => wg = 0
        BY DEF Draining
    <2> QED BY <2>1, <2>2, QuietWhenZero
<1>2. /\ pc' = pc /\ cur' = cur /\ i' = i
      /\ collected' = collected /\ delivered' = delivered
    BY DEF Goroutine, RunJob, SendResult, Done
<1>3. Draining'
    BY <1>1, <1>2 DEF Draining
<1>4. PutFresh'
    BY <1>1, <1>2 DEF PutFresh, Goroutine, RunJob, SendResult, Done, TypeOK
<1>5. CASE RunJob(j)
    <2>1. /\ worker[j] = "running" /\ worker' = [worker EXCEPT ![j] = "sending"]
          /\ failed' \in {failed, failed \union {j}} /\ errCh' = errCh /\ wg' = wg
        BY <1>5 DEF RunJob
    <2>2. TypeOK'
        BY <1>2, <2>1 DEF TypeOK, Status
    <2>3. Tokens' /\ Group'
        BY <1>2, <2>1, CountsRun DEF Tokens, Group, Held
    <2>4. FailedRan'
        BY <2>1 DEF FailedRan, TypeOK
    <2>5. ErrorDeliveredOnce'
        BY <1>2, <2>1 DEF ErrorDeliveredOnce, TypeOK
    <2> QED BY <1>3, <1>4, <2>2, <2>3, <2>4, <2>5 DEF Inv
<1>6. CASE SendResult(j)
    <2> DEFINE result == IF j \in failed THEN j ELSE Nil
    <2>1. /\ worker[j] = "sending" /\ worker' = [worker EXCEPT ![j] = "sent"]
          /\ failed' = failed /\ wg' = wg /\ errCh' = Append(errCh, result)
        BY <1>6 DEF SendResult
    <2>2. /\ errCh' \in Seq(Results) /\ Len(errCh') = Len(errCh) + 1
          /\ Len(errCh) \in Nat /\ result \in Results
        BY <2>1, AppendProperties, LenProperties DEF TypeOK, Results
    <2>3. TypeOK'
        BY <1>2, <2>1, <2>2 DEF TypeOK, Status
    <2>4. Tokens' /\ Group'
        <3>1. /\ Cardinality(Busy') = Cardinality(Busy) - 1
              /\ Unfinished' = Unfinished
            BY <2>1, CountsSend
        <3> HIDE DEF result
        <3> QED BY <1>2, <2>1, <2>2, <3>1, CountsType DEF Tokens, Group, Held
    <2>5. FailedRan'
        BY <2>1 DEF FailedRan, TypeOK
    <2>6. ErrorDeliveredOnce'
        <3> SUFFICES ASSUME NEW k \in Jobs
                     PROVE  delivered[k] + Times(errCh', k) + Times(collected, k)
                              = IF k \in failed /\ worker'[k] \in {"sent", "done"} THEN 1 ELSE 0
            BY <1>2, <2>1 DEF ErrorDeliveredOnce
        <3>1. Times(errCh', k) = Times(errCh, k) + (IF result = k THEN 1 ELSE 0)
            BY <2>1, <2>2, TimesAppend DEF TypeOK
        <3>2. delivered[k] + Times(errCh, k) + Times(collected, k)
                 = IF k \in failed /\ worker[k] \in {"sent", "done"} THEN 1 ELSE 0
            BY DEF ErrorDeliveredOnce
        <3>3. /\ delivered[k] \in Nat /\ Times(errCh, k) \in Nat
              /\ Times(collected, k) \in Nat
            BY TimesType DEF TypeOK
        <3>4. result = k <=> (k = j /\ j \in failed)
            OBVIOUS
        <3>5. worker'[k] = IF k = j THEN "sent" ELSE worker[k]
            BY <2>1 DEF TypeOK
        <3> HIDE DEF result
        <3>6. CASE k = j
            BY <2>1, <3>1, <3>2, <3>3, <3>4, <3>5, <3>6
        <3>7. CASE k # j
            BY <3>1, <3>2, <3>3, <3>4, <3>5, <3>7
        <3> QED BY <3>6, <3>7
    <2> QED BY <1>3, <1>4, <2>3, <2>4, <2>5, <2>6 DEF Inv
<1>7. CASE Done(j)
    <2>1. /\ worker[j] = "sent" /\ worker' = [worker EXCEPT ![j] = "done"]
          /\ failed' = failed /\ errCh' = errCh /\ wg' = wg - 1
        BY <1>7 DEF Done
    <2>2. Tokens' /\ Group'
        BY <1>2, <2>1, CountsDone, CountsType DEF Tokens, Group, Held
    <2>3. TypeOK'
        <3>1. j \in Unfinished
            BY <2>1 DEF Unfinished
        <3>2. Cardinality(Unfinished) # 0
            BY <3>1, CountsType, FS_EmptySet
        <3>3. wg' \in Nat
            BY <2>1, <3>2, CountsType DEF Group
        <3> QED BY <1>2, <2>1, <3>3 DEF TypeOK, Status
    <2>4. FailedRan'
        BY <2>1 DEF FailedRan, TypeOK
    <2>5. ErrorDeliveredOnce'
        BY <1>2, <2>1 DEF ErrorDeliveredOnce, TypeOK
    <2> QED BY <1>3, <1>4, <2>2, <2>3, <2>4, <2>5 DEF Inv
<1> QED BY <1>5, <1>6, <1>7 DEF Goroutine

\* Nothing else changes it.
LEMMA StutterInv == Inv /\ UNCHANGED queueVars => Inv'
<1> SUFFICES ASSUME Inv, UNCHANGED queueVars PROVE Inv'
    OBVIOUS
<1>1. Busy' = Busy /\ Unfinished' = Unfinished /\ Held' = Held
    BY DEF queueVars, Busy, Unfinished, Held
<1>2. TypeOK' /\ PutFresh' /\ FailedRan' /\ ErrorDeliveredOnce'
    BY DEF Inv, queueVars, TypeOK, PutFresh, FailedRan, ErrorDeliveredOnce
<1>3. Tokens' /\ Group' /\ Draining'
    BY <1>1 DEF Inv, queueVars, Tokens, Group, Draining
<1> QED BY <1>2, <1>3 DEF Inv

-----------------------------------------------------------------------------
(* The theorems *)

\* The inductive invariant: tokens are conserved, the wait group counts the
\* goroutines, and no error is lost or doubled.
THEOREM Invariance == Spec => []Inv
<1>1. QueueInit => Inv
    BY InitInv
<1>2. Inv /\ [Next]_queueVars => Inv'
    BY PutInv, WaitInv, CollectReceiveInv, CollectRefillInv, CollectReturnInv,
       CallInv, GoroutineInv, StutterInv DEF Next, CallSteps
<1> QED BY <1>1, <1>2, PTL DEF Spec

\* The variables keep their types; in particular the wait group never goes
\* negative, which would panic.
THEOREM TypeCorrect == Spec => []TypeOK
<1>1. Inv => TypeOK
    BY DEF Inv
<1> QED BY <1>1, Invariance, PTL

\* At most maxConcurrency jobs run at a time (queue.go:11-13).
THEOREM Concurrency == Spec => []AtMostWorkers
<1>1. Inv => AtMostWorkers
    <2> SUFFICES ASSUME Inv PROVE AtMostWorkers
        OBVIOUS
    <2>1. Len(errCh) \in Nat
        BY LenProperties DEF Inv, TypeOK
    <2> QED BY <2>1, CountsType DEF Inv, Tokens, Held, AtMostWorkers
<1> QED BY <1>1, Invariance, PTL

\* A goroutine that has a result to send finds room for it (queue.go:42).
THEOREM NoBlockedSend == Spec => []SendNeverBlocks
<1>1. Inv => SendNeverBlocks
    <2> SUFFICES ASSUME Inv, NEW j \in Jobs, worker[j] = "sending"
                 PROVE  Len(errCh) < Workers
        BY DEF SendNeverBlocks
    <2>1. j \in Busy /\ Cardinality(Busy) \in Nat
        BY CountsType DEF Inv, Busy
    <2>2. Cardinality(Busy) # 0
        BY <2>1, CountsType, FS_EmptySet DEF Inv
    <2>3. Len(errCh) \in Nat
        BY LenProperties DEF Inv, TypeOK
    <2> QED BY <2>1, <2>2, <2>3 DEF Inv, Tokens, Held
<1> QED BY <1>1, Invariance, PTL

\* No error is lost and none is returned twice (queue.go:36-57).
THEOREM ErrorAccounting == Spec => []ErrorDeliveredOnce
<1>1. Inv => ErrorDeliveredOnce
    BY DEF Inv
<1> QED BY <1>1, Invariance, PTL

\* Collect returns only when every job has ended, with every error, and
\* leaves a queue that is as good as new (queue.go:48-57).
THEOREM CollectCompleteness == Spec => CollectIsComplete
<1>1. ASSUME Inv, CollectReturn
      PROVE  /\ \A j \in Jobs : worker[j] \in {"new", "done"}
             /\ \A j \in Jobs : delivered'[j] = IF j \in failed THEN 1 ELSE 0
             /\ errCh' = [n \in 1..Workers |-> Nil]
    <2>1. /\ pc = "drain" /\ i = Workers /\ Return(collected) /\ errCh' = errCh
        BY <1>1 DEF CollectReturn
    <2>2. TypeOK
        BY <1>1 DEF Inv
    <2>3. collected \in Seq(Results)
        BY <2>2 DEF TypeOK
    <2>4. \A j \in Jobs : delivered'[j] = delivered[j] + Times(collected, j)
        BY <2>1, <2>2, <2>3, ReturnType
    <2> QED BY <1>1, <2>1, <2>4, AllExchanged
<1> QED BY <1>1, Invariance, PTL DEF Spec, CollectIsComplete

-----------------------------------------------------------------------------
(* Refinement *)

\* The errors that are back in the queue's hands and not yet returned.
Unreported == {j \in failed : worker[j] \in {"sent", "done"} /\ delivered[j] = 0}
Reported == {j \in Jobs : delivered[j] > 0}
Fresh == {j \in Jobs : worker[j] = "new"}

\* A Put that starts a job is the Start of the pool.
LEMMA PutStarts ==
    ASSUME Inv, Put, NEW c \in Jobs, c = cur
    PROVE  Pool!Start(c)
<1>0. /\ errCh' = Tail(errCh) /\ errCh # <<>> /\ pc = "put"
      /\ worker' = [worker EXCEPT ![cur] = "running"] /\ failed' = failed
      /\ Return(<<Head(errCh)>>)
    BY DEF Put
<1>1. /\ TypeOK /\ FailedRan
      /\ cur \in Jobs /\ worker[cur] = "new"
      /\ Head(errCh) \in Results
      /\ Len(errCh) \in Nat \ {0}
    BY <1>0, HeadTailProperties, EmptySeq, LenProperties DEF Inv, TypeOK, PutFresh
<1>2. Cardinality(Busy) < Workers
    BY <1>1, CountsType DEF Inv, Tokens, Held
<1>3. Busy' = Busy \union {cur} /\ Fresh' = Fresh \ {cur} /\ cur \in Fresh
    BY <1>0, <1>1 DEF Busy, Fresh, TypeOK
<1> DEFINE errs == {Head(errCh)} \ {Nil}
<1>4. \A j \in Jobs : delivered'[j] = delivered[j] + (IF j \in errs THEN 1 ELSE 0)
    <2>1. <<Head(errCh)>> \in Seq(Results)
        BY <1>1
    <2>2. \A j \in Jobs : delivered'[j] = delivered[j] + Times(<<Head(errCh)>>, j)
        BY <1>0, <1>1, <2>1, ReturnType
    <2>3. \A j \in Jobs : Head(errCh) = j <=> j \in errs
        OBVIOUS
    <2> HIDE DEF errs
    <2> QED BY <2>2, <2>3, TimesSingleton
<1>5. errs \subseteq Unreported
    <2> SUFFICES ASSUME NEW j \in errs PROVE j \in Unreported
        OBVIOUS
    <2>1. j = Head(errCh) /\ j \in Jobs
        BY <1>1 DEF Results
    <2>2. Times(errCh, j) = Times(Tail(errCh), j) + 1
        BY <1>0, <1>1, <2>1, TimesTail DEF TypeOK
    <2>3. /\ Times(Tail(errCh), j) \in Nat /\ Times(collected, j) \in Nat
          /\ delivered[j] \in Nat
        BY <1>0, <1>1, <2>1, HeadTailProperties, TimesType DEF TypeOK
    <2>4. delivered[j] + Times(errCh, j) + Times(collected, j)
             = IF j \in failed /\ worker[j] \in {"sent", "done"} THEN 1 ELSE 0
        BY <2>1 DEF Inv, ErrorDeliveredOnce
    <2>5. j \in failed /\ worker[j] \in {"sent", "done"}
        BY <2>2, <2>3, <2>4
    <2>6. delivered[j] = 0
        BY <2>2, <2>3, <2>4
    <2> QED BY <2>5, <2>6 DEF Unreported
<1>6. \A j \in Jobs : delivered[j] \in Nat
    BY <1>1 DEF TypeOK
<1> HIDE DEF errs
<1>7. \A j \in Jobs : j \in errs => delivered'[j] > 0
    BY <1>4, <1>6
<1>8. \A j \in Jobs : j \notin errs => delivered'[j] = delivered[j]
    BY <1>4, <1>6
<1>9. \A j \in failed : worker'[j] = worker[j] /\ j \in Jobs
    BY <1>0, <1>1 DEF FailedRan, TypeOK
<1>10. Unreported' = Unreported \ errs
    <2>1. \A j \in failed : delivered'[j] = 0 <=> delivered[j] = 0 /\ j \notin errs
        BY <1>6, <1>7, <1>8, <1>9
    <2> QED BY <1>0, <1>9, <2>1 DEF Unreported
<1>11. Reported' = Reported \union errs
    <2>1. \A j \in Jobs : delivered'[j] > 0 <=> delivered[j] > 0 \/ j \in errs
        BY <1>6, <1>7, <1>8
    <2>2. errs \subseteq Jobs
        BY <1>5, <1>9 DEF Unreported
    <2> QED BY <2>1, <2>2 DEF Reported
<1>12. errs \in {{}} \union {{e} : e \in Unreported}
    <2>1. errs = {} \/ errs = {Head(errCh)}
        BY DEF errs
    <2> QED BY <1>5, <2>1
<1>13. Pool!Cardinality(Busy) = Cardinality(Busy)
    BY DEF Pool!Cardinality, Cardinality
<1> QED BY <1>2, <1>3, <1>10, <1>11, <1>12, <1>13
        DEF Pool!Start, Unreported, Reported, Fresh

\* The return of Collect is the Collected of the pool.
LEMMA CollectReturnCollects ==
    ASSUME Inv, CollectReturn
    PROVE  Pool!Collected
<1>0. /\ pc = "drain" /\ i = Workers /\ Return(collected)
      /\ worker' = worker /\ failed' = failed
    BY DEF CollectReturn
<1>1. /\ TypeOK /\ Group /\ FailedRan /\ wg = 0 /\ collected \in Seq(Results)
    BY <1>0 DEF Inv, TypeOK, Draining
<1>2. Busy = {} /\ Busy' = Busy /\ Fresh' = Fresh
    BY <1>0, <1>1, QuietWhenZero DEF Busy, Fresh
<1>3. \A j \in Jobs : delivered'[j] = delivered[j] + Times(collected, j)
    BY <1>0, <1>1, ReturnType
<1>4. \A j \in Jobs : /\ delivered'[j] = IF j \in failed THEN 1 ELSE 0
                      /\ worker[j] \in {"new", "done"}
    BY <1>0, <1>3, AllExchanged
<1>5. failed \subseteq Jobs /\ \A j \in failed : worker[j] = "done"
    BY <1>1, <1>4 DEF FailedRan, TypeOK
<1>6. Unreported' = {}
    BY <1>0, <1>4, <1>5 DEF Unreported
<1>7. \A j \in Jobs : delivered[j] \in Nat /\ (delivered[j] > 0 => j \in failed)
    <2> SUFFICES ASSUME NEW j \in Jobs
                 PROVE  delivered[j] \in Nat /\ (delivered[j] > 0 => j \in failed)
        OBVIOUS
    <2>1. delivered[j] \in Nat /\ Times(collected, j) \in Nat
        BY <1>1, TimesType DEF TypeOK
    <2> QED BY <1>3, <1>4, <2>1
<1>8. Reported' = failed /\ Reported \subseteq failed
    BY <1>4, <1>5, <1>7 DEF Reported
<1>9. Unreported = failed \ Reported
    BY <1>5, <1>7 DEF Unreported, Reported
<1>10. Reported' = Reported \union Unreported
    BY <1>8, <1>9
<1> QED BY <1>2, <1>6, <1>10 DEF Pool!Collected, Unreported, Reported, Fresh

\* A send is the Finish of the pool.
LEMMA SendFinishes ==
    ASSUME Inv, NEW j \in Jobs, SendResult(j)
    PROVE  Pool!Finish(j)
<1>0. /\ worker[j] = "sending" /\ worker' = [worker EXCEPT ![j] = "sent"]
      /\ failed' = failed /\ delivered' = delivered
    BY DEF SendResult
<1>1. TypeOK
    BY DEF Inv
<1>2. j \in Busy /\ Busy' = Busy \ {j} /\ Fresh' = Fresh /\ Reported' = Reported
    BY <1>0, <1>1 DEF Busy, Fresh, Reported, TypeOK
<1>3. Unreported' \in {Unreported, Unreported \union {j}}
    BY <1>0, <1>1 DEF Unreported, TypeOK
<1> QED BY <1>2, <1>3 DEF Pool!Finish, Unreported, Reported, Fresh

\* No other step is seen in the pool.
LEMMA OtherStepsStutter ==
    ASSUME Inv,
           \/ CallCollect \/ Leave \/ \E j \in Jobs : CallPut(j)
           \/ Wait \/ CollectReceive \/ CollectRefill
           \/ \E j \in Jobs : RunJob(j) \/ Done(j)
           \/ UNCHANGED queueVars
    PROVE  UNCHANGED Pool!vars
<1>1. TypeOK /\ FailedRan
    BY DEF Inv
<1>2. delivered' = delivered
    BY DEF CallCollect, Leave, CallPut, Wait, CollectReceive, CollectRefill,
           RunJob, Done, queueVars
<1>3. Busy' = Busy /\ Fresh' = Fresh /\ Unreported' = Unreported
    <2>1. CASE worker' = worker /\ failed' = failed
        BY <1>2, <2>1 DEF Busy, Fresh, Unreported
    <2>2. ASSUME NEW j \in Jobs, RunJob(j)
          PROVE  Busy' = Busy /\ Fresh' = Fresh /\ Unreported' = Unreported
        <3>1. /\ worker[j] = "running" /\ worker' = [worker EXCEPT ![j] = "sending"]
              /\ failed' \in {failed, failed \union {j}}
            BY <2>2 DEF RunJob
        <3> QED BY <1>1, <1>2, <3>1 DEF Busy, Fresh, Unreported, TypeOK
    <2>3. ASSUME NEW j \in Jobs, Done(j)
          PROVE  Busy' = Busy /\ Fresh' = Fresh /\ Unreported' = Unreported
        <3>1. /\ worker[j] = "sent" /\ worker' = [worker EXCEPT ![j] = "done"]
              /\ failed' = failed
            BY <2>3 DEF Done
        <3> QED BY <1>1, <1>2, <3>1 DEF Busy, Fresh, Unreported, TypeOK
    <2> QED BY <2>1, <2>2, <2>3
            DEF CallCollect, Leave, CallPut, Wait, CollectReceive, CollectRefill, queueVars
<1>4. Reported' = Reported
    BY <1>2 DEF Reported
<1> QED BY <1>3, <1>4 DEF Pool!vars, Unreported, Reported, Fresh

\* The queue implements the pool of workers: every behaviour of the channel
\* and the wait group is one of starting, finishing and collecting jobs.
THEOREM Refinement == Spec => ImplementsPool
<1>1. QueueInit => Pool!Init
    BY FS_EmptySet DEF QueueInit, Pool!Init, Busy
<1>2. Inv /\ [Next]_queueVars => [Pool!Next]_(Pool!vars)
    <2> SUFFICES ASSUME Inv, [Next]_queueVars
                 PROVE  Pool!Next \/ UNCHANGED Pool!vars
        OBVIOUS
    <2>1. CASE Put
        <3>1. PICK c \in Jobs : c = cur
            BY <2>1 DEF Inv, PutFresh, Put
        <3>2. Pool!Start(c)
            BY <2>1, <3>1, PutStarts
        <3> QED BY <3>2 DEF Pool!Next
    <2>2. CASE CollectReturn
        BY <2>2, CollectReturnCollects DEF Pool!Next
    <2>3. CASE \E j \in Jobs : SendResult(j)
        BY <2>3, SendFinishes DEF Pool!Next
    <2> QED BY <2>1, <2>2, <2>3, OtherStepsStutter DEF Next, CallSteps, Goroutine
<1> QED BY <1>1, <1>2, Invariance, PTL DEF Spec, Pool!Spec, ImplementsPool
=============================================================================
