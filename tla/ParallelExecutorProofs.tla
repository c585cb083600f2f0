----------------------- MODULE ParallelExecutorProofs -----------------------
(***************************************************************************)
(* ParallelTransactionExecutor, for every set of calls, objects and coins: *)
(* ObjectScheduler keeps its types, the invariant of its queues, and the   *)
(* order it promises; what the gas coins and the build queue add never     *)
(* disturbs it, so its theorems hold of the executor; how many gas coins   *)
(* there can be; that no coin is in two hands; that all that are handed out *)
(* are current; and what #cacheLock guarantees.                            *)
(***************************************************************************)
EXTENDS ParallelExecutor, CacheLock,
        FiniteSetTheorems, SequenceTheorems, WellFoundedInduction, TLAPS

(***************************************************************************)
(* The object scheduler                                                    *)
(***************************************************************************)

(* A sequence SetToSeqs makes of a finite set lists all its members. *)
LEMMA SetToSeqsLists ==
  ASSUME NEW S, IsFiniteSet(S), NEW s \in SetToSeqs(S)
  PROVE  s \in Seq(S) /\ ToSet(s) = S /\ IsInjective(s)
<1> DEFINE n == Cardinality(S)
<1>1. n \in Nat
  BY FS_CardinalityType
<1>2. s \in [1 .. n -> S] /\ \A i, j \in 1 .. n : i # j => s[i] # s[j]
  BY DEF SetToSeqs
<1>3. IsFiniteSet(1 .. n) /\ Cardinality(1 .. n) = n
  BY <1>1, FS_Interval
<1>4. s \in Injection(1 .. n, S)
  BY <1>2 DEF Injection, IsInjective
<1>5. s \in Surjection(1 .. n, S)
  BY <1>3, <1>4, FS_Injection
<1>6. s \in Seq(S) /\ DOMAIN s = 1 .. n
  BY <1>1, <1>2
<1> QED
  BY <1>2, <1>4, <1>5, <1>6 DEF Injection, Surjection, ToSet

(* runTask splits the calls it is given into those that start and those    *)
(* that are parked.                                                        *)
LEMMA StartedAndParked ==
  ASSUME MaxPoolSize \in Nat, activeTasks \in 0 .. MaxPoolSize,
         NEW ready \in Seq(Tx), IsInjective(ready)
  PROVE  /\ Len(ready) \in Nat /\ ready \in [1 .. Len(ready) -> Tx]
         /\ DOMAIN ready = 1 .. Len(ready)
         /\ FreeSlots(ready) \in 0 .. Len(ready)
         /\ activeTasks + FreeSlots(ready) \in 0 .. MaxPoolSize
         /\ Started(ready) \in Seq(Tx) /\ DOMAIN Started(ready) = 1 .. FreeSlots(ready)
         /\ \A i \in 1 .. FreeSlots(ready) : Started(ready)[i] = ready[i]
         /\ Parked(ready) \in Seq(Tx) /\ Len(Parked(ready)) = Len(ready) - FreeSlots(ready)
         /\ DOMAIN Parked(ready) = 1 .. (Len(ready) - FreeSlots(ready))
         /\ \A i \in 1 .. (Len(ready) - FreeSlots(ready)) :
              Parked(ready)[i] = ready[FreeSlots(ready) + i]
         /\ ToSet(ready) = ToSet(Started(ready)) \cup ToSet(Parked(ready))
         /\ ToSet(ready) \subseteq Tx
         /\ ToSet(Started(ready)) \cap ToSet(Parked(ready)) = {}
<1> DEFINE k == FreeSlots(ready)
           n == Len(ready)
           S == Started(ready)
           P == Parked(ready)
<1>1. n \in Nat /\ ready \in [1 .. n -> Tx] /\ DOMAIN ready = 1 .. n
  BY LenProperties
<1>2. k \in 0 .. n /\ activeTasks + k \in 0 .. MaxPoolSize
  BY <1>1 DEF FreeSlots
<1> HIDE DEF k, n
<1>3. /\ S \in Seq(Tx) /\ Len(S) = k /\ DOMAIN S = 1 .. k
      /\ \A i \in 1 .. k : S[i] = ready[i]
  <2>1. S = SubSeq(ready, 1, k)
    BY DEF Started, k
  <2>2. \A i \in 1 .. k : ready[i] \in Tx
    BY <1>1, <1>2
  <2> QED
    BY <1>1, <1>2, <2>1, <2>2, SubSeqProperties, LenProperties
<1>4. /\ P \in Seq(Tx) /\ Len(P) = n - k /\ DOMAIN P = 1 .. (n - k)
      /\ \A i \in 1 .. (n - k) : P[i] = ready[k + i]
  <2>1. P = SubSeq(ready, k + 1, n)
    BY DEF Parked, k, n
  <2>2. \A i \in k + 1 .. n : ready[i] \in Tx
    BY <1>1, <1>2
  <2>3. /\ SubSeq(ready, k + 1, n) \in Seq(Tx)
        /\ Len(SubSeq(ready, k + 1, n)) = IF k + 1 <= n THEN n - (k + 1) + 1 ELSE 0
        /\ \A i \in 1 .. n - (k + 1) + 1 : SubSeq(ready, k + 1, n)[i] = ready[k + 1 + i - 1]
    BY <1>1, <1>2, <2>2, SubSeqProperties
  <2>4. n - (k + 1) + 1 = n - k
    BY <1>1, <1>2
  <2> QED
    BY <1>1, <1>2, <2>1, <2>3, <2>4, LenProperties
<1> HIDE DEF S, P
<1>5. ToSet(S) = {ready[i] : i \in 1 .. k}
  BY <1>3 DEF ToSet
<1>6. ToSet(P) = {ready[i] : i \in k + 1 .. n}
  <2>1. ToSet(P) = {ready[k + i] : i \in 1 .. (n - k)}
    BY <1>4 DEF ToSet
  <2>2. ASSUME NEW i \in k + 1 .. n  PROVE  i - k \in 1 .. (n - k) /\ k + (i - k) = i
    BY <1>1, <1>2
  <2>3. ASSUME NEW i \in 1 .. (n - k)  PROVE  k + i \in k + 1 .. n
    BY <1>1, <1>2
  <2> QED
    BY <2>1, <2>2, <2>3
<1>7. ToSet(ready) = {ready[i] : i \in 1 .. n}
  BY <1>1 DEF ToSet
<1>8. ToSet(ready) = ToSet(S) \cup ToSet(P) /\ ToSet(ready) \subseteq Tx
  BY <1>1, <1>2, <1>5, <1>6, <1>7
<1>9. ToSet(S) \cap ToSet(P) = {}
  BY <1>1, <1>2, <1>5, <1>6 DEF IsInjective
<1> QED
  BY <1>1, <1>2, <1>3, <1>4, <1>8, <1>9 DEF k, n, S, P

(* What runTask does to the phase of every call: those it is given start   *)
(* or are parked, the others are left to its caller.                       *)
LEMMA RunTasksPhases ==
  ASSUME MaxPoolSize \in Nat, activeTasks \in 0 .. MaxPoolSize,
         NEW ready \in Seq(Tx), IsInjective(ready), NEW settled, RunTasks(ready, settled)
  PROVE  /\ \A u \in ToSet(Started(ready)) : u \in Tx /\ phase'[u] = "running"
         /\ \A u \in ToSet(ready) : phase'[u] \in {"queued", "running"}
         /\ \A u \in Tx \ ToSet(Started(ready)) :
              \/ u \in ToSet(ready) /\ phase'[u] = "queued"
              \/ phase'[u] = settled[u]
         /\ \A u \in Tx \ ToSet(ready) : phase'[u] = settled[u]
<1>1. ToSet(ready) = ToSet(Started(ready)) \cup ToSet(Parked(ready)) /\ ToSet(ready) \subseteq Tx
  BY StartedAndParked
<1>2. phase' = [u \in Tx |-> IF u \in ToSet(Started(ready)) THEN "running"
                             ELSE IF u \in ToSet(Parked(ready)) THEN "queued" ELSE settled[u]]
  BY DEF RunTasks
<1> QED
  BY <1>1, <1>2

(* runTask for a sequence of calls: those calls, and no others, start or   *)
(* are parked.                                                             *)
LEMMA RunTasksEffect ==
  ASSUME MaxPoolSize \in Nat \ {0}, activeTasks \in 0 .. MaxPoolSize, executeQueue \in Seq(Tx),
         phase \in [Tx -> Phases], ParkedOnce, SlotsAccounted,
         NEW ready \in Seq(Tx), IsInjective(ready), ToSet(ready) \cap ToSet(executeQueue) = {},
         NEW settled \in [Tx -> Phases],
         \A u \in Tx : /\ settled[u] = "queued" <=> phase[u] = "queued"
                       /\ settled[u] \in {"running", "released"} <=> u \in SlotHolders,
         ToSet(ready) \cap SlotHolders = {},
         RunTasks(ready, settled)
  PROVE  /\ phase' \in [Tx -> Phases]
         /\ executeQueue' \in Seq(Tx)
         /\ activeTasks' \in 0 .. MaxPoolSize
         /\ \A u \in ToSet(ready) : phase'[u] \in {"queued", "running"}
         /\ \A u \in Tx \ ToSet(ready) : phase'[u] = settled[u]
         /\ ParkedOnce'
         /\ SlotsAccounted'
<1> DEFINE k == FreeSlots(ready)
           n == Len(ready)
           S == Started(ready)
           P == Parked(ready)
<1>1. n \in Nat /\ ready \in [1 .. n -> Tx] /\ DOMAIN ready = 1 .. n
  BY StartedAndParked
<1>2. k \in 0 .. n /\ activeTasks + k \in 0 .. MaxPoolSize
  BY StartedAndParked
<1>3. S \in Seq(Tx) /\ DOMAIN S = 1 .. k /\ \A i \in 1 .. k : S[i] = ready[i]
  BY StartedAndParked
<1>4. /\ P \in Seq(Tx) /\ Len(P) = n - k /\ DOMAIN P = 1 .. (n - k)
      /\ \A i \in 1 .. (n - k) : P[i] = ready[k + i]
  BY StartedAndParked
<1>8. ToSet(ready) = ToSet(S) \cup ToSet(P) /\ ToSet(ready) \subseteq Tx
  BY StartedAndParked
<1>9. ToSet(S) \cap ToSet(P) = {}
  BY StartedAndParked
<1> HIDE DEF k, n, S, P
<1>10. activeTasks' = activeTasks + k /\ executeQueue' = executeQueue \o P
  BY DEF RunTasks, k, P
<1>11. phase' = [u \in Tx |-> IF u \in ToSet(S) THEN "running"
                              ELSE IF u \in ToSet(P) THEN "queued" ELSE settled[u]]
  BY DEF RunTasks, S, P
<1>12. ParkedOnce'
  <2> DEFINE m == Len(executeQueue)
  <2>1. m \in Nat /\ executeQueue \in [1 .. m -> Tx] /\ DOMAIN executeQueue = 1 .. m
    BY LenProperties
  <2>2. /\ executeQueue' \in Seq(Tx) /\ Len(executeQueue') = m + (n - k)
        /\ \A i \in 1 .. m + (n - k) : executeQueue'[i] = IF i <= m THEN executeQueue[i] ELSE P[i - m]
    <3>1. /\ executeQueue \o P \in Seq(Tx)
          /\ Len(executeQueue \o P) = m + Len(P)
          /\ \A i \in 1 .. m + Len(P) :
               (executeQueue \o P)[i] = IF i <= m THEN executeQueue[i] ELSE P[i - m]
      BY <1>4, ConcatProperties
    <3> QED
      BY <3>1, <1>4, <1>10
  <2>3. DOMAIN executeQueue' = 1 .. m + (n - k)
    BY <2>2, LenProperties
  <2> HIDE DEF m
  <2>4. \A i \in 1 .. m : executeQueue'[i] = executeQueue[i] /\ executeQueue[i] \in ToSet(executeQueue)
    BY <1>1, <1>2, <2>1, <2>2 DEF ToSet
  <2>5. \A i \in m + 1 .. m + (n - k) :
          /\ i - m \in 1 .. (n - k)
          /\ executeQueue'[i] = ready[k + (i - m)]
          /\ k + (i - m) \in 1 .. n
          /\ executeQueue'[i] \in ToSet(P)
    <3> TAKE i \in m + 1 .. m + (n - k)
    <3>1. i - m \in 1 .. (n - k) /\ k + (i - m) \in 1 .. n
      BY <1>1, <1>2, <2>1
    <3>2. i \in 1 .. m + (n - k) /\ ~(i <= m)
      BY <1>1, <1>2, <2>1
    <3>3. executeQueue'[i] = P[i - m]
      BY <2>2, <3>2
    <3> QED
      BY <1>4, <3>1, <3>3 DEF ToSet
  <2>6. IsInjective(executeQueue')
    <3> SUFFICES ASSUME NEW i \in 1 .. m + (n - k), NEW j \in 1 .. m + (n - k),
                        executeQueue'[i] = executeQueue'[j]
                 PROVE  i = j
      BY <2>3 DEF IsInjective
    <3>1. CASE i <= m /\ j <= m
      BY <3>1, <2>1, <2>4 DEF ParkedOnce, IsInjective
    <3>2. CASE i > m /\ j > m
      <4>1. i \in m + 1 .. m + (n - k) /\ j \in m + 1 .. m + (n - k)
        BY <3>2, <2>1, <1>1, <1>2
      <4>2. k + (i - m) = k + (j - m)
        BY <4>1, <2>5, <1>1 DEF IsInjective
      <4> QED
        BY <4>2, <2>1, <1>1, <1>2
    <3>3. CASE (i <= m /\ j > m) \/ (i > m /\ j <= m)
      BY <3>3, <1>8, <2>1, <2>4, <2>5, <1>1, <1>2
    <3> QED
      BY <3>1, <3>2, <3>3, <2>1, <1>1, <1>2
  <2>7. ToSet(executeQueue') = ToSet(executeQueue) \cup ToSet(P)
    <3>1. ToSet(executeQueue') \subseteq ToSet(executeQueue) \cup ToSet(P)
      BY <2>1, <2>3, <2>4, <2>5, <1>1, <1>2 DEF ToSet
    <3>2. ASSUME NEW i \in 1 .. m  PROVE executeQueue[i] \in ToSet(executeQueue')
      <4>1. i \in 1 .. m + (n - k) /\ i \in DOMAIN executeQueue'
        BY <2>1, <2>3, <1>1, <1>2
      <4>2. executeQueue'[i] = executeQueue[i]
        BY <2>4
      <4> QED
        BY <4>1, <4>2 DEF ToSet
    <3>3. ToSet(executeQueue) \subseteq ToSet(executeQueue')
      BY <3>2, <2>1 DEF ToSet
    <3>4. \A i \in 1 .. (n - k) : P[i] \in ToSet(executeQueue')
      <4> SUFFICES ASSUME NEW i \in 1 .. (n - k)  PROVE P[i] \in ToSet(executeQueue')
        OBVIOUS
      <4>1. m + i \in 1 .. m + (n - k) /\ ~(m + i <= m) /\ (m + i) - m = i
        BY <2>1, <1>1, <1>2
      <4>2. executeQueue'[m + i] = P[i]
        BY <4>1, <2>2
      <4> QED
        BY <4>1, <4>2, <2>3 DEF ToSet
    <3>5. ToSet(P) \subseteq ToSet(executeQueue')
      BY <3>4, <1>4 DEF ToSet
    <3> QED
      BY <3>1, <3>3, <3>5
  <2>8. \A u \in Tx : phase'[u] = "queued" <=> u \in ToSet(executeQueue')
    BY <1>8, <1>9, <1>11, <2>7 DEF ParkedOnce
  <2> QED
    BY <2>6, <2>8 DEF ParkedOnce
<1>13. executeQueue' \in Seq(Tx)
  BY <1>4, <1>10, ConcatProperties
<1>14. SlotsAccounted'
  <2>1. IsFiniteSet(SlotHolders)
    BY SchedulerAssumption, FS_Subset DEF SlotHolders
  <2>2. IsFiniteSet(ToSet(S)) /\ Cardinality(ToSet(S)) = k
    <3>1. S \in [1 .. k -> ToSet(S)]
      BY <1>3 DEF ToSet
    <3>2. S \in Bijection(1 .. k, ToSet(S))
      <4>1. \A i, j \in 1 .. k : S[i] = S[j] => i = j
        <5>1. \A i \in 1 .. k : i \in 1 .. n /\ S[i] = ready[i]
          BY <1>1, <1>2, <1>3
        <5>2. \A i, j \in 1 .. n : ready[i] = ready[j] => i = j
          BY <1>1 DEF IsInjective
        <5> QED
          BY <5>1, <5>2
      <4>2. S \in Injection(1 .. k, ToSet(S))
        BY <3>1, <4>1, <1>3 DEF Injection, IsInjective
      <4>3. S \in Surjection(1 .. k, ToSet(S))
        BY <3>1, <1>3 DEF Surjection, ToSet
      <4> QED
        BY <4>2, <4>3 DEF Bijection
    <3>3. IsFiniteSet(1 .. k) /\ Cardinality(1 .. k) = k
      BY <1>1, <1>2, FS_Interval
    <3> QED
      BY <3>2, <3>3, FS_Bijection DEF ExistsBijection
  <2>3. SlotHolders' = SlotHolders \cup ToSet(S) /\ SlotHolders \cap ToSet(S) = {}
    BY <1>8, <1>9, <1>11 DEF SlotHolders
  <2>4. Cardinality(SlotHolders') = Cardinality(SlotHolders) + k
    <3>1. Cardinality(SlotHolders \cup ToSet(S))
            = Cardinality(SlotHolders) + Cardinality(ToSet(S)) - Cardinality({})
      BY <2>1, <2>2, <2>3, FS_Union
    <3>2. Cardinality(SlotHolders) \in Nat /\ Cardinality({}) = 0
      BY <2>1, FS_CardinalityType, FS_EmptySet
    <3> QED
      BY <2>2, <2>3, <3>1, <3>2, <1>1, <1>2
  <2>5. ASSUME executeQueue' # <<>>  PROVE  activeTasks' = MaxPoolSize
    <3>1. CASE executeQueue # <<>>
      BY <3>1, <1>1, <1>10 DEF SlotsAccounted, FreeSlots, k, n
    <3>2. CASE executeQueue = <<>>
      <4>1. n - k # 0
        BY <3>2, <2>5, <1>1, <1>2, <1>4, <1>10, EmptySeq, ConcatEmptySeq
      <4> QED
        BY <4>1, <1>1, <1>10 DEF FreeSlots, k, n
    <3> QED
      BY <3>1, <3>2
  <2> QED
    BY <2>4, <2>5, <1>10 DEF SlotsAccounted
<1> QED
  BY <1>2, <1>8, <1>10, <1>11, <1>12, <1>13, <1>14 DEF Phases

----------------------------------------------------------------------------
(* The inductive invariant: ConflictOrder alone is not, for a step has to  *)
(* know who holds and who waits.                                           *)
IInv == SchedulerTypeOK /\ QueueInvariant /\ SlotsAccounted /\ ConflictOrder

(* A new scheduler. *)
LEMMA SchedulerInitIInv == SchedulerInit => IInv
<1> SUFFICES ASSUME SchedulerInit PROVE IInv
  OBVIOUS
<1> USE DEF SchedulerInit
<1>1. SchedulerTypeOK
  BY SchedulerAssumption, EmptySeq DEF SchedulerTypeOK, Phases
<1>2. ParkedOnce
  BY DEF ParkedOnce, IsInjective, ToSet
<1>3. ArrivalsCounted /\ BlockedByConflicts /\ WaitsForConflicts /\ QueuesInOrder
  BY DEF ArrivalsCounted, BlockedByConflicts, WaitsForConflicts, QueuesInOrder, Waits
<1>4. OneHolder
  BY DEF OneHolder, Holds, Waits, Live
<1>5. ConflictOrder
  BY DEF ConflictOrder, Live
<1>6. SlotsAccounted
  <2>1. SlotHolders = {}
    BY DEF SlotHolders
  <2> QED
    BY <2>1, FS_EmptySet DEF SlotsAccounted
<1> QED
  BY <1>1, <1>2, <1>3, <1>4, <1>5, <1>6 DEF IInv, QueueInvariant

(* The queues of objects do not change, nor does who is alive, blocked or  *)
(* not yet registered: enough to keep everything but the types.            *)
LEMMA QuietStep ==
  ASSUME IInv, SchedulerTypeOK', ParkedOnce', SlotsAccounted',
         UNCHANGED <<usedObjects, conflicts, objectIdQueues, queueIds, arrival, arrivals>>,
         \A t \in Tx : /\ Live(t)' <=> Live(t)
                       /\ phase'[t] = "blocked" <=> phase[t] = "blocked"
                       /\ phase'[t] \in {"idle", "rejected"} <=> phase[t] \in {"idle", "rejected"}
  PROVE  IInv'
<1> USE DEF IInv, QueueInvariant
<1>1. ArrivalsCounted' /\ BlockedByConflicts'
  BY DEF ArrivalsCounted, BlockedByConflicts
<1>2. \A t \in Tx, o \in Object : (Waits(t, o)' <=> Waits(t, o)) /\ (Holds(t, o)' <=> Holds(t, o))
  BY DEF Waits, Holds
<1>3. WaitsForConflicts' /\ OneHolder'
  BY <1>2 DEF WaitsForConflicts, OneHolder
<1>4. QueuesInOrder' /\ ConflictOrder'
  BY DEF QueuesInOrder, ConflictOrder
<1> QED
  BY <1>1, <1>3, <1>4

(* Preparing rejects: nothing was registered. *)
LEMMA RejectPrepareIInv ==
  ASSUME IInv, NEW t \in Tx, RejectPrepare(t)
  PROVE  IInv'
<1> USE DEF IInv, QueueInvariant, RejectPrepare
<1>1. SchedulerTypeOK'
  BY DEF SchedulerTypeOK, Phases
<1>2. ParkedOnce'
  BY DEF SchedulerTypeOK, ParkedOnce
<1>3. SlotsAccounted'
  <2>1. SlotHolders' = SlotHolders
    BY DEF SlotHolders, SchedulerTypeOK
  <2> QED
    BY <2>1 DEF SlotsAccounted
<1> QED
  BY <1>1, <1>2, <1>3, QuietStep DEF SchedulerTypeOK, Live

(* A task is done: its slot is handed on or given back. *)
LEMMA TaskDoneIInv ==
  ASSUME IInv, NEW t \in Tx, TaskDone(t)
  PROVE  IInv'
<1> USE DEF IInv, QueueInvariant
<1>1. IsFiniteSet(SlotHolders) /\ t \in SlotHolders
  BY SchedulerAssumption, FS_Subset DEF SlotHolders, TaskDone
<1>2. /\ Cardinality(SlotHolders \ {t}) = Cardinality(SlotHolders) - 1
      /\ IsFiniteSet(SlotHolders \ {t})
      /\ Cardinality(SlotHolders \ {t}) \in Nat
  BY <1>1, FS_RemoveElement, FS_CardinalityType
<1>3. phase \in [Tx -> Phases] /\ phase[t] = "released" /\ activeTasks \in 0 .. MaxPoolSize
  BY DEF SchedulerTypeOK, TaskDone
<1>4. CASE executeQueue = <<>>
  <2>1. phase' = [phase EXCEPT ![t] = "done"] /\ activeTasks' = activeTasks - 1 /\ executeQueue' = <<>>
    BY <1>4 DEF TaskDone
  <2>2. SlotHolders' = SlotHolders \ {t}
    BY <1>3, <2>1 DEF SlotHolders
  <2>3. activeTasks' \in 0 .. MaxPoolSize /\ SlotsAccounted'
    BY <1>2, <1>3, <2>1, <2>2, SchedulerAssumption DEF SlotsAccounted
  <2>4. SchedulerTypeOK'
    BY <1>3, <1>4, <2>1, <2>3 DEF SchedulerTypeOK, TaskDone, Phases
  <2>5. ParkedOnce'
    BY <1>3, <1>4, <2>1 DEF ParkedOnce
  <2> QED
    BY <1>3, <2>1, <2>3, <2>4, <2>5, QuietStep DEF TaskDone, Live
<1>5. CASE executeQueue # <<>>
  <2> DEFINE h == Head(executeQueue)
             m == Len(executeQueue)
  <2>1. phase' = [phase EXCEPT ![t] = "done", ![h] = "running"]
        /\ executeQueue' = Tail(executeQueue) /\ activeTasks' = activeTasks
    BY <1>5 DEF TaskDone
  <2>2. /\ executeQueue \in Seq(Tx) /\ m \in Nat \ {0} /\ DOMAIN executeQueue = 1 .. m
        /\ h = executeQueue[1]
    BY <1>5, EmptySeq, LenProperties DEF SchedulerTypeOK
  <2>3. /\ Tail(executeQueue) \in Seq(Tx) /\ DOMAIN Tail(executeQueue) = 1 .. m - 1
        /\ \A i \in 1 .. m - 1 : Tail(executeQueue)[i] = executeQueue[i + 1]
    BY <1>5, <2>2, HeadTailProperties, LenProperties
  <2> HIDE DEF h, m
  <2>4. h \in Tx /\ phase[h] = "queued"
    BY <2>2, <1>3 DEF ParkedOnce, ToSet
  <2>5. ToSet(Tail(executeQueue)) = ToSet(executeQueue) \ {h}
    <3>1. \A i \in 1 .. m - 1 : i + 1 \in 1 .. m /\ i + 1 # 1
      BY <2>2
    <3>2. ToSet(Tail(executeQueue)) \subseteq ToSet(executeQueue) \ {h}
      <4>1. \A i \in 1 .. m - 1 : /\ Tail(executeQueue)[i] = executeQueue[i + 1]
                                 /\ executeQueue[i + 1] # h
        BY <2>2, <2>3, <3>1 DEF ParkedOnce, IsInjective
      <4> QED
        BY <2>2, <2>3, <3>1, <4>1 DEF ToSet
    <3>3. \A i \in 1 .. m : i # 1 => i - 1 \in 1 .. m - 1 /\ (i - 1) + 1 = i
      BY <2>2
    <3>4. ToSet(executeQueue) \ {h} \subseteq ToSet(Tail(executeQueue))
      <4> SUFFICES ASSUME NEW i \in 1 .. m, executeQueue[i] # h
                   PROVE  executeQueue[i] \in ToSet(Tail(executeQueue))
        BY <2>2 DEF ToSet
      <4>1. i - 1 \in 1 .. m - 1 /\ Tail(executeQueue)[i - 1] = executeQueue[i]
        BY <2>2, <2>3, <3>3
      <4> QED
        BY <2>3, <4>1 DEF ToSet
    <3> QED
      BY <3>2, <3>4
  <2>6. IsInjective(Tail(executeQueue))
    BY <2>2, <2>3 DEF ParkedOnce, IsInjective
  <2>7. ParkedOnce'
    BY <1>3, <2>1, <2>4, <2>5, <2>6 DEF ParkedOnce
  <2>8. SlotHolders' = (SlotHolders \ {t}) \cup {h} /\ h \notin SlotHolders
    BY <1>3, <2>1, <2>4 DEF SlotHolders
  <2>9. Cardinality(SlotHolders') = Cardinality(SlotHolders)
    <3>1. Cardinality((SlotHolders \ {t}) \cup {h}) = Cardinality(SlotHolders \ {t}) + 1
      BY <1>2, <2>8, FS_AddElement
    <3>2. Cardinality(SlotHolders) \in Nat
      BY <1>1, FS_CardinalityType
    <3> QED
      BY <1>2, <2>8, <3>1, <3>2
  <2>10. SlotsAccounted'
    BY <1>5, <2>1, <2>9 DEF SlotsAccounted
  <2>11. SchedulerTypeOK'
    BY <1>3, <2>1, <2>3 DEF SchedulerTypeOK, TaskDone, Phases
  <2> QED
    BY <1>3, <2>1, <2>4, <2>7, <2>10, <2>11, QuietStep DEF TaskDone, Live
<1> QED
  BY <1>4, <1>5

(* A call that registers is the last arrival: it waits exactly where       *)
(* somebody holds, and holds everything else alone.                        *)
LEMMA RegisterIInv ==
  ASSUME IInv, NEW t \in Tx, NEW ids \in SUBSET Object, Register(t, ids)
  PROVE  IInv'
<1> USE DEF IInv, QueueInvariant
<1> DEFINE held == ids \cap queueIds
           ready == IF held = {} THEN <<t>> ELSE <<>>
           settled == [phase EXCEPT ![t] = "blocked"]
<1>1. /\ phase \in [Tx -> Phases] /\ phase[t] = "idle" /\ arrivals \in Nat
      /\ arrival \in [Tx -> Nat] /\ usedObjects \in [Tx -> SUBSET Object]
      /\ conflicts \in [Tx -> SUBSET Object] /\ objectIdQueues \in [Object -> Seq(Tx)]
      /\ queueIds \in SUBSET Object
  BY DEF SchedulerTypeOK, Register
<1>2. /\ usedObjects' = [usedObjects EXCEPT ![t] = ids]
      /\ conflicts' = [conflicts EXCEPT ![t] = held]
      /\ objectIdQueues' = [o \in Object |-> IF o \in held THEN Append(objectIdQueues[o], t)
                                                           ELSE objectIdQueues[o]]
      /\ queueIds' = queueIds \cup ids
      /\ arrivals' = arrivals + 1
      /\ arrival' = [arrival EXCEPT ![t] = arrivals + 1]
      /\ RunTasks(ready, settled)
  BY DEF Register
<1> HIDE DEF held
<1>3. held = ids \cap queueIds
  BY DEF held
<1>4. /\ ready \in Seq(Tx) /\ IsInjective(ready)
      /\ ToSet(ready) = IF held = {} THEN {t} ELSE {}
  BY DEF IsInjective, ToSet
<1>5. t \notin ToSet(executeQueue) /\ t \notin SlotHolders
  BY <1>1 DEF ParkedOnce, SlotHolders
<1>6. /\ settled \in [Tx -> Phases]
      /\ \A u \in Tx : /\ settled[u] = "queued" <=> phase[u] = "queued"
                       /\ settled[u] \in {"running", "released"} <=> u \in SlotHolders
  BY <1>1 DEF Phases, SlotHolders
<1> HIDE DEF ready
<1>7. /\ phase' \in [Tx -> Phases] /\ executeQueue' \in Seq(Tx) /\ activeTasks' \in 0 .. MaxPoolSize
      /\ \A u \in ToSet(ready) : phase'[u] \in {"queued", "running"}
      /\ \A u \in Tx \ ToSet(ready) : phase'[u] = settled[u]
      /\ ParkedOnce' /\ SlotsAccounted'
  <2>1. /\ MaxPoolSize \in Nat \ {0} /\ activeTasks \in 0 .. MaxPoolSize /\ executeQueue \in Seq(Tx)
        /\ ParkedOnce /\ SlotsAccounted
    BY SchedulerAssumption DEF SchedulerTypeOK
  <2>2. ToSet(ready) \cap ToSet(executeQueue) = {} /\ ToSet(ready) \cap SlotHolders = {}
    BY <1>4, <1>5
  <2> HIDE DEF settled
  <2> QED
    BY <1>1, <1>2, <1>4, <1>6, <2>1, <2>2, RunTasksEffect
<1>8. /\ \A u \in Tx \ {t} : phase'[u] = phase[u]
      /\ phase'[t] \in {"blocked", "queued", "running"}
      /\ phase'[t] = "blocked" <=> held # {}
  BY <1>1, <1>4, <1>7
<1>9. Live(t)' /\ ~Live(t) /\ \A u \in Tx \ {t} : Live(u)' <=> Live(u)
  BY <1>1, <1>8 DEF Live
<1>10. conflicts[t] = {} /\ \A o \in Object : ~Waits(t, o)
  BY <1>1 DEF BlockedByConflicts, WaitsForConflicts
<1>11. \A o \in Object :
         /\ objectIdQueues[o] \in Seq(Tx) /\ Len(objectIdQueues[o]) \in Nat
         /\ DOMAIN objectIdQueues[o] = 1 .. Len(objectIdQueues[o])
  BY <1>1, LenProperties
<1>12. \A o \in held :
         /\ objectIdQueues'[o] \in Seq(Tx)
         /\ DOMAIN objectIdQueues'[o] = 1 .. Len(objectIdQueues[o]) + 1
         /\ \A i \in 1 .. Len(objectIdQueues[o]) : objectIdQueues'[o][i] = objectIdQueues[o][i]
         /\ objectIdQueues'[o][Len(objectIdQueues[o]) + 1] = t
  BY <1>1, <1>2, <1>3, <1>11, AppendProperties, LenProperties
<1>13. \A o \in Object \ held : objectIdQueues'[o] = objectIdQueues[o]
  BY <1>2
<1>14. \A u \in Tx, o \in Object : Waits(u, o)' <=> Waits(u, o) \/ (u = t /\ o \in held)
  <2> TAKE u \in Tx, o \in Object
  <2>1. CASE o \in held
    <3>1. Len(objectIdQueues[o]) + 1 \in DOMAIN objectIdQueues'[o]
      BY <2>1, <1>11, <1>12
    <3>2. \A i \in DOMAIN objectIdQueues'[o] :
            i \in DOMAIN objectIdQueues[o] \/ i = Len(objectIdQueues[o]) + 1
      BY <2>1, <1>11, <1>12
    <3>3. DOMAIN objectIdQueues[o] \subseteq DOMAIN objectIdQueues'[o]
      BY <2>1, <1>11, <1>12
    <3> QED
      BY <2>1, <3>1, <3>2, <3>3, <1>11, <1>12 DEF Waits
  <2>2. CASE o \notin held
    BY <2>2, <1>13 DEF Waits
  <2> QED
    BY <2>1, <2>2
<1>15. SchedulerTypeOK'
  <2>1. objectIdQueues' \in [Object -> Seq(Tx)]
    <3>1. \A o \in Object : objectIdQueues'[o] \in Seq(Tx)
      BY <1>11, <1>12, <1>13
    <3> QED
      BY <3>1, <1>2
  <2>2. usedObjects' \in [Tx -> SUBSET Object] /\ conflicts' \in [Tx -> SUBSET Object]
    BY <1>1, <1>2, <1>3
  <2>3. queueIds' \in SUBSET Object /\ arrivals' \in Nat /\ arrival' \in [Tx -> Nat]
    BY <1>1, <1>2
  <2> QED
    BY <2>1, <2>2, <2>3, <1>7 DEF SchedulerTypeOK
<1>16. ArrivalsCounted'
  BY <1>1, <1>2, <1>8 DEF ArrivalsCounted
<1>17. BlockedByConflicts'
  BY <1>1, <1>2, <1>3, <1>8 DEF BlockedByConflicts
<1>18. WaitsForConflicts'
  BY <1>1, <1>2, <1>10, <1>14 DEF WaitsForConflicts
<1>19. QueuesInOrder'
  <2>1. \A u \in Tx : arrival[u] <= arrivals
    BY DEF ArrivalsCounted
  <2> SUFFICES ASSUME NEW o \in Object, NEW i \in DOMAIN objectIdQueues'[o],
                      NEW j \in DOMAIN objectIdQueues'[o], i < j
               PROVE  arrival'[objectIdQueues'[o][i]] < arrival'[objectIdQueues'[o][j]]
    BY DEF QueuesInOrder
  <2>2. \A k \in DOMAIN objectIdQueues[o] : objectIdQueues[o][k] \in Tx \ {t}
    BY <1>10, <1>11 DEF Waits
  <2>3. CASE o \notin held
    BY <2>2, <2>3, <1>1, <1>2, <1>13 DEF QueuesInOrder
  <2>4. CASE o \in held
    <3>1. i \in DOMAIN objectIdQueues[o] /\ objectIdQueues'[o][i] = objectIdQueues[o][i]
      BY <2>4, <1>11, <1>12
    <3>2. CASE j \in DOMAIN objectIdQueues[o]
      BY <3>1, <3>2, <2>2, <2>4, <1>1, <1>2, <1>11, <1>12 DEF QueuesInOrder
    <3>3. CASE j = Len(objectIdQueues[o]) + 1
      BY <3>1, <3>3, <2>1, <2>2, <2>4, <1>1, <1>2, <1>12
    <3> QED
      BY <3>2, <3>3, <2>4, <1>11, <1>12
  <2> QED
    BY <2>3, <2>4
<1>20. \A u \in Tx, o \in Object : Holds(u, o)' <=> Holds(u, o) \/ (u = t /\ o \in ids \ queueIds)
  BY <1>1, <1>2, <1>3, <1>9 DEF Holds
<1>21. OneHolder'
  <2>1. \A u \in Tx : arrival[u] <= arrivals
    BY DEF ArrivalsCounted
  <2>2. \A o \in Object : ~Holds(t, o)
    BY <1>9 DEF Holds
  <2> SUFFICES ASSUME NEW o \in Object
               PROVE  /\ o \in queueIds' <=> \E u \in Tx : Holds(u, o)'
                      /\ \A u, w \in Tx : Holds(u, o)' /\ Holds(w, o)' => u = w
                      /\ \A u, w \in Tx : Holds(u, o)' /\ Waits(w, o)' => arrival'[u] < arrival'[w]
                      /\ \A u \in Tx : Waits(u, o)' => o \in queueIds'
    BY DEF OneHolder
  <2>3. o \in queueIds' <=> \E u \in Tx : Holds(u, o)'
    BY <1>2, <1>20 DEF OneHolder
  <2>4. \A u, w \in Tx : Holds(u, o)' /\ Holds(w, o)' => u = w
    BY <1>20 DEF OneHolder
  <2>5. \A u \in Tx : Waits(u, o)' => o \in queueIds'
    BY <1>2, <1>3, <1>14 DEF OneHolder
  <2>6. ASSUME NEW u \in Tx, NEW w \in Tx, Holds(u, o)', Waits(w, o)'
        PROVE  arrival'[u] < arrival'[w]
    <3>1. CASE w = t
      <4>1. o \in queueIds
        BY <2>6, <3>1, <1>3, <1>10, <1>14
      <4>2. u # t
        BY <4>1, <2>2, <2>6, <1>20
      <4> QED
        BY <3>1, <4>2, <2>1, <1>1, <1>2
    <3>2. CASE w # t
      <4>1. Waits(w, o) /\ o \in queueIds
        BY <2>6, <3>2, <1>14 DEF OneHolder
      <4>2. Holds(u, o) /\ u # t
        BY <4>1, <2>2, <2>6, <1>20
      <4> QED
        BY <3>2, <4>1, <4>2, <1>1, <1>2 DEF OneHolder
    <3> QED
      BY <3>1, <3>2
  <2> QED
    BY <2>3, <2>4, <2>5, <2>6
<1>22. ConflictOrder'
  <2> SUFFICES ASSUME NEW u \in Tx, NEW w \in Tx, usedObjects'[u] \cap usedObjects'[w] # {},
                      arrival'[u] < arrival'[w], Live(u)'
               PROVE  phase'[w] = "blocked"
    BY DEF ConflictOrder
  <2>1. \A x \in Tx : arrival[x] <= arrivals
    BY DEF ArrivalsCounted
  <2>2. u # t
    <3> SUFFICES ASSUME u = t PROVE FALSE
      OBVIOUS
    <3>1. w # t
      BY <1>1, <1>2
    <3> QED
      BY <3>1, <2>1, <1>1, <1>2
  <2>3. CASE w = t
    <3>1. PICK o \in Object : o \in usedObjects[u] /\ o \in ids
      BY <2>2, <2>3, <1>1, <1>2
    <3>2. Holds(u, o) \/ Waits(u, o)
      BY <2>2, <3>1, <1>1, <1>9 DEF Holds, WaitsForConflicts
    <3>3. o \in held
      BY <3>1, <3>2, <1>3 DEF OneHolder
    <3> QED
      BY <3>3, <2>3, <1>8
  <2>4. CASE w # t
    BY <2>2, <2>4, <1>1, <1>2, <1>8, <1>9 DEF ConflictOrder
  <2> QED
    BY <2>3, <2>4
<1> QED
  BY <1>7, <1>15, <1>16, <1>17, <1>18, <1>19, <1>21, <1>22

(* The finally block: the head of every queue becomes the holder in t's    *)
(* place, and a call wakes exactly when it holds everything it uses.       *)
LEMMA ReleaseIInv ==
  ASSUME IInv, NEW t \in Tx, NEW ready, Release(t, ready)
  PROVE  IInv'
<1> USE DEF IInv, QueueInvariant
<1> DEFINE settled == [phase EXCEPT ![t] = "released"]
           q(o) == objectIdQueues[o]
<1>1. /\ phase \in [Tx -> Phases] /\ phase[t] = "running"
      /\ usedObjects \in [Tx -> SUBSET Object] /\ conflicts \in [Tx -> SUBSET Object]
      /\ objectIdQueues \in [Object -> Seq(Tx)] /\ queueIds \in SUBSET Object
      /\ arrival \in [Tx -> Nat]
  BY DEF SchedulerTypeOK, Release
<1>2. /\ ready \in SetToSeqs(Woken(t))
      /\ conflicts' = [u \in Tx |-> conflicts[u] \ HandedOver(t, u)]
      /\ objectIdQueues' = [o \in Object |-> IF o \in usedObjects[t] /\ q(o) # <<>>
                                               THEN Tail(q(o)) ELSE q(o)]
      /\ queueIds' = queueIds \ {o \in usedObjects[t] : q(o) = <<>>}
      /\ RunTasks(ready, settled)
      /\ UNCHANGED <<usedObjects, arrival, arrivals>>
  BY DEF Release, Closed
<1>3. /\ ready \in Seq(Tx) /\ IsInjective(ready) /\ ToSet(ready) = Woken(t)
      /\ \A u \in Woken(t) : u \in Tx /\ phase[u] = "blocked"
  <2>1. IsFiniteSet(Woken(t)) /\ Woken(t) \subseteq Tx /\ \A u \in Woken(t) : phase[u] = "blocked"
    BY SchedulerAssumption, FS_Subset DEF Woken
  <2>2. ready \in Seq(Woken(t)) /\ ToSet(ready) = Woken(t) /\ IsInjective(ready)
    BY <2>1, <1>2, SetToSeqsLists
  <2> QED
    BY <2>1, <2>2
<1>4. /\ phase' \in [Tx -> Phases] /\ executeQueue' \in Seq(Tx) /\ activeTasks' \in 0 .. MaxPoolSize
      /\ \A u \in Woken(t) : phase'[u] \in {"queued", "running"}
      /\ \A u \in Tx \ Woken(t) : phase'[u] = settled[u]
      /\ ParkedOnce' /\ SlotsAccounted'
  <2>1. /\ MaxPoolSize \in Nat \ {0} /\ activeTasks \in 0 .. MaxPoolSize /\ executeQueue \in Seq(Tx)
        /\ ParkedOnce /\ SlotsAccounted
    BY SchedulerAssumption DEF SchedulerTypeOK
  <2>2. ToSet(ready) \cap ToSet(executeQueue) = {} /\ ToSet(ready) \cap SlotHolders = {}
    BY <1>3 DEF ParkedOnce, SlotHolders
  <2>3. /\ settled \in [Tx -> Phases]
        /\ \A u \in Tx : /\ settled[u] = "queued" <=> phase[u] = "queued"
                         /\ settled[u] \in {"running", "released"} <=> u \in SlotHolders
    BY <1>1 DEF Phases, SlotHolders
  <2> HIDE DEF settled
  <2> QED
    <3>1. /\ RunTasks(ready, settled) /\ ready \in Seq(Tx) /\ IsInjective(ready)
          /\ ToSet(ready) = Woken(t) /\ phase \in [Tx -> Phases]
      BY <1>1, <1>2, <1>3
    <3>2. /\ phase' \in [Tx -> Phases] /\ executeQueue' \in Seq(Tx) /\ activeTasks' \in 0 .. MaxPoolSize
          /\ \A u \in ToSet(ready) : phase'[u] \in {"queued", "running"}
          /\ \A u \in Tx \ ToSet(ready) : phase'[u] = settled[u]
          /\ ParkedOnce' /\ SlotsAccounted'
      BY <3>1, <2>1, <2>2, <2>3, RunTasksEffect
    <3> QED
      BY <3>1, <3>2
<1>5. /\ t \notin Woken(t) /\ phase'[t] = "released"
      /\ \A u \in Tx \ {t} : u \notin Woken(t) => phase'[u] = phase[u]
  BY <1>1, <1>3, <1>4
<1>6. Live(t) /\ ~Live(t)' /\ \A u \in Tx \ {t} : Live(u)' <=> Live(u)
  BY <1>1, <1>3, <1>4, <1>5 DEF Live
<1>7. conflicts[t] = {} /\ \A o \in usedObjects[t] : Holds(t, o) /\ o \in queueIds /\ o \in Object
  BY <1>1, <1>6 DEF BlockedByConflicts, Holds, OneHolder
<1>8. \A o \in Object : q(o) \in Seq(Tx) /\ Len(q(o)) \in Nat /\ DOMAIN q(o) = 1 .. Len(q(o))
  BY <1>1, LenProperties
<1>9. ASSUME NEW o \in Object, q(o) # <<>>
      PROVE  /\ Tail(q(o)) \in Seq(Tx) /\ DOMAIN Tail(q(o)) = 1 .. Len(q(o)) - 1
             /\ \A i \in 1 .. Len(q(o)) - 1 : Tail(q(o))[i] = q(o)[i + 1] /\ i + 1 \in DOMAIN q(o)
             /\ 1 \in DOMAIN q(o) /\ Head(q(o)) = q(o)[1] /\ q(o)[1] \in Tx
  <2>1. Len(q(o)) \in Nat \ {0}
    BY <1>8, <1>9, EmptySeq
  <2>2. \A i \in 1 .. Len(q(o)) - 1 : i + 1 \in DOMAIN q(o)
    BY <2>1, <1>8
  <2>3. /\ Tail(q(o)) \in Seq(Tx) /\ Len(Tail(q(o))) = Len(q(o)) - 1
        /\ \A i \in 1 .. Len(Tail(q(o))) : Tail(q(o))[i] = q(o)[i + 1]
    BY <1>8, <1>9, HeadTailProperties
  <2>4. DOMAIN Tail(q(o)) = 1 .. Len(q(o)) - 1
    BY <2>3, LenProperties
  <2>5. 1 \in DOMAIN q(o) /\ Head(q(o)) = q(o)[1] /\ q(o)[1] \in Tx
    BY <2>1, <1>8, ElementOfSeq
  <2> QED
    BY <2>2, <2>3, <2>4, <2>5
<1> HIDE DEF settled
<1>10. \A u \in Tx, o \in Object :
         o \in HandedOver(t, u) <=> o \in usedObjects[t] /\ q(o) # <<>> /\ q(o)[1] = u
  BY <1>7, <1>9 DEF HandedOver
<1>11. \A u \in Tx : HandedOver(t, u) \subseteq Object
  BY <1>7 DEF HandedOver
<1>12. ASSUME NEW u \in Tx, NEW o \in Object, o \in HandedOver(t, u)
       PROVE  Waits(u, o) /\ o \in conflicts[u] /\ o \in usedObjects[u] /\ Live(u) /\ u # t
  <2>1. Waits(u, o)
    BY <1>9, <1>10, <1>12 DEF Waits
  <2>2. o \in conflicts[u]
    BY <2>1 DEF WaitsForConflicts
  <2>3. phase[u] = "blocked" /\ o \in usedObjects[u]
    BY <2>2 DEF BlockedByConflicts
  <2> QED
    BY <2>1, <2>2, <2>3, <1>1 DEF Live
<1>13. \A u \in Tx, o \in Object : Waits(u, o)' <=> Waits(u, o) /\ o \notin HandedOver(t, u)
  <2> TAKE u \in Tx, o \in Object
  <2>1. CASE o \in usedObjects[t] /\ q(o) # <<>>
    <3>1. objectIdQueues'[o] = Tail(q(o))
      BY <2>1, <1>2
    <3>2. ASSUME Waits(u, o)'  PROVE Waits(u, o) /\ q(o)[1] # u
      <4>1. PICK i \in 1 .. Len(q(o)) - 1 : Tail(q(o))[i] = u
        BY <2>1, <3>1, <3>2, <1>9 DEF Waits
      <4>2. q(o)[i + 1] = u /\ i + 1 \in DOMAIN q(o) /\ 1 \in DOMAIN q(o) /\ 1 < i + 1
        BY <2>1, <4>1, <1>8, <1>9
      <4>3. arrival[q(o)[1]] < arrival[q(o)[i + 1]]
        BY <4>2 DEF QueuesInOrder
      <4> QED
        BY <4>2, <4>3, <1>1 DEF Waits
    <3>3. ASSUME Waits(u, o), q(o)[1] # u  PROVE Waits(u, o)'
      <4>1. PICK i \in DOMAIN q(o) : q(o)[i] = u
        BY <3>3 DEF Waits
      <4>2. i - 1 \in 1 .. Len(q(o)) - 1 /\ (i - 1) + 1 = i
        BY <3>3, <4>1, <1>8
      <4>3. Tail(q(o))[i - 1] = u /\ i - 1 \in DOMAIN Tail(q(o))
        BY <2>1, <4>1, <4>2, <1>9
      <4> QED
        BY <3>1, <4>3 DEF Waits
    <3> QED
      BY <2>1, <3>2, <3>3, <1>10
  <2>2. CASE o \notin usedObjects[t] \/ q(o) = <<>>
    BY <2>2, <1>2, <1>10 DEF Waits
  <2> QED
    BY <2>1, <2>2
<1>14. SchedulerTypeOK'
  <2>1. ASSUME NEW o \in Object  PROVE objectIdQueues'[o] \in Seq(Tx)
    <3>1. CASE o \in usedObjects[t] /\ q(o) # <<>>
      BY <3>1, <1>2, <1>9
    <3>2. CASE o \notin usedObjects[t] \/ q(o) = <<>>
      BY <3>2, <1>2, <1>8
    <3> QED
      BY <3>1, <3>2
  <2>2. objectIdQueues' \in [Object -> Seq(Tx)]
    BY <2>1, <1>2
  <2>3. conflicts' \in [Tx -> SUBSET Object] /\ queueIds' \in SUBSET Object
    BY <1>1, <1>2
  <2> QED
    BY <2>2, <2>3, <1>2, <1>4 DEF SchedulerTypeOK
<1>15. ArrivalsCounted'
  <2>1. \A u \in Tx : phase'[u] \in {"idle", "rejected"} <=> phase[u] \in {"idle", "rejected"}
    BY <1>1, <1>3, <1>4, <1>5
  <2> QED
    BY <2>1, <1>2 DEF ArrivalsCounted
<1>16. BlockedByConflicts'
  <2> SUFFICES ASSUME NEW u \in Tx
               PROVE  /\ phase'[u] = "blocked" <=> conflicts'[u] # {}
                      /\ conflicts'[u] \subseteq usedObjects'[u]
    BY DEF BlockedByConflicts
  <2>1. conflicts'[u] = conflicts[u] \ HandedOver(t, u) /\ usedObjects' = usedObjects
    BY <1>2
  <2>2. phase[u] = "blocked" <=> conflicts[u] # {}
    BY DEF BlockedByConflicts
  <2>3. u \in Woken(t) <=> phase[u] = "blocked" /\ conflicts'[u] = {}
    BY <2>1 DEF Woken
  <2>4. phase'[u] = "blocked" <=> conflicts'[u] # {}
    BY <2>1, <2>2, <2>3, <1>1, <1>4, <1>5
  <2> QED
    BY <2>1, <2>4 DEF BlockedByConflicts
<1>17. WaitsForConflicts'
  BY <1>2, <1>13 DEF WaitsForConflicts
<1>18. QueuesInOrder'
  <2> SUFFICES ASSUME NEW o \in Object, NEW i \in DOMAIN objectIdQueues'[o],
                      NEW j \in DOMAIN objectIdQueues'[o], i < j
               PROVE  arrival[objectIdQueues'[o][i]] < arrival[objectIdQueues'[o][j]]
    BY <1>2 DEF QueuesInOrder
  <2>1. CASE o \in usedObjects[t] /\ q(o) # <<>>
    <3>1. objectIdQueues'[o] = Tail(q(o))
      BY <2>1, <1>2
    <3>2. /\ i \in 1 .. Len(q(o)) - 1 /\ j \in 1 .. Len(q(o)) - 1
          /\ i + 1 \in DOMAIN q(o) /\ j + 1 \in DOMAIN q(o)
          /\ Tail(q(o))[i] = q(o)[i + 1] /\ Tail(q(o))[j] = q(o)[j + 1]
      BY <2>1, <3>1, <1>9
    <3>3. i + 1 < j + 1
      BY <3>2, <1>8
    <3> QED
      BY <3>1, <3>2, <3>3 DEF QueuesInOrder
  <2>2. CASE o \notin usedObjects[t] \/ q(o) = <<>>
    BY <2>2, <1>2 DEF QueuesInOrder
  <2> QED
    BY <2>1, <2>2
<1>19. \A u \in Tx, o \in Object :
         Holds(u, o)' <=> u # t /\ (Holds(u, o) \/ o \in HandedOver(t, u))
  BY <1>2, <1>6, <1>12 DEF Holds
<1>20. OneHolder'
  <2> SUFFICES ASSUME NEW o \in Object
               PROVE  /\ o \in queueIds' <=> \E u \in Tx : Holds(u, o)'
                      /\ \A u, w \in Tx : Holds(u, o)' /\ Holds(w, o)' => u = w
                      /\ \A u, w \in Tx : Holds(u, o)' /\ Waits(w, o)' => arrival[u] < arrival[w]
                      /\ \A u \in Tx : Waits(u, o)' => o \in queueIds'
    BY <1>2 DEF OneHolder
  <2>1. /\ o \in queueIds <=> \E u \in Tx : Holds(u, o)
        /\ \A u, w \in Tx : Holds(u, o) /\ Holds(w, o) => u = w
        /\ \A u, w \in Tx : Holds(u, o) /\ Waits(w, o) => arrival[u] < arrival[w]
        /\ \A u \in Tx : Waits(u, o) => o \in queueIds
    BY DEF OneHolder
  <2>2. CASE o \notin usedObjects[t]
    <3>1. ~Holds(t, o) /\ (o \in queueIds' <=> o \in queueIds)
      BY <2>2, <1>2 DEF Holds
    <3>2. \A u \in Tx : (Holds(u, o)' <=> Holds(u, o)) /\ (Waits(u, o)' <=> Waits(u, o))
      BY <2>2, <3>1, <1>10, <1>13, <1>19
    <3> QED
      BY <2>1, <3>1, <3>2
  <2>3. CASE o \in usedObjects[t] /\ q(o) = <<>>
    <3>1. o \notin queueIds' /\ \A u \in Tx : Holds(u, o) => u = t
      BY <2>1, <2>3, <1>2, <1>7
    <3>2. \A u \in Tx : ~Holds(u, o)' /\ ~Waits(u, o)'
      <4>1. \A u \in Tx : ~Waits(u, o)
        BY <2>3 DEF Waits
      <4> QED
        BY <2>3, <3>1, <4>1, <1>10, <1>13, <1>19
    <3> QED
      BY <3>1, <3>2
  <2>4. CASE o \in usedObjects[t] /\ q(o) # <<>>
    <3>1. o \in queueIds' /\ \A u \in Tx : Holds(u, o) => u = t
      BY <2>1, <2>4, <1>2, <1>7
    <3>2. q(o)[1] \in Tx /\ q(o)[1] # t /\ \A u \in Tx : Holds(u, o)' <=> u = q(o)[1]
      BY <2>4, <3>1, <1>9, <1>10, <1>12, <1>19
    <3>3. ASSUME NEW w \in Tx, Waits(w, o)'  PROVE arrival[q(o)[1]] < arrival[w]
      <4>1. Waits(w, o) /\ q(o)[1] # w
        BY <2>4, <3>3, <1>10, <1>13
      <4>2. PICK i \in DOMAIN q(o) : q(o)[i] = w
        BY <4>1 DEF Waits
      <4>3. 1 \in DOMAIN q(o) /\ 1 < i
        BY <2>4, <4>1, <4>2, <1>8, <1>9
      <4> QED
        BY <4>2, <4>3 DEF QueuesInOrder
    <3> QED
      BY <3>1, <3>2, <3>3
  <2> QED
    BY <2>2, <2>3, <2>4
<1>21. ConflictOrder'
  <2> SUFFICES ASSUME NEW u \in Tx, NEW w \in Tx, usedObjects[u] \cap usedObjects[w] # {},
                      arrival[u] < arrival[w], Live(u)'
               PROVE  phase'[w] = "blocked"
    BY <1>2 DEF ConflictOrder
  <2>1. u # t /\ Live(u) /\ phase[w] = "blocked" /\ w # t /\ Live(w) /\ u # w
    BY <1>1, <1>6 DEF ConflictOrder, Live
  <2>2. PICK o \in Object : o \in usedObjects[u] /\ o \in usedObjects[w]
    BY <1>1
  <2>3. w \notin Woken(t)
    <3> SUFFICES ASSUME conflicts[w] \subseteq HandedOver(t, w)  PROVE FALSE
      BY DEF Woken
    <3>1. Holds(u, o) \/ Waits(u, o)
      BY <2>1, <2>2 DEF Holds, WaitsForConflicts
    <3>2. CASE o \notin conflicts[w]
      <4>1. Holds(w, o)
        BY <2>1, <2>2, <3>2 DEF Holds
      <4>2. arrival[w] < arrival[u]
        BY <2>1, <3>1, <4>1 DEF OneHolder
      <4> QED
        BY <4>2, <1>1
    <3>3. CASE o \in conflicts[w]
      <4>1. o \in usedObjects[t] /\ q(o) # <<>> /\ q(o)[1] = w
        BY <3>3, <1>10
      <4>2. Waits(u, o)
        BY <2>1, <3>1, <4>1, <1>7 DEF OneHolder
      <4>3. PICK i \in DOMAIN q(o) : q(o)[i] = u
        BY <4>2 DEF Waits
      <4>4. 1 \in DOMAIN q(o) /\ 1 < i
        BY <2>1, <4>1, <4>3, <1>8, <1>9
      <4>5. arrival[w] < arrival[u]
        BY <4>1, <4>3, <4>4 DEF QueuesInOrder
      <4> QED
        BY <4>5, <1>1
    <3> QED
      BY <3>2, <3>3
  <2> QED
    BY <2>1, <2>3, <1>5
<1> QED
  BY <1>4, <1>14, <1>15, <1>16, <1>17, <1>18, <1>20, <1>21

----------------------------------------------------------------------------
(* The invariant holds in every state of the scheduler. *)
THEOREM SchedulerInvariant == SchedulerSpec => []IInv
<1>1. SchedulerInit => IInv
  BY SchedulerInitIInv
<1>2. IInv /\ [SchedulerNext]_schedulerVars => IInv'
  <2> SUFFICES ASSUME IInv, [SchedulerNext]_schedulerVars  PROVE IInv'
    OBVIOUS
  <2>1. CASE UNCHANGED schedulerVars
    BY <2>1 DEF schedulerVars, IInv, SchedulerTypeOK, QueueInvariant, ParkedOnce, ArrivalsCounted,
                BlockedByConflicts, WaitsForConflicts, QueuesInOrder, OneHolder, Waits, Holds,
                Live, SlotsAccounted, SlotHolders, ConflictOrder
  <2>2. ASSUME NEW t \in Tx, RejectPrepare(t)  PROVE IInv'
    BY <2>2, RejectPrepareIInv
  <2>3. ASSUME NEW t \in Tx, NEW ids \in SUBSET Object, Register(t, ids)  PROVE IInv'
    BY <2>3, RegisterIInv
  <2>4. ASSUME NEW t \in Tx, NEW ready, Release(t, ready)  PROVE IInv'
    BY <2>4, ReleaseIInv
  <2>5. ASSUME NEW t \in Tx, TaskDone(t)  PROVE IInv'
    BY <2>5, TaskDoneIInv
  <2> QED
    BY <2>1, <2>2, <2>3, <2>4, <2>5 DEF SchedulerNext
<1> QED
  BY <1>1, <1>2, PTL DEF SchedulerSpec

(* The types of the scheduler's state, for any calls, objects and bound. *)
THEOREM TypeCorrect == SchedulerSpec => []SchedulerTypeOK
BY SchedulerInvariant, PTL DEF IInv

(* Queues, conflict sets and parked tasks always agree. *)
THEOREM QueuesAgree == SchedulerSpec => []QueueInvariant
BY SchedulerInvariant, PTL DEF IInv

(* No task slot is lost, and none is given out twice. *)
THEOREM NoSlotLost == SchedulerSpec => []SlotsAccounted
BY SchedulerInvariant, PTL DEF IInv

(* Calls on a common object hold it one at a time, in order of arrival. *)
THEOREM ConflictsInOrder == SchedulerSpec => []ConflictOrder
BY SchedulerInvariant, PTL DEF IInv

----------------------------------------------------------------------------
(* The status of SerializedExecution for each call. *)
Status == [t \in Tx |->
             CASE phase[t] \in {"idle", "rejected"} -> "idle"
               [] phase[t] \in {"blocked", "queued"} -> "waiting"
               [] phase[t] = "running" -> "running"
               [] phase[t] \in {"released", "done"} -> "finished"]

(* Which phases have which status, before and after a step. *)
LEMMA StatusOf ==
  ASSUME phase \in [Tx -> Phases]
  PROVE  \A t \in Tx :
           /\ phase[t] \in {"idle", "rejected"} => Status[t] = "idle"
           /\ phase[t] \in {"blocked", "queued"} => Status[t] = "waiting"
           /\ phase[t] = "running" => Status[t] = "running"
           /\ phase[t] \in {"released", "done"} => Status[t] = "finished"
BY DEF Status, Phases

(* The same, after a step. *)
LEMMA StatusAfter ==
  ASSUME phase' \in [Tx -> Phases]
  PROVE  \A t \in Tx :
           /\ phase'[t] \in {"idle", "rejected"} => Status'[t] = "idle"
           /\ phase'[t] \in {"blocked", "queued"} => Status'[t] = "waiting"
           /\ phase'[t] = "running" => Status'[t] = "running"
           /\ phase'[t] \in {"released", "done"} => Status'[t] = "finished"
BY DEF Status, Phases

(* A position is the number of calls that registered so far. *)
Registered == {t \in Tx : arrival[t] > 0}

PositionsCounted == arrivals = Cardinality(Registered)

(* The promise counts sets as this module does. *)
LEMMA PromiseCardinality == \A S : Promise!Cardinality(S) = Cardinality(S)
BY DEF Promise!Cardinality, Cardinality

(* SomeStart of the promise, over the phases of the calls. *)
SomeStart(s) ==
  \E S \in SUBSET {t \in Tx : s[t] = "waiting"} :
    /\ \A u \in S, t \in Tx :
         arrival'[t] < arrival'[u] /\ usedObjects'[t] \cap usedObjects'[u] # {}
           => s[t] \notin {"waiting", "running"}
    /\ Promise!Cardinality(S) + Promise!Cardinality({t \in Tx : s[t] = "running"}) <= MaxPoolSize
    /\ Status' = [t \in Tx |-> IF t \in S THEN "running" ELSE s[t]]

(* What the scheduler starts, the promise lets start: no earlier call on a *)
(* common object is alive, and the slots suffice.                          *)
LEMMA StartsAllowed ==
  ASSUME IInv', NEW s \in [Tx -> {"idle", "waiting", "running", "finished"}],
         \A u \in Tx : s[u] = Status'[u] \/ (s[u] = "waiting" /\ phase'[u] = "running")
  PROVE  SomeStart(s)
<1> DEFINE S == {u \in Tx : s[u] = "waiting" /\ phase'[u] = "running"}
           R == {u \in Tx : s[u] = "running"}
<1>1. /\ phase' \in [Tx -> Phases] /\ ConflictOrder' /\ SlotsAccounted'
      /\ activeTasks' \in 0 .. MaxPoolSize
  BY DEF IInv, SchedulerTypeOK
<1>2. \A u \in Tx :
        /\ Status'[u] \in {"waiting", "running"} => Live(u)'
        /\ Status'[u] = "running" <=> phase'[u] = "running"
        /\ Status'[u] = "waiting" => phase'[u] # "running"
  BY <1>1, StatusAfter DEF Live, Phases
<1>3. S \in SUBSET {u \in Tx : s[u] = "waiting"}
  OBVIOUS
<1>4. ASSUME NEW u \in S, NEW t \in Tx, arrival'[t] < arrival'[u],
             usedObjects'[t] \cap usedObjects'[u] # {}
      PROVE  s[t] \notin {"waiting", "running"}
  <2>1. ~Live(t)'
    BY <1>1, <1>4 DEF ConflictOrder
  <2> QED
    BY <2>1, <1>2 DEF Live
<1>5. Cardinality(S) + Cardinality(R) <= MaxPoolSize
  <2>1. S \subseteq SlotHolders' /\ R \subseteq SlotHolders' /\ S \cap R = {}
    BY <1>2 DEF SlotHolders
  <2>2. IsFiniteSet(SlotHolders') /\ Cardinality(SlotHolders') = activeTasks'
    BY <1>1, SchedulerAssumption, FS_Subset DEF SlotHolders, SlotsAccounted
  <2>3. IsFiniteSet(S) /\ IsFiniteSet(R)
    BY <2>1, <2>2, FS_Subset
  <2>4. /\ Cardinality(S \cup R) = Cardinality(S) + Cardinality(R) - Cardinality({})
        /\ Cardinality({}) = 0
    BY <2>1, <2>3, FS_Union, FS_EmptySet
  <2>5. Cardinality(S \cup R) <= activeTasks'
    BY <2>1, <2>2, FS_Subset
  <2>6. Cardinality(S) \in Nat /\ Cardinality(R) \in Nat
    BY <2>3, FS_CardinalityType
  <2> HIDE DEF S, R
  <2> QED
    BY <2>4, <2>5, <2>6, <1>1, SchedulerAssumption
<1>6. Status' = [u \in Tx |-> IF u \in S THEN "running" ELSE s[u]]
  <2>1. \A u \in Tx : Status'[u] = IF u \in S THEN "running" ELSE s[u]
    BY <1>2
  <2>2. Status' = [u \in Tx |-> Status'[u]]
    BY DEF Status
  <2> QED
    BY <2>1, <2>2
<1> HIDE DEF S, R
<1> QED
  <2>1. Promise!Cardinality(S) + Promise!Cardinality({u \in Tx : s[u] = "running"}) <= MaxPoolSize
    BY <1>5, PromiseCardinality DEF R
  <2> QED
    BY <1>3, <1>4, <1>6, <2>1, Zenon DEF SomeStart

(* What SerializedExecution says a call may be. *)
Statuses == {"idle", "waiting", "running", "finished"}

(* A call that registers arrives: it starts at once, or waits. *)
LEMMA RegisterArrives ==
  ASSUME IInv, IInv', PositionsCounted, NEW t \in Tx, NEW ids \in SUBSET Object, Register(t, ids)
  PROVE  Promise!Arrive(t) /\ PositionsCounted'
<1> DEFINE held == ids \cap queueIds
           ready == IF held = {} THEN <<t>> ELSE <<>>
           settled == [phase EXCEPT ![t] = "blocked"]
           s == [Status EXCEPT ![t] = "waiting"]
<1>1. /\ phase \in [Tx -> Phases] /\ phase[t] = "idle" /\ arrivals \in Nat
      /\ arrival \in [Tx -> Nat] /\ phase' \in [Tx -> Phases] /\ arrival[t] = 0
      /\ activeTasks \in 0 .. MaxPoolSize /\ ArrivalsCounted
  BY DEF IInv, SchedulerTypeOK, Register, QueueInvariant, ArrivalsCounted
<1>2. /\ usedObjects' = [usedObjects EXCEPT ![t] = ids]
      /\ arrivals' = arrivals + 1
      /\ arrival' = [arrival EXCEPT ![t] = arrivals + 1]
      /\ RunTasks(ready, settled)
  BY DEF Register
<1>3. /\ ready \in Seq(Tx) /\ IsInjective(ready) /\ ToSet(ready) \subseteq {t}
  BY DEF IsInjective, ToSet
<1>4. settled \in [Tx -> Phases] /\ settled[t] = "blocked" /\ \A u \in Tx \ {t} : settled[u] = phase[u]
  BY <1>1 DEF Phases
<1>5. /\ phase'[t] \in {"blocked", "queued", "running"}
      /\ \A u \in Tx \ {t} : phase'[u] = phase[u]
  <2> HIDE DEF ready, settled
  <2>1. /\ \A u \in ToSet(ready) : phase'[u] \in {"queued", "running"}
        /\ \A u \in Tx \ ToSet(ready) : phase'[u] = settled[u]
    BY <1>1, <1>2, <1>3, <1>4, SchedulerAssumption, RunTasksPhases
  <2> QED
    BY <2>1, <1>3, <1>4
<1>6. Status \in [Tx -> Statuses] /\ Status[t] = "idle"
  BY <1>1, StatusOf DEF Status, Phases, Statuses
<1>7. s \in [Tx -> Statuses] /\ s[t] = "waiting" /\ \A u \in Tx \ {t} : s[u] = Status[u]
  BY <1>6 DEF Statuses
<1>8. \A u \in Tx : s[u] = Status'[u] \/ (s[u] = "waiting" /\ phase'[u] = "running")
  <2>1. \A u \in Tx \ {t} : Status'[u] = Status[u]
    BY <1>1, <1>5, StatusOf, StatusAfter DEF Phases
  <2>2. Status'[t] = "waiting" \/ phase'[t] = "running"
    BY <1>1, <1>5, StatusAfter
  <2> QED
    BY <2>1, <2>2, <1>7
<1> HIDE DEF s
<1>9. PICK c \in [Tx -> Statuses] : c = s
  BY <1>7
<1>10. SomeStart(s)
  <2>1. SomeStart(c)
    BY <1>8, <1>9, StartsAllowed DEF Statuses
  <2> QED
    BY <2>1, <1>9 DEF SomeStart
<1>13. arrival' = [arrival EXCEPT ![t] = 1 + Cardinality(Registered)]
  <2>1. arrivals + 1 = 1 + Cardinality(Registered)
    BY <1>1 DEF PositionsCounted
  <2> QED
    BY <2>1, <1>2
<1>11. PositionsCounted'
  <2>1. t \notin Registered /\ IsFiniteSet(Registered)
    BY <1>1, SchedulerAssumption, FS_Subset DEF Registered
  <2>2. Registered' = Registered \cup {t}
    BY <1>1, <1>2 DEF Registered
  <2>3. Cardinality(Registered \cup {t}) = Cardinality(Registered) + 1
    BY <2>1, FS_AddElement
  <2> QED
    BY <2>2, <2>3, <1>2 DEF PositionsCounted
<1>12. Promise!Arrive(t)
  <2>2. Promise!Cardinality({u \in Tx : arrival[u] > 0}) = Cardinality(Registered)
    BY PromiseCardinality DEF Registered
  <2>3. arrival' = [arrival EXCEPT ![t] = 1 + Promise!Cardinality({u \in Tx : arrival[u] > 0})]
    BY <1>13, <2>2, Zenon
  <2>4. \E i \in SUBSET Object : usedObjects' = [usedObjects EXCEPT ![t] = i]
    BY <1>2
  <2>5. [u \in Tx |->
             CASE phase[u] \in {"idle", "rejected"} -> "idle"
               [] phase[u] \in {"blocked", "queued"} -> "waiting"
               [] phase[u] = "running" -> "running"
               [] phase[u] \in {"released", "done"} -> "finished"][t] = "idle"
    BY <1>6 DEF Status
  <2> QED
    BY <1>10, <2>3, <2>4, <2>5, Zenon DEF Promise!Arrive, Promise!SomeStart, SomeStart, s, Status
<1> QED
  BY <1>11, <1>12

(* A call whose finally block ran finishes, and those it wakes may start. *)
LEMMA ReleaseFinishes ==
  ASSUME IInv, IInv', NEW t \in Tx, NEW ready, Release(t, ready)
  PROVE  Promise!Finish(t)
<1> DEFINE settled == [phase EXCEPT ![t] = "released"]
           s == [Status EXCEPT ![t] = "finished"]
<1>1. /\ phase \in [Tx -> Phases] /\ phase[t] = "running" /\ phase' \in [Tx -> Phases]
      /\ activeTasks \in 0 .. MaxPoolSize
      /\ ready \in SetToSeqs(Woken(t)) /\ RunTasks(ready, settled)
      /\ UNCHANGED <<usedObjects, arrival>>
  BY DEF IInv, SchedulerTypeOK, Release
<1>2. ready \in Seq(Tx) /\ IsInjective(ready) /\ \A u \in ToSet(ready) : phase[u] = "blocked"
  <2>1. IsFiniteSet(Woken(t)) /\ Woken(t) \subseteq Tx /\ \A u \in Woken(t) : phase[u] = "blocked"
    BY SchedulerAssumption, FS_Subset DEF Woken
  <2>2. ready \in Seq(Woken(t)) /\ ToSet(ready) = Woken(t) /\ IsInjective(ready)
    BY <2>1, <1>1, SetToSeqsLists
  <2> QED
    BY <2>1, <2>2
<1>3. settled \in [Tx -> Phases] /\ settled[t] = "released" /\ \A u \in Tx \ {t} : settled[u] = phase[u]
  BY <1>1 DEF Phases
<1>4. /\ phase'[t] = "released"
      /\ \A u \in Tx \ {t} : \/ phase'[u] = phase[u]
                             \/ phase[u] = "blocked" /\ phase'[u] \in {"queued", "running"}
  <2> HIDE DEF settled
  <2>1. /\ \A u \in ToSet(ready) : phase'[u] \in {"queued", "running"}
        /\ \A u \in Tx \ ToSet(ready) : phase'[u] = settled[u]
    BY <1>1, <1>2, <1>3, SchedulerAssumption, RunTasksPhases
  <2> QED
    BY <2>1, <1>1, <1>2, <1>3
<1>5. Status \in [Tx -> Statuses] /\ Status[t] = "running"
  BY <1>1, StatusOf DEF Status, Phases, Statuses
<1>6. s \in [Tx -> Statuses] /\ s[t] = "finished" /\ \A u \in Tx \ {t} : s[u] = Status[u]
  BY <1>5 DEF Statuses
<1>7. \A u \in Tx : s[u] = Status'[u] \/ (s[u] = "waiting" /\ phase'[u] = "running")
  <2>1. ASSUME NEW u \in Tx \ {t}
        PROVE  Status'[u] = Status[u] \/ (Status[u] = "waiting" /\ phase'[u] = "running")
    BY <1>1, <1>4, StatusOf, StatusAfter DEF Phases
  <2>2. Status'[t] = "finished"
    BY <1>1, <1>4, StatusAfter
  <2> QED
    BY <2>1, <2>2, <1>6
<1> HIDE DEF s
<1>8. SomeStart(s)
  <2>1. PICK c \in [Tx -> Statuses] : c = s
    BY <1>6
  <2>2. SomeStart(c)
    BY <1>7, <2>1, StartsAllowed DEF Statuses
  <2> QED
    BY <2>1, <2>2 DEF SomeStart
<1>9. [u \in Tx |->
         CASE phase[u] \in {"idle", "rejected"} -> "idle"
           [] phase[u] \in {"blocked", "queued"} -> "waiting"
           [] phase[u] = "running" -> "running"
           [] phase[u] \in {"released", "done"} -> "finished"][t] = "running"
  BY <1>5 DEF Status
<1>10. UNCHANGED <<usedObjects, arrival>>
  BY <1>1
<1> QED
  BY <1>8, <1>9, <1>10, Zenon DEF Promise!Finish, Promise!SomeStart, SomeStart, s, Status

(* The slot of a settled task goes to a call that may start. *)
LEMMA TaskDoneStartsLater ==
  ASSUME IInv, IInv', NEW t \in Tx, TaskDone(t)
  PROVE  Promise!StartLater
<1>1. /\ phase \in [Tx -> Phases] /\ phase[t] = "released" /\ phase' \in [Tx -> Phases]
      /\ executeQueue \in Seq(Tx) /\ ParkedOnce
  BY DEF IInv, SchedulerTypeOK, TaskDone, QueueInvariant
<1>2. /\ phase'[t] = "done"
      /\ \A u \in Tx \ {t} : \/ phase'[u] = phase[u]
                             \/ phase[u] = "queued" /\ phase'[u] = "running"
  <2>1. CASE executeQueue = <<>>
    BY <1>1, <2>1 DEF TaskDone
  <2>2. CASE executeQueue # <<>>
    <3>1. Head(executeQueue) = executeQueue[1] /\ 1 \in DOMAIN executeQueue
      BY <2>2, <1>1, EmptySeq, LenProperties
    <3>2. phase[Head(executeQueue)] = "queued" /\ Head(executeQueue) \in Tx
      BY <3>1, <1>1, ElementOfSeq, LenProperties DEF ParkedOnce, ToSet
    <3> QED
      BY <2>2, <3>2, <1>1 DEF TaskDone
  <2> QED
    BY <2>1, <2>2
<1>3. Status \in [Tx -> Statuses]
  BY <1>1, StatusOf DEF Status, Phases, Statuses
<1>4. \A u \in Tx : Status[u] = Status'[u] \/ (Status[u] = "waiting" /\ phase'[u] = "running")
  <2>1. ASSUME NEW u \in Tx \ {t}
        PROVE  Status'[u] = Status[u] \/ (Status[u] = "waiting" /\ phase'[u] = "running")
    BY <1>1, <1>2, StatusOf, StatusAfter DEF Phases
  <2>2. Status'[t] = Status[t]
    BY <1>1, <1>2, StatusOf, StatusAfter
  <2> QED
    BY <2>1, <2>2
<1>5. SomeStart(Status)
  <2>1. PICK c \in [Tx -> Statuses] : c = Status
    BY <1>3
  <2>2. SomeStart(c)
    BY <1>4, <2>1, StartsAllowed DEF Statuses
  <2> QED
    BY <2>1, <2>2 DEF SomeStart
<1>6. UNCHANGED <<usedObjects, arrival>>
  BY DEF TaskDone
<1> QED
  BY <1>5, <1>6, Zenon DEF Promise!StartLater, Promise!SomeStart, SomeStart, Status

(* A call that is rejected never arrived. *)
LEMMA StutterKeepsPromise ==
  ASSUME phase \in [Tx -> Phases], phase' \in [Tx -> Phases], UNCHANGED <<usedObjects, arrival>>,
         \A u \in Tx : phase'[u] = phase[u] \/ {phase[u], phase'[u]} = {"idle", "rejected"}
  PROVE  UNCHANGED Promise!avars
<1>1. \A u \in Tx : Status'[u] = Status[u]
  BY StatusOf, StatusAfter DEF Phases
<1>2. Status' = Status
  BY <1>1 DEF Status
<1> QED
  BY <1>2, Zenon DEF Promise!avars, Status

(* The promise starts where the scheduler starts. *)
LEMMA InitKeepsPromise == SchedulerInit => Promise!Init /\ PositionsCounted
<1> SUFFICES ASSUME SchedulerInit PROVE Promise!Init /\ PositionsCounted
  OBVIOUS
<1>1. Promise!Init
  BY DEF SchedulerInit, Promise!Init
<1>2. Registered = {}
  BY DEF SchedulerInit, Registered
<1> QED
  BY <1>1, <1>2, FS_EmptySet DEF SchedulerInit, PositionsCounted

(* Queues, conflict sets and task slots start the same calls in the same   *)
(* order as the executor of SerializedExecution, which has no queue.       *)
THEOREM KeepsPromise == SchedulerSpec => ImplementsSerializedExecution
<1>1. SchedulerInit => Promise!Init /\ PositionsCounted
  BY InitKeepsPromise
<1>2. IInv /\ IInv' /\ PositionsCounted /\ [SchedulerNext]_schedulerVars
        => PositionsCounted' /\ [Promise!Next]_(Promise!avars)
  <2> SUFFICES ASSUME IInv, IInv', PositionsCounted, [SchedulerNext]_schedulerVars
               PROVE  PositionsCounted' /\ [Promise!Next]_(Promise!avars)
    OBVIOUS
  <2> DEFINE Goal == PositionsCounted' /\ [Promise!Next]_(Promise!avars)
  <2>1. phase \in [Tx -> Phases] /\ phase' \in [Tx -> Phases]
    BY DEF IInv, SchedulerTypeOK
  <2>2. ASSUME UNCHANGED <<arrival, arrivals>>  PROVE PositionsCounted'
    BY <2>2 DEF PositionsCounted, Registered
  <2>3. CASE UNCHANGED schedulerVars
    BY <2>1, <2>2, <2>3, StutterKeepsPromise DEF schedulerVars
  <2>4. ASSUME NEW t \in Tx, RejectPrepare(t)  PROVE Goal
    <3>1. UNCHANGED Promise!avars
      BY <2>1, <2>4, StutterKeepsPromise DEF RejectPrepare
    <3> QED
      BY <2>2, <2>4, <3>1 DEF RejectPrepare
  <2>5. ASSUME NEW t \in Tx, NEW ids \in SUBSET Object, Register(t, ids)  PROVE Goal
    BY <2>5, RegisterArrives DEF Promise!Next
  <2>6. ASSUME NEW t \in Tx, NEW ready, Release(t, ready)  PROVE Goal
    <3>1. Promise!Finish(t)
      BY <2>6, ReleaseFinishes
    <3> QED
      BY <2>2, <2>6, <3>1 DEF Promise!Next, Release
  <2>7. ASSUME NEW t \in Tx, TaskDone(t)  PROVE Goal
    <3>1. Promise!StartLater
      BY <2>7, TaskDoneStartsLater
    <3> QED
      BY <2>2, <2>7, <3>1 DEF Promise!Next, TaskDone
  <2> QED
    BY <2>3, <2>4, <2>5, <2>6, <2>7 DEF SchedulerNext
<1> QED
  BY <1>1, <1>2, SchedulerInvariant, PTL DEF SchedulerSpec, ImplementsSerializedExecution, Promise!Spec

(***************************************************************************)
(* The gas coins and the chain                                             *)
(***************************************************************************)

(* Every step of the executor is a step of the scheduler or leaves it      *)
(* alone, whatever fails and whatever the chain does.                      *)
THEOREM ImplementsScheduler == Spec => SchedulerSpec
<1>1. Init => SchedulerInit
  BY DEF Init
<1>2. [Next]_vars => [SchedulerNext]_schedulerVars
  <2> SUFFICES ASSUME [Next]_vars  PROVE SchedulerNext \/ UNCHANGED schedulerVars
    OBVIOUS
  <2>1. CASE UNCHANGED vars
    BY <2>1 DEF vars, schedulerVars
  <2>2. ASSUME NEW t \in Tx, PrepareFails(t)  PROVE SchedulerNext
    BY <2>2 DEF PrepareFails, SchedulerNext
  <2>3. ASSUME NEW t \in Tx, NEW ids \in SUBSET Object, ExecuteTransaction(t, ids)
        PROVE  SchedulerNext
    BY <2>3 DEF ExecuteTransaction, SchedulerNext
  <2>4. ASSUME NEW t \in Tx, NEW ready \in SetToSeqs(Woken(t)),
               Finish(t, ready) \/ Rethrow(t, ready)
        PROVE  SchedulerNext
    BY <2>4 DEF Finish, Rethrow, Leave, SchedulerNext
  <2>5. ASSUME NEW t \in Tx, SlotFreed(t)  PROVE SchedulerNext
    BY <2>5 DEF SlotFreed, SchedulerNext
  <2>6. ASSUME NEW t \in Tx,
               \/ TakeCoin(t) \/ StartRefill(t) \/ SourceCoinsFetched(t) \/ SubmitRefill(t)
               \/ RefillExecuted(t) \/ BuildTaskDone(t) \/ BuildTaskFails(t)
               \/ Submit(t) \/ Catch(t) \/ ChainStep(t)
        PROVE  UNCHANGED schedulerVars
    BY <2>6 DEF TakeCoin, StartRefill, SourceCoinsFetched, SubmitRefill, RefillExecuted,
                BuildTaskDone, BuildTaskFails, Submit, Catch, ChainStep, ChainExecutesUser, ChainExecutesRefill
  <2> QED
    BY <2>1, <2>2, <2>3, <2>4, <2>5, <2>6 DEF Next, RunsOn
<1> QED
  BY <1>1, <1>2, PTL DEF Spec, SchedulerSpec

(* Transactions that use a common object never run together, and run in    *)
(* the order in which they were given, also when refills and transactions  *)
(* fail.                                                                   *)
THEOREM ExecutorKeepsOrder == Spec => []ConflictOrder
BY ImplementsScheduler, ConflictsInOrder, PTL

(* The executor starts the same calls in the same order as one that has no *)
(* queue: neither the gas coins nor the build queue starts a call early.   *)
THEOREM ExecutorKeepsPromise == Spec => ImplementsSerializedExecution
BY ImplementsScheduler, KeepsPromise, PTL

----------------------------------------------------------------------------
(* The coin pool. *)

PoolTypes ==
  /\ pc \in [Tx -> Awaits]
  /\ buildQueue \in Seq(Tx)
  /\ gasCoin \in [Tx -> Refs \cup {NoCoin}]
  /\ coinPool \in Seq(Refs)
  /\ pendingTransactions \in Int
  /\ batchSize \in [Tx -> Nat]
  /\ version \in [Coin -> Nat]
  /\ minted \in [Tx -> SUBSET Coin]

Settling == {"running", "released", "done"}

(* Where a call is, and whether it has a coin. *)
Stages ==
  \A t \in Tx :
    /\ pc[t] # "none" <=> phase[t] = "running"
    /\ gasCoin[t] # NoCoin => phase[t] \in Settling
    /\ pc[t] \in Building \ {"build"} => gasCoin[t] = NoCoin
    /\ pc[t] \in {"build", "sign", "submit"} => gasCoin[t] # NoCoin

(* The build queue holds each call that builds once, and only the call at  *)
(* its head is past the start.                                             *)
OneBuild ==
  /\ IsInjective(buildQueue)
  /\ ToSet(buildQueue) = {t \in Tx : pc[t] \in Building}
  /\ \A i \in DOMAIN buildQueue : i # 1 => pc[buildQueue[i]] = "start"

(* A call that has not submitted a refill has none executed. *)
RefillsFollow ==
  \A t \in Tx :
    /\ phase[t] \notin Settling \/ pc[t] \in {"start", "fetch", "unpaid"}
         => minted[t] = {} /\ <<t, "refill">> \notin inFlight
    /\ IsFiniteSet(minted[t])
    /\ Cardinality(minted[t]) <= batchSize[t]

(* The calls that took a coin and have not left. *)
Takers == {t \in Tx : phase[t] = "running" /\ gasCoin[t] # NoCoin}

PendingCounts == pendingTransactions = Cardinality(Takers) - Cardinality(FailedEarly)

(* A refill under way was sized for the coins in use by now. *)
RefillFits ==
  \A t \in Tx : pc[t] \in {"fetch", "unpaid", "refill"} =>
    CoinsInUse + batchSize[t] <= MaxPoolSize + 1 + Cardinality(FailedEarly)

(* The inductive invariant of the pool: PoolBound alone is not one, for a  *)
(* refill has to know that what it was sized for is still so.              *)
PoolInv ==
  /\ PoolTypes
  /\ Stages
  /\ OneBuild
  /\ RefillsFollow
  /\ PendingCounts
  /\ PoolBound
  /\ RefillFits

----------------------------------------------------------------------------
(* Sequences, sets and minima.                                             *)

(* Min of a set of naturals is its least member. *)
LEMMA MinOfNaturals ==
  ASSUME NEW S \in SUBSET Nat, S # {}
  PROVE  Min(S) \in S /\ \A y \in S : Min(S) <= y
<1> DEFINE T == {0 .. x - 1 : x \in S}
           R == StrictSubsetOrdering(Nat)
<1>1. T \subseteq FiniteSubsetsOf(Nat) /\ T # {}
  <2>1. \A x \in S : 0 .. x - 1 \subseteq Nat /\ IsFiniteSet(0 .. x - 1)
    BY FS_Interval
  <2> QED
    BY <2>1 DEF FiniteSubsetsOf
<1>2. IsWellFoundedOn(R, FiniteSubsetsOf(Nat))
  BY FS_StrictSubsetOrderingWellFounded
<1>3. \E I \in T : \A J \in T : <<J, I>> \notin R
  BY <1>1, <1>2, WFMin
<1>4. PICK x \in S : \A y \in S : <<0 .. y - 1, 0 .. x - 1>> \notin R
  BY <1>3
<1>5. ASSUME NEW y \in S, y < x  PROVE FALSE
  <2>1. 0 .. y - 1 \subseteq 0 .. x - 1 /\ y \in 0 .. x - 1 /\ y \notin 0 .. y - 1
    BY <1>5
  <2>2. 0 .. y - 1 \in SUBSET Nat /\ 0 .. x - 1 \in SUBSET Nat
    BY <1>1
  <2> QED
    BY <1>4, <2>1, <2>2 DEF StrictSubsetOrdering
<1>6. \A y \in S : x =< y
  BY <1>5
<1> QED
  BY <1>6 DEF Min

(* The lesser of two numbers. *)
LEMMA MinOfTwo ==
  ASSUME NEW a \in Nat, NEW b \in Nat
  PROVE  Min({a, b}) \in Nat /\ Min({a, b}) <= a /\ Min({a, b}) <= b
BY MinOfNaturals

(* The tasks of `ready' that start are some of `ready', each once. *)
LEMMA StartedSome ==
  ASSUME NEW ready \in Seq(Tx), IsInjective(ready),
         MaxPoolSize \in Nat, activeTasks \in 0 .. MaxPoolSize
  PROVE  /\ Started(ready) \in Seq(Tx)
         /\ IsInjective(Started(ready))
         /\ ToSet(Started(ready)) \subseteq ToSet(ready)
<1> DEFINE k == FreeSlots(ready)
           n == Len(ready)
<1>1. n \in Nat /\ DOMAIN ready = 1 .. n /\ ready \in [1 .. n -> Tx]
  BY LenProperties
<1>2. k \in 0 .. n
  BY <1>1 DEF FreeSlots
<1>3. Started(ready) = SubSeq(ready, 1, k)
  BY DEF Started
<1> HIDE DEF k, n
<1>4. /\ SubSeq(ready, 1, k) \in Seq(Tx) /\ Len(SubSeq(ready, 1, k)) = k
      /\ \A i \in 1 .. k : SubSeq(ready, 1, k)[i] = ready[i]
  <2>1. \A i \in 1 .. k : ready[i] \in Tx
    BY <1>1, <1>2
  <2> QED
    BY <1>1, <1>2, <2>1, SubSeqProperties
<1>5. DOMAIN Started(ready) = 1 .. k /\ \A i \in 1 .. k : i \in DOMAIN ready
  BY <1>1, <1>2, <1>3, <1>4, LenProperties
<1> QED
  BY <1>3, <1>4, <1>5 DEF IsInjective, ToSet

(* Joining a queue of others at the end. *)
LEMMA ConcatApart ==
  ASSUME NEW S, NEW q \in Seq(S), NEW s \in Seq(S), IsInjective(q), IsInjective(s),
         ToSet(q) \cap ToSet(s) = {}
  PROVE  /\ q \o s \in Seq(S)
         /\ IsInjective(q \o s)
         /\ ToSet(q \o s) = ToSet(q) \cup ToSet(s)
         /\ \A i \in DOMAIN (q \o s) :
              \/ i \in DOMAIN q /\ (q \o s)[i] = q[i]
              \/ (q \o s)[i] \in ToSet(s)
<1> DEFINE m == Len(q)
           n == Len(s)
           r == q \o s
<1>1. /\ m \in Nat /\ n \in Nat /\ DOMAIN q = 1 .. m /\ DOMAIN s = 1 .. n
  BY LenProperties
<1>2. /\ r \in Seq(S) /\ Len(r) = m + n
      /\ \A i \in 1 .. m + n : r[i] = IF i <= m THEN q[i] ELSE s[i - m]
  BY ConcatProperties
<1>3. DOMAIN r = 1 .. m + n
  BY <1>2, LenProperties
<1> HIDE DEF m, n, r
<1>4. \A i \in 1 .. m : i \in DOMAIN r /\ r[i] = q[i] /\ q[i] \in ToSet(q)
  <2>1. \A i \in 1 .. m : i \in 1 .. m + n /\ i <= m
    BY <1>1
  <2>2. \A i \in 1 .. m : q[i] \in ToSet(q)
    BY <1>1 DEF ToSet
  <2> QED
    BY <1>2, <1>3, <2>1, <2>2
<1>5. \A i \in m + 1 .. m + n : /\ i \in DOMAIN r /\ i - m \in 1 .. n
                                /\ r[i] = s[i - m] /\ s[i - m] \in ToSet(s)
  <2>1. \A i \in m + 1 .. m + n : i \in 1 .. m + n /\ i - m \in 1 .. n /\ ~(i <= m)
    BY <1>1
  <2>2. \A j \in 1 .. n : s[j] \in ToSet(s)
    BY <1>1 DEF ToSet
  <2> QED
    BY <1>2, <1>3, <2>1, <2>2
<1>6. DOMAIN r = 1 .. m \cup m + 1 .. m + n
  BY <1>1, <1>3
<1>7. IsInjective(r)
  <2> SUFFICES ASSUME NEW i \in DOMAIN r, NEW j \in DOMAIN r, r[i] = r[j]  PROVE i = j
    BY DEF IsInjective
  <2>1. CASE i \in 1 .. m /\ j \in 1 .. m
    BY <2>1, <1>1, <1>4 DEF IsInjective
  <2>2. CASE i \in m + 1 .. m + n /\ j \in m + 1 .. m + n
    <3>1. i - m = j - m
      BY <2>2, <1>1, <1>5 DEF IsInjective
    <3> QED
      BY <3>1, <2>2, <1>1
  <2> QED
    BY <1>4, <1>5, <1>6, <2>1, <2>2
<1>8. \A j \in 1 .. n : m + j \in m + 1 .. m + n /\ (m + j) - m = j
  BY <1>1
<1>9. ToSet(r) = ToSet(q) \cup ToSet(s)
  <2>1. ToSet(r) \subseteq ToSet(q) \cup ToSet(s)
    BY <1>4, <1>5, <1>6 DEF ToSet
  <2>2. ToSet(q) \subseteq ToSet(r)
    BY <1>1, <1>4 DEF ToSet
  <2>3. \A j \in 1 .. n : s[j] = r[m + j] /\ m + j \in DOMAIN r
    BY <1>5, <1>8
  <2>4. ToSet(s) \subseteq ToSet(r)
    BY <1>1, <2>3 DEF ToSet
  <2> QED
    BY <2>1, <2>2, <2>4
<1> QED
  BY <1>1, <1>2, <1>4, <1>5, <1>6, <1>7, <1>9 DEF r

(* Leaving a queue at its head. *)
LEMMA TailApart ==
  ASSUME NEW S, NEW q \in Seq(S), IsInjective(q), q # <<>>
  PROVE  /\ Tail(q) \in Seq(S)
         /\ IsInjective(Tail(q))
         /\ ToSet(Tail(q)) = ToSet(q) \ {Head(q)}
         /\ \A i \in DOMAIN Tail(q) : i + 1 \in DOMAIN q /\ i + 1 # 1 /\ Tail(q)[i] = q[i + 1]
         /\ 1 \in DOMAIN q /\ Head(q) = q[1]
<1> DEFINE m == Len(q)
<1>1. m \in Nat \ {0} /\ DOMAIN q = 1 .. m /\ Head(q) = q[1]
  BY LenProperties, EmptySeq
<1>2. /\ Tail(q) \in Seq(S) /\ DOMAIN Tail(q) = 1 .. m - 1
      /\ \A i \in 1 .. m - 1 : Tail(q)[i] = q[i + 1]
  BY <1>1, HeadTailProperties, LenProperties
<1> HIDE DEF m
<1>3. \A i \in 1 .. m - 1 : i + 1 \in 1 .. m /\ i + 1 # 1
  BY <1>1
<1>4. IsInjective(Tail(q))
  BY <1>1, <1>2, <1>3 DEF IsInjective
<1>5. \A i \in 1 .. m - 1 : Tail(q)[i] # q[1]
  BY <1>1, <1>2, <1>3 DEF IsInjective
<1>6. \A i \in 1 .. m : i # 1 => i - 1 \in 1 .. m - 1 /\ (i - 1) + 1 = i
  BY <1>1
<1>7. \A i \in 1 .. m : i # 1 => q[i] = Tail(q)[i - 1]
  BY <1>2, <1>6
<1>8. ToSet(Tail(q)) \subseteq ToSet(q) \ {q[1]}
  BY <1>1, <1>2, <1>3, <1>5 DEF ToSet
<1>9. ToSet(q) \ {q[1]} \subseteq ToSet(Tail(q))
  <2> SUFFICES ASSUME NEW i \in 1 .. m, q[i] # q[1]
               PROVE  q[i] \in ToSet(Tail(q))
    BY <1>1 DEF ToSet
  <2>1. i - 1 \in 1 .. m - 1 /\ Tail(q)[i - 1] = q[i]
    BY <1>6, <1>7
  <2> QED
    BY <1>2, <2>1 DEF ToSet
<1> QED
  BY <1>1, <1>2, <1>3, <1>4, <1>8, <1>9

(* SetToSeq lists a finite set without repetition. *)
LEMMA SetToSeqLists ==
  ASSUME NEW S, IsFiniteSet(S)
  PROVE  /\ SetToSeq(S) \in Seq(S)
         /\ Len(SetToSeq(S)) = Cardinality(S)
         /\ IsInjective(SetToSeq(S))
<1> DEFINE n == Cardinality(S)
<1>1. n \in Nat /\ ExistsBijection(1 .. n, S)
  BY FS_CardinalityType
<1>2. \E f \in [1 .. n -> S] : IsInjective(f)
  BY <1>1 DEF ExistsBijection, Bijection, Injection, IsInjective
<1>3. SetToSeq(S) \in [1 .. n -> S] /\ IsInjective(SetToSeq(S))
  BY <1>2 DEF SetToSeq
<1> QED
  BY <1>1, <1>3

(* FS_Subset and the like, for subsets of Tx. *)
LEMMA SomeCalls ==
  ASSUME NEW S \in SUBSET Tx
  PROVE  IsFiniteSet(S) /\ Cardinality(S) \in Nat
BY SchedulerAssumption, FS_Subset, FS_CardinalityType

(* A call more in a set. *)
LEMMA OneCallMore ==
  ASSUME NEW S \in SUBSET Tx, NEW t \in Tx, t \notin S
  PROVE  Cardinality(S \cup {t}) = Cardinality(S) + 1
BY SomeCalls, FS_AddElement

(* A call less in a set. *)
LEMMA OneCallLess ==
  ASSUME NEW S \in SUBSET Tx, NEW t \in Tx
  PROVE  Cardinality(S \ {t}) = IF t \in S THEN Cardinality(S) - 1 ELSE Cardinality(S)
BY SomeCalls, FS_RemoveElement

(* A subset has no more calls. *)
LEMMA FewerCalls ==
  ASSUME NEW S \in SUBSET Tx, NEW T \in SUBSET S
  PROVE  Cardinality(T) <= Cardinality(S)
BY SomeCalls, FS_Subset

----------------------------------------------------------------------------
(* What the steps of the scheduler do to the pool.                         *)

(* `gone' leave, `started' enter the build queue. *)
LEMMA EnterBuildKeeps ==
  ASSUME PoolTypes, Stages, OneBuild, RefillsFollow,
         phase \in [Tx -> Phases], phase' \in [Tx -> Phases],
         NEW started \in Seq(Tx), IsInjective(started),
         NEW gone \in SUBSET Tx, NEW others \in [Tx -> Awaits],
         \A u \in Tx : others[u] = IF u \in gone THEN "none" ELSE pc[u],
         \A u \in gone : phase[u] = "running" /\ pc[u] \notin Building,
         \A u \in ToSet(started) : phase[u] \notin Settling /\ phase'[u] = "running",
         \A u \in Tx \ ToSet(started) :
            /\ phase'[u] \in Settling <=> phase[u] \in Settling
            /\ phase'[u] = "running" <=> phase[u] = "running" /\ u \notin gone,
         EnterBuild(started, others),
         UNCHANGED <<gasCoin, batchSize, inFlight, minted>>
  PROVE  /\ pc' \in [Tx -> Awaits] /\ buildQueue' \in Seq(Tx)
         /\ Stages' /\ OneBuild' /\ RefillsFollow'
         /\ Spenders' = Spenders \ gone
         /\ Takers' = Takers \ gone
         /\ FailedEarly' = FailedEarly \cup {u \in gone : gasCoin[u] = NoCoin}
         /\ \A u \in Tx : pc'[u] \in {"fetch", "unpaid", "refill"} => pc'[u] = pc[u]
<1> DEFINE N == ToSet(started)
<1>1. N \subseteq Tx
  BY LenProperties DEF ToSet
<1>2. pc \in [Tx -> Awaits] /\ buildQueue \in Seq(Tx)
  BY DEF PoolTypes
<1>3. pc' = [u \in Tx |-> IF u \in N THEN "start" ELSE others[u]]
      /\ buildQueue' = buildQueue \o started
  BY DEF EnterBuild
<1>4. \A u \in Tx : pc'[u] = IF u \in N THEN "start" ELSE IF u \in gone THEN "none" ELSE pc[u]
  BY <1>3
<1>5. pc' \in [Tx -> Awaits]
  BY <1>3 DEF Awaits
<1>6. \A u \in N : /\ u \in Tx /\ pc[u] = "none" /\ gasCoin[u] = NoCoin /\ u \notin gone
                   /\ pc[u] \notin Building
                   /\ minted[u] = {} /\ <<u, "refill">> \notin inFlight
  BY <1>1 DEF Stages, RefillsFollow, Settling, Building
<1> HIDE DEF N
<1>7. Stages'
  <2> SUFFICES ASSUME NEW u \in Tx
               PROVE  /\ pc'[u] # "none" <=> phase'[u] = "running"
                      /\ gasCoin'[u] # NoCoin => phase'[u] \in Settling
                      /\ pc'[u] \in Building \ {"build"} => gasCoin'[u] = NoCoin
                      /\ pc'[u] \in {"build", "sign", "submit"} => gasCoin'[u] # NoCoin
    BY DEF Stages
  <2>1. CASE u \in N
    BY <2>1, <1>4, <1>6 DEF N, Settling
  <2>2. CASE u \notin N /\ u \in gone
    BY <2>2, <1>4 DEF N, Stages, Building
  <2>3. CASE u \notin N /\ u \notin gone
    BY <2>3, <1>4 DEF N, Stages
  <2> QED
    BY <2>1, <2>2, <2>3
<1>8. ToSet(buildQueue) = {u \in Tx : pc[u] \in Building} /\ IsInjective(buildQueue)
  BY DEF OneBuild
<1>9. ToSet(buildQueue) \cap ToSet(started) = {}
  BY <1>6, <1>8 DEF N
<1>10. /\ buildQueue \o started \in Seq(Tx)
       /\ IsInjective(buildQueue \o started)
       /\ ToSet(buildQueue \o started) = ToSet(buildQueue) \cup ToSet(started)
       /\ \A i \in DOMAIN (buildQueue \o started) :
            \/ i \in DOMAIN buildQueue /\ (buildQueue \o started)[i] = buildQueue[i]
            \/ (buildQueue \o started)[i] \in ToSet(started)
  BY <1>2, <1>8, <1>9, ConcatApart
<1>11. OneBuild'
  <2>1. \A u \in Tx : pc'[u] \in Building <=> u \in N \/ pc[u] \in Building
    BY <1>4, <1>6 DEF Building
  <2>2. ToSet(buildQueue') = {u \in Tx : pc'[u] \in Building}
    BY <1>1, <1>3, <1>8, <1>10, <2>1 DEF N
  <2>3. ASSUME NEW i \in DOMAIN buildQueue', i # 1  PROVE pc'[buildQueue'[i]] = "start"
    <3>1. CASE i \in DOMAIN buildQueue /\ buildQueue'[i] = buildQueue[i]
      <4>1. pc[buildQueue[i]] = "start" /\ buildQueue[i] \in Tx
        BY <2>3, <3>1, <1>2, LenProperties DEF OneBuild
      <4>2. buildQueue[i] \notin gone
        BY <4>1 DEF Building
      <4> QED
        BY <3>1, <4>1, <4>2, <1>4
    <3>2. CASE buildQueue'[i] \in ToSet(started)
      BY <3>2, <1>1, <1>4 DEF N
    <3> QED
      BY <2>3, <3>1, <3>2, <1>3, <1>10
  <2> QED
    BY <1>3, <1>10, <2>2, <2>3 DEF OneBuild
<1>12. RefillsFollow'
  <2> SUFFICES ASSUME NEW u \in Tx
               PROVE  /\ phase'[u] \notin Settling \/ pc'[u] \in {"start", "fetch", "unpaid"}
                           => minted'[u] = {} /\ <<u, "refill">> \notin inFlight'
                      /\ IsFiniteSet(minted'[u])
                      /\ Cardinality(minted'[u]) <= batchSize'[u]
    BY DEF RefillsFollow
  <2>1. CASE u \in N
    BY <2>1, <1>6 DEF RefillsFollow
  <2>2. CASE u \notin N
    BY <2>2, <1>4 DEF N, RefillsFollow
  <2> QED
    BY <2>1, <2>2
<1>13. Spenders' = Spenders \ gone
  BY <1>4, <1>6 DEF Spenders
<1>14. Takers' = Takers \ gone
  BY <1>6 DEF Takers, N
<1>15. FailedEarly' = FailedEarly \cup {u \in gone : gasCoin[u] = NoCoin}
  <2>1. \A u \in Tx : phase'[u] \in {"released", "done"} <=>
                        phase[u] \in {"released", "done"} \/ u \in gone
    BY <1>6 DEF N, Settling
  <2> QED
    BY <2>1 DEF FailedEarly
<1>16. \A u \in Tx : pc'[u] \in {"fetch", "unpaid", "refill"} => pc'[u] = pc[u]
  BY <1>4
<1> QED
  BY <1>3, <1>5, <1>7, <1>10, <1>11, <1>12, <1>13, <1>14, <1>15, <1>16

(* Calls start, nobody leaves. *)
LEMMA NobodyLeaves ==
  ASSUME PoolInv, phase \in [Tx -> Phases], phase' \in [Tx -> Phases],
         NEW started \in Seq(Tx), IsInjective(started),
         \A u \in ToSet(started) : phase[u] \notin Settling /\ phase'[u] = "running",
         \A u \in Tx \ ToSet(started) :
            /\ phase'[u] \in Settling <=> phase[u] \in Settling
            /\ phase'[u] = "running" <=> phase[u] = "running",
         EnterBuild(started, pc),
         UNCHANGED <<gasVars, refillVars, chain>>
  PROVE  PoolInv'
<1> DEFINE gone == {}
<1>1. PoolTypes /\ Stages /\ OneBuild /\ RefillsFollow /\ pc \in [Tx -> Awaits]
      /\ UNCHANGED <<gasCoin, coinPool, pendingTransactions, batchSize, version, inFlight, minted>>
  BY DEF PoolInv, PoolTypes, gasVars, refillVars, chain
<1>2. /\ pc' \in [Tx -> Awaits] /\ buildQueue' \in Seq(Tx)
      /\ Stages' /\ OneBuild' /\ RefillsFollow'
      /\ Spenders' = Spenders \ gone
      /\ Takers' = Takers \ gone
      /\ FailedEarly' = FailedEarly \cup {u \in gone : gasCoin[u] = NoCoin}
      /\ \A u \in Tx : pc'[u] \in {"fetch", "unpaid", "refill"} => pc'[u] = pc[u]
  <2>1. gone \in SUBSET Tx /\ \A u \in gone : phase[u] = "running" /\ pc[u] \notin Building
    OBVIOUS
  <2>2. \A u \in Tx \ ToSet(started) :
            /\ phase'[u] \in Settling <=> phase[u] \in Settling
            /\ phase'[u] = "running" <=> phase[u] = "running" /\ u \notin gone
    OBVIOUS
  <2>3. \A u \in Tx : pc[u] = IF u \in gone THEN "none" ELSE pc[u]
    OBVIOUS
  <2> HIDE DEF gone
  <2> QED
    BY <1>1, <2>1, <2>2, <2>3, EnterBuildKeeps
<1>3. Spenders' = Spenders /\ Takers' = Takers /\ FailedEarly' = FailedEarly
  BY <1>2
<1>4. PendingCounts' /\ PoolBound' /\ CoinsInUse' = CoinsInUse
  BY <1>1, <1>3 DEF PoolInv, PendingCounts, PoolBound, CoinsInUse
<1>5. RefillFits'
  BY <1>1, <1>2, <1>3, <1>4 DEF PoolInv, RefillFits
<1>6. PoolTypes'
  BY <1>1, <1>2 DEF PoolTypes
<1> QED
  BY <1>2, <1>4, <1>5, <1>6 DEF PoolInv

(* A call leaves after its build task, others start in its place.  It      *)
(* returns at most the coin it had.                                        *)
LEMMA OneLeaves ==
  ASSUME PoolInv, phase \in [Tx -> Phases], phase' \in [Tx -> Phases],
         NEW started \in Seq(Tx), IsInjective(started),
         NEW t \in Tx, phase[t] = "running", pc[t] \notin Building,
         \A u \in ToSet(started) : phase[u] \notin Settling /\ phase'[u] = "running",
         \A u \in Tx \ ToSet(started) :
            /\ phase'[u] \in Settling <=> phase[u] \in Settling
            /\ phase'[u] = "running" <=> phase[u] = "running" /\ u # t,
         EnterBuild(started, [pc EXCEPT ![t] = "none"]),
         pendingTransactions' = pendingTransactions - 1,
         coinPool' \in Seq(Refs),
         \/ Len(coinPool') = Len(coinPool)
         \/ Len(coinPool') = Len(coinPool) + 1 /\ t \in Spenders,
         UNCHANGED <<gasCoin, refillVars, chain>>
  PROVE  PoolInv'
<1> DEFINE gone == {t}
           others == [pc EXCEPT ![t] = "none"]
           early == {u \in gone : gasCoin[u] = NoCoin}
<1>1. PoolTypes /\ Stages /\ OneBuild /\ RefillsFollow
      /\ UNCHANGED <<gasCoin, batchSize, version, inFlight, minted>>
  BY DEF PoolInv, refillVars, chain
<1>2. others \in [Tx -> Awaits] /\ \A u \in Tx : others[u] = IF u \in gone THEN "none" ELSE pc[u]
  BY <1>1 DEF PoolTypes, Awaits
<1>3. /\ pc' \in [Tx -> Awaits] /\ buildQueue' \in Seq(Tx)
      /\ Stages' /\ OneBuild' /\ RefillsFollow'
      /\ Spenders' = Spenders \ gone
      /\ Takers' = Takers \ gone
      /\ FailedEarly' = FailedEarly \cup early
      /\ \A u \in Tx : pc'[u] \in {"fetch", "unpaid", "refill"} => pc'[u] = pc[u]
  <2>1. gone \in SUBSET Tx /\ \A u \in gone : phase[u] = "running" /\ pc[u] \notin Building
    OBVIOUS
  <2>2. \A u \in Tx \ ToSet(started) :
            /\ phase'[u] \in Settling <=> phase[u] \in Settling
            /\ phase'[u] = "running" <=> phase[u] = "running" /\ u \notin gone
    OBVIOUS
  <2> HIDE DEF gone, others
  <2>3. EnterBuild(started, others)
    BY DEF others
  <2> QED
    BY <1>1, <1>2, <2>1, <2>2, <2>3, EnterBuildKeeps DEF early
<1>4. /\ Cardinality(Spenders) \in Nat /\ Cardinality(Takers) \in Nat /\ Cardinality(FailedEarly) \in Nat
      /\ Spenders \subseteq Tx /\ Takers \subseteq Tx /\ FailedEarly \subseteq Tx
  BY SomeCalls DEF Spenders, Takers, FailedEarly
<1>5. Len(coinPool) \in Nat /\ Len(coinPool') \in Nat
  BY <1>1, LenProperties DEF PoolTypes
<1>6. Cardinality(Spenders') = IF t \in Spenders THEN Cardinality(Spenders) - 1 ELSE Cardinality(Spenders)
  BY <1>3, <1>4, OneCallLess
<1>7. CoinsInUse' <= CoinsInUse /\ CoinsInUse \in Int /\ CoinsInUse' \in Int
  BY <1>4, <1>5, <1>6 DEF CoinsInUse
<1>8. t \notin FailedEarly
  BY DEF FailedEarly
<1>9. Cardinality(FailedEarly') =
        IF gasCoin[t] = NoCoin THEN Cardinality(FailedEarly) + 1 ELSE Cardinality(FailedEarly)
  <2>1. CASE gasCoin[t] = NoCoin
    <3>1. FailedEarly' = FailedEarly \cup {t}
      BY <1>3, <2>1
    <3> QED
      BY <2>1, <3>1, <1>4, <1>8, OneCallMore
  <2>2. CASE gasCoin[t] # NoCoin
    <3>1. FailedEarly' = FailedEarly
      BY <1>3, <2>2
    <3> QED
      BY <2>2, <3>1
  <2> QED
    BY <2>1, <2>2
<1>10. Cardinality(Takers') =
        IF gasCoin[t] = NoCoin THEN Cardinality(Takers) ELSE Cardinality(Takers) - 1
  <2>1. t \in Takers <=> gasCoin[t] # NoCoin
    BY DEF Takers
  <2> QED
    BY <2>1, <1>3, <1>4, OneCallLess
<1>11. PendingCounts'
  BY <1>1, <1>4, <1>9, <1>10 DEF PoolInv, PendingCounts, PoolTypes
<1>12. PoolBound'
  BY <1>4, <1>7, <1>9, SchedulerAssumption DEF PoolInv, PoolBound
<1>13. RefillFits'
  <2> SUFFICES ASSUME NEW u \in Tx, pc'[u] \in {"fetch", "unpaid", "refill"}
               PROVE  CoinsInUse' + batchSize'[u] <= MaxPoolSize + 1 + Cardinality(FailedEarly')
    BY DEF RefillFits
  <2>1. CoinsInUse + batchSize[u] <= MaxPoolSize + 1 + Cardinality(FailedEarly)
    BY <1>3 DEF PoolInv, RefillFits
  <2>2. batchSize'[u] = batchSize[u] /\ batchSize[u] \in Nat
    BY <1>1 DEF PoolTypes
  <2> QED
    BY <1>4, <1>7, <1>9, <2>1, <2>2, SchedulerAssumption
<1>14. PoolTypes'
  BY <1>1, <1>3 DEF PoolTypes
<1> QED
  BY <1>3, <1>11, <1>12, <1>13, <1>14 DEF PoolInv

(* What the scheduler's invariant says of types. *)
LEMMA SchedulerTypes ==
  ASSUME IInv
  PROVE  /\ phase \in [Tx -> Phases] /\ executeQueue \in Seq(Tx)
         /\ activeTasks \in 0 .. MaxPoolSize /\ MaxPoolSize \in Nat
BY SchedulerAssumption DEF IInv, SchedulerTypeOK

(* #getUsedObjects rejects. *)
LEMMA PrepareFailsPool ==
  ASSUME IInv, IInv', PoolInv, NEW t \in Tx, PrepareFails(t)
  PROVE  PoolInv'
<1>1. phase \in [Tx -> Phases] /\ phase' \in [Tx -> Phases]
  BY SchedulerTypes DEF IInv, SchedulerTypeOK
<1>2. phase[t] = "idle" /\ phase' = [phase EXCEPT ![t] = "rejected"]
  BY DEF PrepareFails, RejectPrepare
<1>3. <<>> \in Seq(Tx) /\ IsInjective(<<>>) /\ ToSet(<<>>) = {}
  BY EmptySeq DEF IsInjective, ToSet
<1>4. EnterBuild(<<>>, pc)
  <2>1. pc \in [Tx -> Awaits] /\ buildQueue \in Seq(Tx)
    BY DEF PoolInv, PoolTypes
  <2>2. buildQueue \o <<>> = buildQueue
    BY <2>1, ConcatEmptySeq
  <2>3. pc' = [u \in Tx |-> IF u \in {} THEN "start" ELSE pc[u]]
    BY <2>1 DEF PrepareFails
  <2> QED
    BY <1>3, <2>2, <2>3 DEF EnterBuild, PrepareFails
<1>5. \A u \in Tx : /\ phase'[u] \in Settling <=> phase[u] \in Settling
                    /\ phase'[u] = "running" <=> phase[u] = "running"
  BY <1>1, <1>2 DEF Settling
<1> QED
  BY <1>1, <1>3, <1>4, <1>5, NobodyLeaves DEF PrepareFails

(* A call registers. *)
LEMMA ExecuteTransactionPool ==
  ASSUME IInv, IInv', PoolInv, NEW t \in Tx, NEW ids \in SUBSET Object,
         ExecuteTransaction(t, ids)
  PROVE  PoolInv'
<1> DEFINE ready == IF ids \cap queueIds = {} THEN <<t>> ELSE <<>>
<1>1. phase \in [Tx -> Phases] /\ phase' \in [Tx -> Phases]
      /\ activeTasks \in 0 .. MaxPoolSize /\ MaxPoolSize \in Nat
  BY SchedulerTypes DEF IInv, SchedulerTypeOK
<1>2. /\ phase[t] = "idle" /\ RunTasks(ready, [phase EXCEPT ![t] = "blocked"])
      /\ EnterBuild(Started(ready), pc)
      /\ UNCHANGED <<gasVars, refillVars, chain>>
  BY DEF ExecuteTransaction, Register
<1>3. ready \in Seq(Tx) /\ IsInjective(ready) /\ ToSet(ready) \subseteq {t}
  BY EmptySeq DEF IsInjective, ToSet
<1> HIDE DEF ready
<1>4. /\ Started(ready) \in Seq(Tx) /\ IsInjective(Started(ready))
      /\ ToSet(Started(ready)) \subseteq {t}
  BY <1>1, <1>3, StartedSome
<1>5. /\ \A u \in ToSet(Started(ready)) : u \in Tx /\ phase'[u] = "running"
      /\ \A u \in Tx \ ToSet(Started(ready)) :
           \/ u \in ToSet(ready) /\ phase'[u] = "queued"
           \/ phase'[u] = [phase EXCEPT ![t] = "blocked"][u]
  BY <1>1, <1>2, <1>3, RunTasksPhases
<1>6. \A u \in ToSet(Started(ready)) : phase[u] \notin Settling /\ phase'[u] = "running"
  BY <1>2, <1>4, <1>5 DEF Settling
<1>7. \A u \in Tx \ ToSet(Started(ready)) :
         /\ phase'[u] \in Settling <=> phase[u] \in Settling
         /\ phase'[u] = "running" <=> phase[u] = "running"
  BY <1>1, <1>2, <1>3, <1>5 DEF Settling
<1> QED
  BY <1>1, <1>2, <1>4, <1>6, <1>7, NobodyLeaves

(* A slot is handed on. *)
LEMMA SlotFreedPool ==
  ASSUME IInv, IInv', PoolInv, NEW t \in Tx, SlotFreed(t)
  PROVE  PoolInv'
<1> DEFINE started == IF executeQueue = <<>> THEN <<>> ELSE <<Head(executeQueue)>>
<1>1. phase \in [Tx -> Phases] /\ phase' \in [Tx -> Phases] /\ executeQueue \in Seq(Tx)
  BY SchedulerTypes DEF IInv, SchedulerTypeOK
<1>2. /\ phase[t] = "released" /\ EnterBuild(started, pc)
      /\ UNCHANGED <<gasVars, refillVars, chain>>
  BY DEF SlotFreed, TaskDone
<1>3. executeQueue # <<>> => Head(executeQueue) \in Tx /\ phase[Head(executeQueue)] = "queued"
  <2> SUFFICES ASSUME executeQueue # <<>>
               PROVE  Head(executeQueue) \in Tx /\ phase[Head(executeQueue)] = "queued"
    OBVIOUS
  <2>1. Head(executeQueue) \in Tx
    BY <1>1, HeadTailProperties
  <2>2. 1 \in DOMAIN executeQueue /\ Head(executeQueue) = executeQueue[1]
    BY <1>1, EmptySeq, LenProperties
  <2>3. Head(executeQueue) \in ToSet(executeQueue)
    BY <2>2 DEF ToSet
  <2> QED
    BY <2>1, <2>3 DEF IInv, QueueInvariant, ParkedOnce
<1>4. /\ started \in Seq(Tx) /\ IsInjective(started)
      /\ ToSet(started) = IF executeQueue = <<>> THEN {} ELSE {Head(executeQueue)}
  BY <1>3, EmptySeq DEF IsInjective, ToSet
<1>5. phase' = IF executeQueue = <<>> THEN [phase EXCEPT ![t] = "done"]
               ELSE [phase EXCEPT ![t] = "done", ![Head(executeQueue)] = "running"]
  BY DEF SlotFreed, TaskDone
<1> HIDE DEF started
<1>6. \A u \in ToSet(started) : phase[u] \notin Settling /\ phase'[u] = "running"
  BY <1>1, <1>3, <1>4, <1>5 DEF Settling
<1>7. \A u \in Tx \ ToSet(started) :
         /\ phase'[u] \in Settling <=> phase[u] \in Settling
         /\ phase'[u] = "running" <=> phase[u] = "running"
  BY <1>1, <1>2, <1>3, <1>4, <1>5 DEF Settling
<1> QED
  BY <1>1, <1>2, <1>4, <1>6, <1>7, NobodyLeaves

(* A call leaves. *)
LEMMA LeavePool ==
  ASSUME IInv, IInv', PoolInv, NEW t \in Tx, NEW ready \in SetToSeqs(Woken(t)),
         pc[t] \notin Building, Leave(t, ready), coinPool' \in Seq(Refs),
         \/ Len(coinPool') = Len(coinPool)
         \/ Len(coinPool') = Len(coinPool) + 1 /\ t \in Spenders,
         UNCHANGED <<gasCoin, refillVars, chain>>
  PROVE  PoolInv'
<1> DEFINE started == Started(ready)
<1>1. phase \in [Tx -> Phases] /\ phase' \in [Tx -> Phases]
      /\ activeTasks \in 0 .. MaxPoolSize /\ MaxPoolSize \in Nat
  BY SchedulerTypes DEF IInv, SchedulerTypeOK
<1>2. /\ phase[t] = "running" /\ RunTasks(ready, [phase EXCEPT ![t] = "released"])
      /\ EnterBuild(started, [pc EXCEPT ![t] = "none"])
      /\ pendingTransactions' = pendingTransactions - 1
  BY DEF Leave, Release
<1>3. Woken(t) \subseteq Tx /\ \A u \in Woken(t) : phase[u] = "blocked"
  BY DEF Woken
<1>4. ready \in Seq(Tx) /\ IsInjective(ready) /\ ToSet(ready) = Woken(t)
  BY <1>3, SomeCalls, SetToSeqsLists, SeqMonotonic
<1>5. started \in Seq(Tx) /\ IsInjective(started) /\ ToSet(started) \subseteq Woken(t)
  BY <1>1, <1>4, StartedSome
<1>6. /\ \A u \in ToSet(started) : u \in Tx /\ phase'[u] = "running"
      /\ \A u \in Tx \ ToSet(started) :
           \/ u \in ToSet(ready) /\ phase'[u] = "queued"
           \/ phase'[u] = [phase EXCEPT ![t] = "released"][u]
  BY <1>1, <1>2, <1>4, RunTasksPhases
<1> HIDE DEF started
<1>7. \A u \in ToSet(started) : phase[u] \notin Settling /\ phase'[u] = "running"
  BY <1>3, <1>5, <1>6 DEF Settling
<1>8. \A u \in Tx \ ToSet(started) :
         /\ phase'[u] \in Settling <=> phase[u] \in Settling
         /\ phase'[u] = "running" <=> phase[u] = "running" /\ u # t
  BY <1>1, <1>2, <1>3, <1>4, <1>6 DEF Settling
<1> QED
  BY <1>1, <1>2, <1>5, <1>7, <1>8, OneLeaves

(* A call that was executed ends. *)
LEMMA FinishPool ==
  ASSUME IInv, IInv', PoolInv, NEW t \in Tx, NEW ready \in SetToSeqs(Woken(t)),
         Finish(t, ready)
  PROVE  PoolInv'
<1>1. /\ pc[t] = "submit" /\ GiveBack(gasCoin[t]) /\ Leave(t, ready)
      /\ UNCHANGED <<gasCoin, refillVars, chain>>
  BY DEF Finish
<1>2. t \in Spenders
  BY <1>1 DEF Spenders, PoolInv, Stages
<1>3. coinPool \in Seq(Refs) /\ version \in [Coin -> Nat] /\ gasCoin[t] \in Refs
  BY <1>2 DEF PoolInv, PoolTypes, Spenders
<1>4. coinPool' = coinPool \/ coinPool' = Append(coinPool, CurrentRef(gasCoin[t].id))
  BY <1>1 DEF GiveBack
<1>5. CurrentRef(gasCoin[t].id) \in Refs
  BY <1>3 DEF CurrentRef, Ref, Refs
<1>6. /\ coinPool' \in Seq(Refs)
      /\ \/ Len(coinPool') = Len(coinPool)
         \/ Len(coinPool') = Len(coinPool) + 1 /\ t \in Spenders
  BY <1>2, <1>3, <1>4, <1>5, AppendProperties
<1>7. pc[t] \notin Building
  BY <1>1 DEF Building
<1> QED
  BY <1>1, <1>6, <1>7, LeavePool

(* A call that failed ends. *)
LEMMA RethrowPool ==
  ASSUME IInv, IInv', PoolInv, NEW t \in Tx, NEW ready \in SetToSeqs(Woken(t)),
         Rethrow(t, ready)
  PROVE  PoolInv'
<1>1. /\ pc[t] \notin Building /\ Leave(t, ready) /\ coinPool' = coinPool
      /\ UNCHANGED <<gasCoin, refillVars, chain>>
  BY DEF Rethrow, Building
<1>2. coinPool' \in Seq(Refs)
  BY <1>1 DEF PoolInv, PoolTypes
<1> QED
  BY <1>1, <1>2, LeavePool

----------------------------------------------------------------------------
(* Steps of a call that leave the scheduler alone.                         *)

(* The head of the build queue is the task that builds. *)
LEMMA HeadBuilds ==
  ASSUME PoolTypes, OneBuild, NEW t \in Tx, NEW await \in Building, BuildsAt(t, await)
  PROVE  /\ pc[t] = await
         /\ buildQueue # <<>> /\ 1 \in DOMAIN buildQueue
         /\ t = Head(buildQueue) /\ t = buildQueue[1]
         /\ \A u \in Tx : pc[u] \in Building /\ u # t => pc[u] = "start"
<1>1. pc[t] = await /\ t = Head(buildQueue) /\ buildQueue \in Seq(Tx)
  BY DEF BuildsAt, PoolTypes
<1>2. t \in ToSet(buildQueue)
  BY <1>1 DEF OneBuild
<1>3. buildQueue # <<>>
  BY <1>2 DEF ToSet
<1>4. 1 \in DOMAIN buildQueue /\ t = buildQueue[1]
  BY <1>1, <1>3, EmptySeq, LenProperties
<1>5. ASSUME NEW u \in Tx, pc[u] \in Building, u # t  PROVE pc[u] = "start"
  <2>1. PICK i \in DOMAIN buildQueue : buildQueue[i] = u
    BY <1>5 DEF OneBuild, ToSet
  <2> QED
    BY <1>4, <1>5, <2>1 DEF OneBuild
<1> QED
  BY <1>1, <1>3, <1>4, <1>5

(* The build task goes on to its next await. *)
LEMMA BuildGoesOn ==
  ASSUME PoolTypes, OneBuild, NEW t \in Tx, NEW from \in Building, NEW to \in Building,
         BuildsAt(t, from), GoTo(t, to), UNCHANGED buildQueue
  PROVE  /\ pc' \in [Tx -> Awaits] /\ OneBuild'
         /\ pc'[t] = to /\ \A u \in Tx : u # t => pc'[u] = pc[u]
<1>1. pc \in [Tx -> Awaits] /\ pc' = [pc EXCEPT ![t] = to] /\ to \in Awaits
  BY DEF PoolTypes, GoTo, Building, Awaits
<1>2. pc[t] = from /\ 1 \in DOMAIN buildQueue /\ t = buildQueue[1]
  BY HeadBuilds
<1>3. {u \in Tx : pc'[u] \in Building} = {u \in Tx : pc[u] \in Building}
  BY <1>1, <1>2
<1>4. ASSUME NEW i \in DOMAIN buildQueue, i # 1  PROVE pc'[buildQueue[i]] = "start"
  <2>1. buildQueue[i] # t
    BY <1>2, <1>4 DEF OneBuild, IsInjective
  <2>2. buildQueue[i] \in Tx
    BY LenProperties DEF PoolTypes
  <2> QED
    BY <1>1, <1>4, <2>1, <2>2 DEF OneBuild
<1> QED
  BY <1>1, <1>3, <1>4 DEF OneBuild

(* The build task is over. *)
LEMMA BuildEnds ==
  ASSUME PoolTypes, OneBuild, NEW t \in Tx, NEW from \in Building,
         NEW to \in Awaits \ Building,
         BuildsAt(t, from), GoTo(t, to), LeaveBuildQueue
  PROVE  /\ pc' \in [Tx -> Awaits] /\ buildQueue' \in Seq(Tx) /\ OneBuild'
         /\ pc'[t] = to /\ \A u \in Tx : u # t => pc'[u] = pc[u]
<1>1. pc \in [Tx -> Awaits] /\ pc' = [pc EXCEPT ![t] = to] /\ buildQueue' = Tail(buildQueue)
      /\ buildQueue \in Seq(Tx)
  BY DEF PoolTypes, GoTo, LeaveBuildQueue
<1>2. /\ pc[t] = from /\ buildQueue # <<>> /\ t = Head(buildQueue)
      /\ \A u \in Tx : pc[u] \in Building /\ u # t => pc[u] = "start"
  BY HeadBuilds
<1>3. /\ Tail(buildQueue) \in Seq(Tx)
      /\ IsInjective(Tail(buildQueue))
      /\ ToSet(Tail(buildQueue)) = ToSet(buildQueue) \ {t}
  BY <1>1, <1>2, TailApart DEF OneBuild
<1>4. {u \in Tx : pc'[u] \in Building} = {u \in Tx : pc[u] \in Building} \ {t}
  BY <1>1, <1>2
<1>5. ToSet(Tail(buildQueue)) = {u \in Tx : pc'[u] \in Building}
  BY <1>3, <1>4 DEF OneBuild
<1>6. ASSUME NEW i \in DOMAIN Tail(buildQueue)  PROVE pc'[Tail(buildQueue)[i]] = "start"
  <2>1. Tail(buildQueue)[i] \in ToSet(buildQueue) \ {t}
    BY <1>3 DEF ToSet
  <2> QED
    BY <1>1, <1>2, <2>1 DEF OneBuild
<1> QED
  BY <1>1, <1>3, <1>5, <1>6 DEF OneBuild

(* No coin moves and no refill starts. *)
LEMMA QuietPool ==
  ASSUME PoolInv, PoolTypes', Stages', OneBuild', RefillsFollow',
         UNCHANGED <<phase, gasCoin, coinPool, pendingTransactions, batchSize>>,
         Spenders' \subseteq Spenders,
         \A u \in Tx : pc'[u] \in {"fetch", "unpaid", "refill"}
                         => pc[u] \in {"fetch", "unpaid", "refill"}
  PROVE  PoolInv'
<1>1. Takers' = Takers /\ FailedEarly' = FailedEarly
  BY DEF Takers, FailedEarly
<1>2. /\ Cardinality(Spenders) \in Nat /\ Cardinality(Spenders') \in Nat
      /\ Cardinality(Spenders') <= Cardinality(Spenders) /\ Cardinality(FailedEarly) \in Nat
  <2>1. Spenders \in SUBSET Tx /\ Spenders' \in SUBSET Tx /\ FailedEarly \in SUBSET Tx
    BY DEF Spenders, FailedEarly
  <2>2. Spenders' \in SUBSET Spenders
    OBVIOUS
  <2> QED
    BY <2>1, <2>2, SomeCalls, FewerCalls
<1>3. Len(coinPool) \in Nat
  BY LenProperties DEF PoolInv, PoolTypes
<1>4. CoinsInUse' <= CoinsInUse /\ CoinsInUse \in Int /\ CoinsInUse' \in Int
  BY <1>2, <1>3 DEF CoinsInUse
<1>5. PendingCounts'
  BY <1>1 DEF PoolInv, PendingCounts
<1>6. PoolBound'
  BY <1>1, <1>2, <1>4, SchedulerAssumption DEF PoolInv, PoolBound
<1>7. RefillFits'
  <2> SUFFICES ASSUME NEW u \in Tx, pc'[u] \in {"fetch", "unpaid", "refill"}
               PROVE  CoinsInUse' + batchSize'[u] <= MaxPoolSize + 1 + Cardinality(FailedEarly')
    BY DEF RefillFits
  <2>1. CoinsInUse + batchSize[u] <= MaxPoolSize + 1 + Cardinality(FailedEarly)
    BY DEF PoolInv, RefillFits
  <2>2. batchSize[u] \in Nat
    BY DEF PoolInv, PoolTypes
  <2> QED
    BY <1>1, <1>2, <1>4, <2>1, <2>2, SchedulerAssumption
<1> QED
  BY <1>5, <1>6, <1>7 DEF PoolInv

(* The coins to pay the refill with are read. *)
LEMMA SourceCoinsFetchedPool ==
  ASSUME PoolInv, NEW t \in Tx, SourceCoinsFetched(t)
  PROVE  PoolInv'
<1>1. /\ BuildsAt(t, "fetch") /\ GoTo(t, "unpaid")
      /\ UNCHANGED <<schedulerVars, buildQueue, gasCoin, coinPool, pendingTransactions,
                     batchSize, chain>>
  BY DEF SourceCoinsFetched
<1>2. PoolTypes /\ Stages /\ OneBuild /\ RefillsFollow
  BY DEF PoolInv
<1>3. pc[t] = "fetch" /\ "fetch" \in Building /\ "unpaid" \in Building
  BY <1>1 DEF BuildsAt, Building
<1>4. /\ pc' \in [Tx -> Awaits] /\ OneBuild'
      /\ pc'[t] = "unpaid" /\ \A u \in Tx : u # t => pc'[u] = pc[u]
  BY <1>1, <1>2, <1>3, BuildGoesOn
<1>5. UNCHANGED <<phase, version, minted, inFlight>>
  BY <1>1 DEF schedulerVars, chain
<1>6. PoolTypes'
  BY <1>1, <1>2, <1>4, <1>5 DEF PoolTypes
<1>7. Stages'
  BY <1>1, <1>2, <1>3, <1>4, <1>5 DEF Stages, Building
<1>8. RefillsFollow'
  BY <1>1, <1>2, <1>3, <1>4, <1>5 DEF RefillsFollow
<1>9. Spenders' \subseteq Spenders
  BY <1>1, <1>4 DEF Spenders
<1> QED
  BY <1>1, <1>3, <1>4, <1>5, <1>6, <1>7, <1>8, <1>9, QuietPool

(* The refill is submitted. *)
LEMMA SubmitRefillPool ==
  ASSUME PoolInv, NEW t \in Tx, SubmitRefill(t)
  PROVE  PoolInv'
<1>1. /\ BuildsAt(t, "unpaid") /\ GoTo(t, "refill")
      /\ inFlight' = inFlight \cup {<<t, "refill">>}
      /\ UNCHANGED <<schedulerVars, buildQueue, gasVars, batchSize, version, owned, minted>>
  BY DEF SubmitRefill
<1>2. PoolTypes /\ Stages /\ OneBuild /\ RefillsFollow
  BY DEF PoolInv
<1>3. pc[t] = "unpaid" /\ "unpaid" \in Building /\ "refill" \in Building
  BY <1>1 DEF BuildsAt, Building
<1>4. /\ pc' \in [Tx -> Awaits] /\ OneBuild'
      /\ pc'[t] = "refill" /\ \A u \in Tx : u # t => pc'[u] = pc[u]
  BY <1>1, <1>2, <1>3, BuildGoesOn
<1>5. UNCHANGED <<phase, gasCoin, coinPool, pendingTransactions>>
  BY <1>1 DEF schedulerVars, gasVars
<1>6. PoolTypes'
  BY <1>1, <1>2, <1>4, <1>5 DEF PoolTypes
<1>7. Stages'
  BY <1>2, <1>3, <1>4, <1>5 DEF Stages, Building
<1>8. phase[t] \in Settling
  BY <1>2, <1>3 DEF Stages, Settling
<1>9. RefillsFollow'
  <2> SUFFICES ASSUME NEW u \in Tx
               PROVE  /\ phase'[u] \notin Settling \/ pc'[u] \in {"start", "fetch", "unpaid"}
                           => minted'[u] = {} /\ <<u, "refill">> \notin inFlight'
                      /\ IsFiniteSet(minted'[u])
                      /\ Cardinality(minted'[u]) <= batchSize'[u]
    BY DEF RefillsFollow
  <2>1. CASE u = t
    BY <1>1, <1>2, <1>4, <1>5, <1>8, <2>1 DEF RefillsFollow
  <2>2. CASE u # t
    <3>1. <<u, "refill">> \in inFlight' => <<u, "refill">> \in inFlight
      BY <1>1, <2>2
    <3> QED
      BY <1>1, <1>2, <1>4, <1>5, <2>2, <3>1 DEF RefillsFollow
  <2> QED
    BY <2>1, <2>2
<1>10. Spenders' \subseteq Spenders
  BY <1>4, <1>5 DEF Spenders
<1> QED
  BY <1>1, <1>3, <1>4, <1>5, <1>6, <1>7, <1>9, <1>10, QuietPool

(* A build ends. *)
LEMMA BuildTaskDonePool ==
  ASSUME PoolInv, NEW t \in Tx, BuildTaskDone(t)
  PROVE  PoolInv'
<1>1. /\ BuildsAt(t, "build") /\ GoTo(t, "sign") /\ LeaveBuildQueue
      /\ UNCHANGED <<schedulerVars, gasVars, refillVars, chain>>
  BY DEF BuildTaskDone
<1>2. PoolTypes /\ Stages /\ OneBuild /\ RefillsFollow
  BY DEF PoolInv
<1>3. pc[t] = "build" /\ "build" \in Building /\ "sign" \in Awaits \ Building
  BY <1>1 DEF BuildsAt, Building, Awaits
<1>4. /\ pc' \in [Tx -> Awaits] /\ buildQueue' \in Seq(Tx) /\ OneBuild'
      /\ pc'[t] = "sign" /\ \A u \in Tx : u # t => pc'[u] = pc[u]
  BY <1>1, <1>2, <1>3, BuildEnds
<1>5. UNCHANGED <<phase, gasCoin, coinPool, pendingTransactions, batchSize, version, minted, inFlight>>
  BY <1>1 DEF schedulerVars, gasVars, refillVars, chain
<1>6. PoolTypes'
  BY <1>2, <1>4, <1>5 DEF PoolTypes
<1>7. Stages'
  BY <1>2, <1>3, <1>4, <1>5 DEF Stages, Building
<1>8. RefillsFollow'
  BY <1>2, <1>3, <1>4, <1>5 DEF RefillsFollow
<1>9. Spenders' \subseteq Spenders
  BY <1>3, <1>4, <1>5 DEF Spenders
<1> QED
  BY <1>3, <1>4, <1>5, <1>6, <1>7, <1>8, <1>9, QuietPool

(* A build rejects. *)
LEMMA BuildTaskFailsPool ==
  ASSUME PoolInv, NEW t \in Tx, BuildTaskFails(t)
  PROVE  PoolInv'
<1>1. /\ GoTo(t, "failed") /\ LeaveBuildQueue
      /\ UNCHANGED <<schedulerVars, gasVars, refillVars, chain>>
  BY DEF BuildTaskFails
<1>2. PoolTypes /\ Stages /\ OneBuild /\ RefillsFollow
  BY DEF PoolInv
<1>3. PICK await \in Building : BuildsAt(t, await)
  BY DEF BuildTaskFails
<1>4. pc[t] \in Building /\ "failed" \in Awaits \ Building
  BY <1>3 DEF BuildsAt, Building, Awaits
<1>5. /\ pc' \in [Tx -> Awaits] /\ buildQueue' \in Seq(Tx) /\ OneBuild'
      /\ pc'[t] = "failed" /\ \A u \in Tx : u # t => pc'[u] = pc[u]
  BY <1>1, <1>2, <1>3, <1>4, BuildEnds
<1>6. UNCHANGED <<phase, gasCoin, coinPool, pendingTransactions, batchSize, version, minted, inFlight>>
  BY <1>1 DEF schedulerVars, gasVars, refillVars, chain
<1>7. PoolTypes'
  BY <1>2, <1>5, <1>6 DEF PoolTypes
<1>8. Stages'
  BY <1>2, <1>4, <1>5, <1>6 DEF Stages, Building
<1>9. RefillsFollow'
  BY <1>2, <1>5, <1>6 DEF RefillsFollow, Stages, Settling
<1>10. Spenders' \subseteq Spenders
  BY <1>2, <1>4, <1>5, <1>6 DEF Spenders, Stages, Building
<1> QED
  BY <1>5, <1>6, <1>7, <1>8, <1>9, <1>10, QuietPool

(* A call that is not building goes on; the build queue does not notice.   *)
LEMMA GoesOn ==
  ASSUME PoolTypes, OneBuild, NEW t \in Tx, pc[t] \notin Building,
         NEW to \in Awaits \ Building, GoTo(t, to), UNCHANGED buildQueue
  PROVE  /\ pc' \in [Tx -> Awaits] /\ OneBuild'
         /\ pc'[t] = to /\ \A u \in Tx : u # t => pc'[u] = pc[u]
<1>1. pc \in [Tx -> Awaits] /\ pc' = [pc EXCEPT ![t] = to]
  BY DEF PoolTypes, GoTo
<1>2. {u \in Tx : pc'[u] \in Building} = {u \in Tx : pc[u] \in Building}
  BY <1>1
<1>3. ASSUME NEW i \in DOMAIN buildQueue, i # 1  PROVE pc'[buildQueue[i]] = "start"
  <2>1. buildQueue[i] \in Tx
    BY LenProperties DEF PoolTypes
  <2> QED
    BY <1>1, <1>3, <2>1 DEF OneBuild, Building
<1> QED
  BY <1>1, <1>2, <1>3 DEF OneBuild

(* A transaction is submitted. *)
LEMMA SubmitPool ==
  ASSUME PoolInv, NEW t \in Tx, Submit(t)
  PROVE  PoolInv'
<1>1. /\ pc[t] = "sign" /\ GoTo(t, "submit") /\ inFlight' = inFlight \cup {<<t, "user">>}
      /\ UNCHANGED <<schedulerVars, buildQueue, gasVars, refillVars, version, owned, minted>>
  BY DEF Submit
<1>2. PoolTypes /\ Stages /\ OneBuild /\ RefillsFollow
  BY DEF PoolInv
<1>3. pc[t] \notin Building /\ "submit" \in Awaits \ Building
  BY <1>1 DEF Building, Awaits
<1>4. /\ pc' \in [Tx -> Awaits] /\ OneBuild'
      /\ pc'[t] = "submit" /\ \A u \in Tx : u # t => pc'[u] = pc[u]
  BY <1>1, <1>2, <1>3, GoesOn
<1>5. UNCHANGED <<phase, gasCoin, coinPool, pendingTransactions, batchSize>>
  BY <1>1 DEF schedulerVars, gasVars, refillVars
<1>6. PoolTypes'
  BY <1>1, <1>2, <1>4, <1>5 DEF PoolTypes
<1>7. Stages'
  BY <1>1, <1>2, <1>4, <1>5 DEF Stages, Building
<1>8. \A u \in Tx : <<u, "refill">> \in inFlight' => <<u, "refill">> \in inFlight
  BY <1>1
<1>9. RefillsFollow'
  BY <1>1, <1>2, <1>4, <1>5, <1>8 DEF RefillsFollow
<1>10. Spenders' \subseteq Spenders
  BY <1>1, <1>4, <1>5 DEF Spenders
<1> QED
  BY <1>1, <1>4, <1>5, <1>6, <1>7, <1>9, <1>10, QuietPool

(* A call fails. *)
LEMMA CatchPool ==
  ASSUME PoolInv, NEW t \in Tx, Catch(t)
  PROVE  PoolInv'
<1>1. /\ pc[t] \in {"failed", "sign", "submit"} /\ GoTo(t, "catch")
      /\ UNCHANGED <<schedulerVars, buildQueue, gasCoin, coinPool, pendingTransactions,
                     refillVars, chain>>
  BY DEF Catch
<1>2. PoolTypes /\ Stages /\ OneBuild /\ RefillsFollow
  BY DEF PoolInv
<1>3. pc[t] \notin Building /\ "catch" \in Awaits \ Building
  BY <1>1 DEF Building, Awaits
<1>4. /\ pc' \in [Tx -> Awaits] /\ OneBuild'
      /\ pc'[t] = "catch" /\ \A u \in Tx : u # t => pc'[u] = pc[u]
  BY <1>1, <1>2, <1>3, GoesOn
<1>5. UNCHANGED <<phase, batchSize, version, minted, inFlight>>
  BY <1>1 DEF schedulerVars, refillVars, chain
<1>6. PoolTypes'
  BY <1>1, <1>2, <1>4, <1>5 DEF PoolTypes
<1>7. Stages'
  BY <1>1, <1>2, <1>4, <1>5 DEF Stages, Building
<1>8. RefillsFollow'
  BY <1>2, <1>4, <1>5 DEF RefillsFollow
<1>9. Spenders' \subseteq Spenders
  BY <1>1, <1>4 DEF Spenders
<1> QED
  BY <1>1, <1>4, <1>5, <1>6, <1>7, <1>8, <1>9, QuietPool

(* The coin leaves the pool and is with the call: as many are in use.      *)
LEMMA TakeCoinPool ==
  ASSUME PoolInv, NEW t \in Tx, TakeCoin(t)
  PROVE  PoolInv'
<1>1. /\ coinPool # <<>> /\ GoTo(t, "build")
      /\ gasCoin' = [gasCoin EXCEPT ![t] = Head(coinPool)]
      /\ coinPool' = Tail(coinPool)
      /\ pendingTransactions' = pendingTransactions + 1
      /\ UNCHANGED <<schedulerVars, buildQueue, sourceCoins, refillVars, chain>>
  BY DEF TakeCoin
<1>2. PoolTypes /\ Stages /\ OneBuild /\ RefillsFollow
  BY DEF PoolInv
<1>3. PICK from \in {"start", "index"} : BuildsAt(t, from)
  BY DEF TakeCoin
<1>4. from \in Building /\ "build" \in Building /\ pc[t] = from
  BY <1>3 DEF BuildsAt, Building
<1>5. /\ pc' \in [Tx -> Awaits] /\ OneBuild'
      /\ pc'[t] = "build" /\ \A u \in Tx : u # t => pc'[u] = pc[u]
  BY <1>1, <1>2, <1>3, <1>4, BuildGoesOn
<1>6. UNCHANGED <<phase, batchSize, version, minted, inFlight>>
  BY <1>1 DEF schedulerVars, refillVars, chain
<1>7. /\ Head(coinPool) \in Refs /\ coinPool' \in Seq(Refs)
      /\ Len(coinPool') = Len(coinPool) - 1 /\ Len(coinPool) \in Nat
  BY <1>1, <1>2, HeadTailProperties, LenProperties DEF PoolTypes
<1>8. NoCoin \notin Refs
  BY ExecutorAssumption, SomeCalls DEF Refs, Coin
<1>9. gasCoin' \in [Tx -> Refs \cup {NoCoin}] /\ gasCoin'[t] # NoCoin
      /\ \A u \in Tx : u # t => gasCoin'[u] = gasCoin[u]
  BY <1>1, <1>2, <1>7, <1>8 DEF PoolTypes
<1>10. gasCoin[t] = NoCoin /\ phase[t] = "running"
  BY <1>2, <1>3, <1>4 DEF Stages, Building
<1>11. PoolTypes'
  BY <1>1, <1>2, <1>5, <1>6, <1>7, <1>9 DEF PoolTypes
<1>12. Stages'
  <2> SUFFICES ASSUME NEW u \in Tx
               PROVE  /\ pc'[u] # "none" <=> phase'[u] = "running"
                      /\ gasCoin'[u] # NoCoin => phase'[u] \in Settling
                      /\ pc'[u] \in Building \ {"build"} => gasCoin'[u] = NoCoin
                      /\ pc'[u] \in {"build", "sign", "submit"} => gasCoin'[u] # NoCoin
    BY DEF Stages
  <2>1. CASE u = t
    BY <1>5, <1>6, <1>9, <1>10, <2>1 DEF Settling
  <2>2. CASE u # t
    BY <1>2, <1>5, <1>6, <1>9, <2>2 DEF Stages
  <2> QED
    BY <2>1, <2>2
<1>13. RefillsFollow'
  BY <1>2, <1>5, <1>6 DEF RefillsFollow
<1>14. /\ Spenders' = Spenders \cup {t} /\ t \notin Spenders
       /\ Takers' = Takers \cup {t} /\ t \notin Takers
       /\ FailedEarly' = FailedEarly
  <2>1. Spenders' = Spenders \cup {t} /\ t \notin Spenders
    BY <1>3, <1>4, <1>5, <1>9, <1>10 DEF Spenders
  <2>2. Takers' = Takers \cup {t} /\ t \notin Takers
    BY <1>6, <1>9, <1>10 DEF Takers
  <2>3. FailedEarly' = FailedEarly
    BY <1>6, <1>9, <1>10 DEF FailedEarly
  <2> QED
    BY <2>1, <2>2, <2>3
<1>15. /\ Cardinality(Spenders') = Cardinality(Spenders) + 1
       /\ Cardinality(Takers') = Cardinality(Takers) + 1
       /\ Cardinality(Spenders) \in Nat /\ Cardinality(Takers) \in Nat
       /\ Cardinality(FailedEarly) \in Nat
  <2>1. Spenders \in SUBSET Tx /\ Takers \in SUBSET Tx /\ FailedEarly \in SUBSET Tx
    BY DEF Spenders, Takers, FailedEarly
  <2> QED
    BY <1>14, <2>1, SomeCalls, OneCallMore
<1>16. PendingCounts'
  BY <1>1, <1>14, <1>15 DEF PoolInv, PendingCounts
<1>17. CoinsInUse' = CoinsInUse
  BY <1>7, <1>15 DEF CoinsInUse
<1>18. PoolBound'
  BY <1>14, <1>17 DEF PoolInv, PoolBound
<1>19. RefillFits'
  <2>1. \A u \in Tx : pc'[u] \in {"fetch", "unpaid", "refill"} => pc[u] = pc'[u]
    BY <1>5
  <2> QED
    BY <1>6, <1>14, <1>17, <2>1 DEF PoolInv, RefillFits
<1> QED
  BY <1>5, <1>11, <1>12, <1>13, <1>16, <1>18, <1>19 DEF PoolInv

(* A refill is sized for the coins in use at its start. *)
LEMMA StartRefillPool ==
  ASSUME PoolInv, NEW t \in Tx, StartRefill(t)
  PROVE  PoolInv'
<1>1. /\ BuildsAt(t, "start") /\ coinPool = <<>> /\ pendingTransactions <= MaxPoolSize
      /\ batchSize' = [batchSize EXCEPT ![t] = RefillSize]
      /\ UNCHANGED <<schedulerVars, buildQueue, gasCoin, coinPool, pendingTransactions, chain>>
  BY DEF StartRefill, NeedsRefill
<1>2. PoolTypes /\ Stages /\ OneBuild /\ RefillsFollow /\ MaxPoolSize \in Nat
  BY SchedulerAssumption DEF PoolInv
<1>3. PICK to \in {"fetch", "unpaid"} : GoTo(t, to)
  BY DEF StartRefill
<1>4. pc[t] = "start" /\ "start" \in Building /\ to \in Building
  BY <1>1, <1>3 DEF BuildsAt, Building
<1>5. /\ pc' \in [Tx -> Awaits] /\ OneBuild'
      /\ pc'[t] = to /\ \A u \in Tx : u # t => pc'[u] = pc[u]
  BY <1>1, <1>2, <1>3, <1>4, BuildGoesOn
<1>6. \A u \in Tx : pc[u] \in Building /\ u # t => pc[u] = "start"
  BY <1>1, <1>2, <1>4, HeadBuilds
<1>7. UNCHANGED <<phase, version, minted, inFlight>>
  BY <1>1 DEF schedulerVars, chain
<1>8. /\ Spenders \in SUBSET Takers /\ Spenders' = Spenders
      /\ Takers' = Takers /\ FailedEarly' = FailedEarly
      /\ Takers \in SUBSET Tx /\ FailedEarly \in SUBSET Tx /\ Spenders \in SUBSET Tx
  <2>1. Spenders \in SUBSET Takers
    BY <1>2 DEF Spenders, Takers, Stages
  <2>2. Spenders' = Spenders
    BY <1>1, <1>3, <1>4, <1>5 DEF Spenders
  <2>3. Takers' = Takers /\ FailedEarly' = FailedEarly
    BY <1>1, <1>7 DEF Takers, FailedEarly
  <2> QED
    BY <2>1, <2>2, <2>3 DEF Takers, FailedEarly
<1>9. /\ Cardinality(Spenders) <= Cardinality(Takers)
      /\ Cardinality(Spenders) \in Nat /\ Cardinality(Takers) \in Nat
      /\ Cardinality(FailedEarly) \in Nat
  BY <1>8, SomeCalls, FewerCalls
<1>10. Len(coinPool) = 0
  BY <1>1
<1>11. RefillSize \in Nat /\ RefillSize <= MaxPoolSize - pendingTransactions + 1
  <2>1. RefillSize = Min({CoinBatchSize, MaxPoolSize - (0 + pendingTransactions) + 1})
    BY <1>10 DEF RefillSize
  <2>2. MaxPoolSize - (0 + pendingTransactions) + 1 \in Nat
    BY <1>1, <1>2 DEF PoolTypes
  <2>3. CoinBatchSize \in Nat
    BY ExecutorAssumption
  <2>4. RefillSize \in Nat /\ RefillSize <= MaxPoolSize - (0 + pendingTransactions) + 1
    BY <2>1, <2>2, <2>3, MinOfTwo
  <2> QED
    BY <2>4, <1>2 DEF PoolTypes
<1>12. batchSize' \in [Tx -> Nat] /\ batchSize'[t] = RefillSize
       /\ \A u \in Tx : u # t => batchSize'[u] = batchSize[u]
  BY <1>1, <1>2, <1>11 DEF PoolTypes
<1>13. PoolTypes'
  BY <1>1, <1>2, <1>5, <1>7, <1>12 DEF PoolTypes
<1>14. Stages'
  BY <1>1, <1>2, <1>3, <1>4, <1>5, <1>7 DEF Stages, Building
<1>15. RefillsFollow'
  <2>1. minted[t] = {} /\ <<t, "refill">> \notin inFlight
    BY <1>2, <1>4 DEF RefillsFollow
  <2>2. IsFiniteSet({}) /\ Cardinality({}) = 0
    BY FS_EmptySet
  <2> SUFFICES ASSUME NEW u \in Tx
               PROVE  /\ phase'[u] \notin Settling \/ pc'[u] \in {"start", "fetch", "unpaid"}
                           => minted'[u] = {} /\ <<u, "refill">> \notin inFlight'
                      /\ IsFiniteSet(minted'[u])
                      /\ Cardinality(minted'[u]) <= batchSize'[u]
    BY DEF RefillsFollow
  <2>3. CASE u = t
    BY <1>7, <1>11, <1>12, <2>1, <2>2, <2>3
  <2>4. CASE u # t
    BY <1>2, <1>5, <1>7, <1>12, <2>4 DEF RefillsFollow
  <2> QED
    BY <2>3, <2>4
<1>16. PendingCounts'
  BY <1>1, <1>8 DEF PoolInv, PendingCounts
<1>17. CoinsInUse' = CoinsInUse /\ CoinsInUse = Cardinality(Spenders)
  BY <1>1, <1>8, <1>9, <1>10 DEF CoinsInUse
<1>18. PoolBound'
  BY <1>8, <1>17 DEF PoolInv, PoolBound
<1>19. RefillFits'
  <2>1. \A u \in Tx : pc'[u] \in {"fetch", "unpaid", "refill"} => u = t
    BY <1>5, <1>6 DEF Building
  <2>2. pendingTransactions = Cardinality(Takers) - Cardinality(FailedEarly)
        /\ pendingTransactions \in Int
    BY <1>2 DEF PoolInv, PendingCounts, PoolTypes
  <2>3. CoinsInUse + RefillSize <= MaxPoolSize + 1 + Cardinality(FailedEarly)
    BY <1>2, <1>9, <1>11, <1>17, <2>2
  <2> QED
    BY <1>8, <1>12, <1>17, <2>1, <2>3 DEF RefillFits
<1> QED
  BY <1>5, <1>13, <1>14, <1>15, <1>16, <1>18, <1>19 DEF PoolInv

(* The coins of an executed refill join the pool: there is room for them.  *)
LEMMA RefillExecutedPool ==
  ASSUME PoolInv, NEW t \in Tx, RefillExecuted(t)
  PROVE  PoolInv'
<1> DEFINE new == {CurrentRef(c) : c \in minted[t]}
<1>1. /\ BuildsAt(t, "refill") /\ GoTo(t, "index")
      /\ coinPool' = coinPool \o SetToSeq(new)
      /\ UNCHANGED <<schedulerVars, buildQueue, gasCoin, pendingTransactions, refillVars, chain>>
  BY DEF RefillExecuted
<1>2. PoolTypes /\ Stages /\ OneBuild /\ RefillsFollow /\ MaxPoolSize \in Nat
  BY SchedulerAssumption DEF PoolInv
<1>3. pc[t] = "refill" /\ "refill" \in Building /\ "index" \in Building
  BY <1>1 DEF BuildsAt, Building
<1>4. /\ pc' \in [Tx -> Awaits] /\ OneBuild'
      /\ pc'[t] = "index" /\ \A u \in Tx : u # t => pc'[u] = pc[u]
  BY <1>1, <1>2, <1>3, BuildGoesOn
<1>5. \A u \in Tx : pc[u] \in Building /\ u # t => pc[u] = "start"
  BY <1>1, <1>2, <1>3, HeadBuilds
<1>6. UNCHANGED <<phase, batchSize, version, minted, inFlight>>
  BY <1>1 DEF schedulerVars, refillVars, chain
<1>7. minted[t] \subseteq Coin /\ IsFiniteSet(minted[t])
      /\ Cardinality(minted[t]) <= batchSize[t] /\ batchSize[t] \in Nat
  BY <1>2 DEF PoolTypes, RefillsFollow
<1>8. new \subseteq Refs /\ IsFiniteSet(new) /\ Cardinality(new) <= Cardinality(minted[t])
  <2> DEFINE f == [c \in minted[t] |-> CurrentRef(c)]
  <2>1. f \in Surjection(minted[t], new)
    BY DEF Surjection
  <2>2. IsFiniteSet(new) /\ Cardinality(new) <= Cardinality(minted[t])
    BY <1>7, <2>1, FS_Surjection
  <2>3. \A c \in Coin : CurrentRef(c) \in Refs
    BY <1>2 DEF PoolTypes, CurrentRef, Ref, Refs
  <2> QED
    BY <1>7, <2>2, <2>3
<1> HIDE DEF new
<1>9. /\ SetToSeq(new) \in Seq(Refs) /\ Len(SetToSeq(new)) = Cardinality(new)
      /\ Cardinality(new) \in Nat /\ Cardinality(minted[t]) \in Nat
  <2>1. SetToSeq(new) \in Seq(new) /\ Len(SetToSeq(new)) = Cardinality(new)
    BY <1>8, SetToSeqLists
  <2>2. SetToSeq(new) \in Seq(Refs)
    BY <1>8, <2>1, SeqMonotonic
  <2> QED
    BY <1>7, <1>8, <2>1, <2>2, FS_CardinalityType
<1>10. /\ coinPool' \in Seq(Refs) /\ Len(coinPool') = Len(coinPool) + Cardinality(new)
       /\ Len(coinPool) \in Nat
  <2>1. coinPool \in Seq(Refs)
    BY <1>2 DEF PoolTypes
  <2> QED
    BY <1>1, <1>9, <2>1, ConcatProperties, LenProperties
<1>11. PoolTypes'
  BY <1>1, <1>2, <1>4, <1>6, <1>10 DEF PoolTypes
<1>12. Stages'
  BY <1>1, <1>2, <1>3, <1>4, <1>6 DEF Stages, Building
<1>13. RefillsFollow'
  BY <1>2, <1>4, <1>6 DEF RefillsFollow
<1>14. Spenders' = Spenders /\ Takers' = Takers /\ FailedEarly' = FailedEarly
  BY <1>1, <1>3, <1>4, <1>6 DEF Spenders, Takers, FailedEarly
<1>15. Cardinality(Spenders) \in Nat /\ Cardinality(FailedEarly) \in Nat
  <2>1. Spenders \in SUBSET Tx /\ FailedEarly \in SUBSET Tx
    BY DEF Spenders, FailedEarly
  <2> QED
    BY <2>1, SomeCalls
<1>16. PendingCounts'
  BY <1>1, <1>14 DEF PoolInv, PendingCounts
<1>17. PoolBound'
  <2>1. CoinsInUse + batchSize[t] <= MaxPoolSize + 1 + Cardinality(FailedEarly)
    BY <1>3 DEF PoolInv, RefillFits
  <2>2. CoinsInUse' = CoinsInUse + Cardinality(new) /\ CoinsInUse \in Nat
    BY <1>10, <1>14, <1>15, <1>9 DEF CoinsInUse
  <2> QED
    BY <1>2, <1>7, <1>8, <1>9, <1>14, <1>15, <2>1, <2>2 DEF PoolBound
<1>18. RefillFits'
  <2>1. \A u \in Tx : pc'[u] \notin {"fetch", "unpaid", "refill"}
    BY <1>4, <1>5 DEF Building
  <2> QED
    BY <2>1 DEF RefillFits
<1> QED
  BY <1>4, <1>11, <1>12, <1>13, <1>16, <1>17, <1>18 DEF PoolInv

----------------------------------------------------------------------------
(* The node. *)

(* The chain executes a transaction. *)
LEMMA ChainExecutesUserPool ==
  ASSUME PoolInv, NEW t \in Tx, ChainExecutesUser(t)
  PROVE  PoolInv'
<1>1. /\ version' = [version EXCEPT ![gasCoin[t].id] = @ + 1]
      /\ inFlight' = inFlight \ {<<t, "user">>}
      /\ UNCHANGED <<phase, pc, buildQueue, gasCoin, coinPool, pendingTransactions, batchSize, minted>>
  BY DEF ChainExecutesUser, schedulerVars, gasVars, refillVars
<1>2. PoolTypes /\ Stages /\ OneBuild /\ RefillsFollow
  BY DEF PoolInv
<1>3. version' \in [Coin -> Nat]
  <2> DEFINE c == gasCoin[t].id
  <2>1. version' = [version EXCEPT ![c] = version[c] + 1] /\ version \in [Coin -> Nat]
    BY <1>1, <1>2 DEF PoolTypes
  <2> HIDE DEF c
  <2>2. CASE c \in Coin
    <3>1. version[c] + 1 \in Nat
      BY <2>1, <2>2
    <3> QED
      BY <2>1, <3>1
  <2>3. CASE c \notin Coin
    BY <2>1, <2>3
  <2> QED
    BY <2>2, <2>3
<1>4. PoolTypes'
  BY <1>1, <1>2, <1>3 DEF PoolTypes
<1>5. Stages' /\ OneBuild' /\ RefillsFollow'
  BY <1>1, <1>2 DEF Stages, OneBuild, RefillsFollow
<1>6. Spenders' \subseteq Spenders
  BY <1>1 DEF Spenders
<1> QED
  BY <1>1, <1>4, <1>5, <1>6, QuietPool

(* The chain executes a refill. *)
LEMMA ChainExecutesRefillPool ==
  ASSUME PoolInv, NEW t \in Tx, ChainExecutesRefill(t)
  PROVE  PoolInv'
<1> DEFINE fresh == {c \in Coin : version[c] = 0}
           split == {c \in fresh : c < Min(fresh) + batchSize[t]}
<1>1. /\ <<t, "refill">> \in inFlight
      /\ inFlight' = inFlight \ {<<t, "refill">>}
      /\ UNCHANGED <<phase, pc, buildQueue, gasCoin, coinPool, pendingTransactions, batchSize>>
  BY DEF ChainExecutesRefill, schedulerVars, gasVars, refillVars
<1>2. PICK new \in {{}, split} :
        /\ minted' = [minted EXCEPT ![t] = new]
        /\ version' = [c \in Coin |-> IF c \in IdsOf(payment[t]) \cup new
                                        THEN version[c] + 1 ELSE version[c]]
  BY DEF ChainExecutesRefill
<1>3. PoolTypes /\ Stages /\ OneBuild /\ RefillsFollow
  BY DEF PoolInv
<1>4. batchSize[t] \in Nat /\ fresh \subseteq Nat
  BY <1>3 DEF PoolTypes, Coin
<1>5. IsFiniteSet(split) /\ Cardinality(split) <= batchSize[t]
  <2>1. CASE fresh = {}
    <3>1. split = {}
      BY <2>1
    <3> HIDE DEF split
    <3> QED
      BY <1>4, <3>1, FS_EmptySet
  <2>2. CASE fresh # {}
    <3> DEFINE a == Min(fresh)
               b == a + batchSize[t] - 1
    <3>1. a \in Nat /\ \A c \in fresh : a <= c
      BY <1>4, <2>2, MinOfNaturals
    <3>2. split \in SUBSET (a .. b)
      <4> SUFFICES ASSUME NEW c \in split  PROVE c \in a .. b
        OBVIOUS
      <4>1. c \in fresh /\ c < a + batchSize[t] /\ c \in Nat /\ a <= c
        BY <1>4, <3>1
      <4> HIDE DEF a, fresh
      <4> QED
        BY <1>4, <3>1, <4>1
    <3> HIDE DEF a, split, fresh
    <3>3. a \in Int /\ b \in Int /\ (IF a > b THEN 0 ELSE b - a + 1) <= batchSize[t]
      BY <1>4, <3>1
    <3> HIDE DEF b
    <3>4. IsFiniteSet(a .. b) /\ Cardinality(a .. b) <= batchSize[t] /\ Cardinality(a .. b) \in Nat
      BY <3>1, <3>3, FS_Interval, FS_CardinalityType
    <3>5. IsFiniteSet(split) /\ Cardinality(split) <= Cardinality(a .. b)
      BY <3>2, <3>4, FS_Subset
    <3>6. Cardinality(split) \in Nat
      BY <3>5, FS_CardinalityType
    <3> QED
      BY <1>4, <3>4, <3>5, <3>6
  <2> QED
    BY <2>1, <2>2
<1>6. IsFiniteSet(new) /\ Cardinality(new) <= batchSize[t] /\ new \subseteq Coin
  <2>1. split \subseteq Coin
    OBVIOUS
  <2> HIDE DEF split
  <2> QED
    BY <1>2, <1>4, <1>5, <2>1, FS_EmptySet
<1> HIDE DEF split, fresh
<1>7. version' \in [Coin -> Nat] /\ minted' \in [Tx -> SUBSET Coin]
  BY <1>2, <1>3, <1>6 DEF PoolTypes
<1>8. PoolTypes'
  BY <1>1, <1>3, <1>7 DEF PoolTypes
<1>9. Stages' /\ OneBuild'
  BY <1>1, <1>3 DEF Stages, OneBuild
<1>10. RefillsFollow'
  <2> SUFFICES ASSUME NEW u \in Tx
               PROVE  /\ phase'[u] \notin Settling \/ pc'[u] \in {"start", "fetch", "unpaid"}
                           => minted'[u] = {} /\ <<u, "refill">> \notin inFlight'
                      /\ IsFiniteSet(minted'[u])
                      /\ Cardinality(minted'[u]) <= batchSize'[u]
    BY DEF RefillsFollow
  <2>1. CASE u = t
    <3>1. ~(phase[t] \notin Settling \/ pc[t] \in {"start", "fetch", "unpaid"})
      BY <1>1, <1>3 DEF RefillsFollow
    <3>2. minted'[t] = new
      BY <1>2, <1>3 DEF PoolTypes
    <3> QED
      BY <1>1, <1>6, <2>1, <3>1, <3>2
  <2>2. CASE u # t
    <3>1. minted'[u] = minted[u]
      BY <1>2, <1>3, <2>2 DEF PoolTypes
    <3> QED
      BY <1>1, <1>3, <3>1 DEF RefillsFollow
  <2> QED
    BY <2>1, <2>2
<1>11. Spenders' \subseteq Spenders
  BY <1>1 DEF Spenders
<1> QED
  BY <1>1, <1>8, <1>9, <1>10, <1>11, QuietPool

----------------------------------------------------------------------------
(* A new executor. *)
LEMMA PoolInit == Init => PoolInv
<1> SUFFICES ASSUME Init  PROVE PoolInv
  OBVIOUS
<1>1. /\ phase = [t \in Tx |-> "idle"] /\ pc = [t \in Tx |-> "none"] /\ buildQueue = <<>>
      /\ gasCoin = [t \in Tx |-> NoCoin] /\ coinPool = <<>> /\ pendingTransactions = 0
      /\ batchSize = [t \in Tx |-> 0] /\ inFlight = {} /\ minted = [t \in Tx |-> {}]
      /\ version = [c \in Coin |-> IF c <= InitialCoins THEN 1 ELSE 0]
  BY DEF Init, SchedulerInit
<1>2. IsFiniteSet({}) /\ Cardinality({}) = 0
  BY FS_EmptySet
<1>3. PoolTypes
  <2>1. <<>> \in Seq(Tx) /\ <<>> \in Seq(Refs)
    BY EmptySeq
  <2>2. version \in [Coin -> Nat]
    BY <1>1
  <2>3. pc \in [Tx -> Awaits]
    BY <1>1 DEF Awaits
  <2> QED
    BY <1>1, <2>1, <2>2, <2>3 DEF PoolTypes
<1>4. Stages
  BY <1>1 DEF Stages, Building
<1>5. OneBuild
  BY <1>1 DEF OneBuild, IsInjective, ToSet, Building
<1>6. RefillsFollow
  BY <1>1, <1>2 DEF RefillsFollow
<1>7. Spenders = {} /\ Takers = {} /\ FailedEarly = {}
  BY <1>1 DEF Spenders, Takers, FailedEarly
<1>8. PendingCounts
  BY <1>1, <1>2, <1>7 DEF PendingCounts
<1>9. PoolBound
  <2>1. Len(coinPool) = 0
    BY <1>1
  <2> QED
    BY <1>2, <1>7, <2>1, SchedulerAssumption DEF PoolBound, CoinsInUse
<1>10. RefillFits
  BY <1>1 DEF RefillFits
<1> QED
  BY <1>3, <1>4, <1>5, <1>6, <1>8, <1>9, <1>10 DEF PoolInv

(* Every step keeps it. *)
LEMMA PoolStep ==
  ASSUME IInv, IInv', PoolInv, [Next]_vars
  PROVE  PoolInv'
<1>1. CASE UNCHANGED vars
  <2>1. UNCHANGED <<phase, pc, buildQueue, gasCoin, coinPool, pendingTransactions,
                    batchSize, version, minted, inFlight>>
    BY <1>1 DEF vars, schedulerVars, gasVars, refillVars, chain
  <2>2. PoolTypes' /\ Stages' /\ OneBuild' /\ RefillsFollow'
    BY <2>1 DEF PoolInv, PoolTypes, Stages, OneBuild, RefillsFollow
  <2>3. Spenders' \subseteq Spenders
    BY <2>1 DEF Spenders
  <2> QED
    BY <2>1, <2>2, <2>3, QuietPool
<1>2. ASSUME NEW t \in Tx, PrepareFails(t)  PROVE PoolInv'
  BY <1>2, PrepareFailsPool
<1>3. ASSUME NEW t \in Tx, NEW ids \in SUBSET Object, ExecuteTransaction(t, ids)  PROVE PoolInv'
  BY <1>3, ExecuteTransactionPool
<1>4. ASSUME NEW t \in Tx, RunsOn(t)  PROVE PoolInv'
  <2>1. CASE \E ready \in SetToSeqs(Woken(t)) : Finish(t, ready) \/ Rethrow(t, ready)
    BY <2>1, FinishPool, RethrowPool
  <2>2. CASE SlotFreed(t)
    BY <2>2, SlotFreedPool
  <2>3. CASE TakeCoin(t) \/ StartRefill(t) \/ SourceCoinsFetched(t) \/ SubmitRefill(t) \/ RefillExecuted(t)
    BY <2>3, TakeCoinPool, StartRefillPool, SourceCoinsFetchedPool, SubmitRefillPool, RefillExecutedPool
  <2>4. CASE BuildTaskDone(t) \/ Submit(t) \/ BuildTaskFails(t) \/ Catch(t)
    BY <2>4, BuildTaskDonePool, SubmitPool, BuildTaskFailsPool, CatchPool
  <2> QED
    BY <1>4, <2>1, <2>2, <2>3, <2>4 DEF RunsOn
<1>5. ASSUME NEW t \in Tx, ChainStep(t)  PROVE PoolInv'
  BY <1>5, ChainExecutesUserPool, ChainExecutesRefillPool DEF ChainStep
<1> QED
  BY <1>1, <1>2, <1>3, <1>4, <1>5 DEF Next

(* What #pendingTransactions counts, one build at a time, and refills that *)
(* keep to the size they were given (parallel.ts:194-218, 304, 364-455).   *)
THEOREM PoolInvariant == Spec => [](IInv /\ PoolInv)
<1>1. Spec => []IInv
  BY ImplementsScheduler, SchedulerInvariant, PTL
<1>2. Init => PoolInv
  BY PoolInit
<1>3. IInv /\ IInv' /\ PoolInv /\ [Next]_vars => PoolInv'
  BY PoolStep
<1> QED
  BY <1>1, <1>2, <1>3, PTL DEF Spec

(* However many calls fail and wherever they fail, the coins in use are at *)
(* most one more than maxPoolSize and one more for every call that failed  *)
(* before it had a coin.                                                   *)
THEOREM PoolStaysBounded == Spec => []PoolBound
BY PoolInvariant, PTL DEF PoolInv

------------------------------------------------------------------------------
(* Where the coins are. *)

Refunds == {"fetch", "unpaid", "refill"}

(* The payment of a refill from the moment it leaves the source coins. *)
PaymentIds(t) ==
  IF pc[t] \in Refunds /\ payment[t] # NoMap THEN IdsOf(payment[t]) ELSE {}

PaymentTypes ==
  /\ sourceCoins = NoMap \/ sourceCoins \in SUBSET Refs
  /\ payment \in [Tx -> (SUBSET Refs) \cup {NoMap}]
  /\ owned \subseteq Coin
  /\ \A t \in Tx : pc[t] = "fetch" => payment[t] # NoMap
  /\ \A t \in Tx : pc[t] = "refill" =>
       /\ payment[t] # NoMap
       /\ <<t, "refill">> \in inFlight \/ payment[t] # {}

Exists(c) == c \in Coin /\ version[c] > 0

(* Coins in any hands exist. *)
HeldExist ==
  /\ \A c \in owned \cup PoolIds \cup SpentIds \cup SourceIds : Exists(c)
  /\ \A t \in Tx : \A c \in PaymentIds(t) \cup minted[t] : Exists(c)

(* While nothing was set aside, nothing was ever taken. *)
NothingHeldYet ==
  /\ sourceCoins = NoMap => coinPool = <<>> /\ \A t \in Tx : gasCoin[t] = NoCoin
  /\ \A t \in Tx : pc[t] = "unpaid" /\ payment[t] = NoMap => sourceCoins = NoMap

(* What a refill pays with and what it makes is in nobody else's hands. *)
RefillApart ==
  \A t \in Tx :
    /\ PaymentIds(t) \cap (PoolIds \cup SpentIds) = {}
    /\ pc[t] = "refill" =>
         minted[t] \cap (PoolIds \cup SpentIds \cup SourceIds \cup PaymentIds(t)) = {}

(* The coins of the pool, of the calls and of the next refill. *)
PoolDistinct == \A i, j \in DOMAIN coinPool : coinPool[i].id = coinPool[j].id => i = j

SpentDistinct == \A t, u \in Spenders : gasCoin[t].id = gasCoin[u].id => t = u

PlacesApart ==
  /\ PoolIds \cap SpentIds = {}
  /\ (PoolIds \cup SpentIds) \cap SourceIds = {}

(* The inductive invariant: CoinHeldOnce alone is not one, for a refill    *)
(* brings coins in, and has to know that they are new.                     *)
HeldInv ==
  /\ PaymentTypes
  /\ HeldExist
  /\ NothingHeldYet
  /\ RefillApart
  /\ PoolDistinct
  /\ SpentDistinct
  /\ PlacesApart

(* The invariant implies what the runs check. *)
LEMMA HeldOnce == HeldInv => CoinHeldOnce
<1> SUFFICES ASSUME HeldInv  PROVE CoinHeldOnce
  OBVIOUS
<1>1. \A t \in Refilling : IdsOf(payment[t]) \cap (PoolIds \cup SpentIds) = {}
  BY DEF HeldInv, RefillApart, PaymentIds, Refilling, Refunds
<1> QED
  BY <1>1 DEF HeldInv, PoolDistinct, SpentDistinct, PlacesApart, CoinHeldOnce

----------------------------------------------------------------------------
(* References and their ids. *)

(* References to coins. *)
LEMMA RefFacts ==
  /\ Coin \subseteq Nat
  /\ NoCoin \notin Refs
  /\ \A c \in Coin, v \in Nat : Ref(c, v) \in Refs /\ Ref(c, v).id = c
  /\ \A r \in Refs : r.id \in Coin
<1>1. Cardinality(Tx) \in Nat
  BY SchedulerAssumption, FS_CardinalityType
<1>2. Coin \subseteq Nat
  BY <1>1 DEF Coin
<1>3. NoCoin \notin Refs
  BY <1>2, ExecutorAssumption DEF Refs
<1> QED
  BY <1>2, <1>3 DEF Ref, Refs

(* A coin set aside is one of the source coins. *)
LEMMA SourceWithMore ==
  ASSUME PaymentTypes, NEW c \in Coin, NEW v \in Nat, sourceCoins' = WithSource(c, v)
  PROVE  /\ sourceCoins' \in SUBSET Refs /\ sourceCoins' # NoMap
         /\ SourceIds' = SourceIds \cup {c}
<1>1. sourceCoins \ NoMap \in SUBSET Refs
  BY RefFacts DEF PaymentTypes, NoMap
<1>2. Ref(c, v) \in Refs /\ Ref(c, v).id = c /\ NoCoin \notin Refs
  BY RefFacts
<1>3. sourceCoins' = {r \in sourceCoins \ NoMap : r.id # c} \cup {Ref(c, v)}
  BY DEF WithSource
<1>4. sourceCoins' \in SUBSET Refs /\ Ref(c, v) \in sourceCoins'
  BY <1>1, <1>2, <1>3
<1>5. sourceCoins' # NoMap /\ sourceCoins' \ NoMap = sourceCoins'
  BY <1>2, <1>4 DEF NoMap
<1>6. SourceIds' = IdsOf(sourceCoins')
  BY <1>5 DEF SourceIds, NoMap
<1>7. IdsOf(sourceCoins') = SourceIds \cup {c}
  <2>1. IdsOf(sourceCoins') \subseteq SourceIds \cup {c}
    BY <1>2, <1>3 DEF IdsOf, SourceIds
  <2>2. c \in IdsOf(sourceCoins')
    BY <1>2, <1>4 DEF IdsOf
  <2>3. ASSUME NEW r \in sourceCoins \ NoMap  PROVE r.id \in IdsOf(sourceCoins')
    <3>1. CASE r.id = c
      BY <2>2, <3>1
    <3>2. CASE r.id # c
      BY <1>3, <3>2 DEF IdsOf
    <3> QED
      BY <3>1, <3>2
  <2> QED
    BY <2>1, <2>2, <2>3 DEF SourceIds, IdsOf
<1> QED
  BY <1>4, <1>5, <1>6, <1>7

(* The pool with more coins at its end. *)
LEMMA PoolWithMore ==
  ASSUME NEW more \in Seq(Refs), coinPool \in Seq(Refs), PoolDistinct,
         coinPool' = coinPool \o more,
         \A i, j \in DOMAIN more : more[i].id = more[j].id => i = j,
         \A i \in DOMAIN more : more[i].id \notin PoolIds
  PROVE  PoolDistinct' /\ PoolIds' = PoolIds \cup {more[i].id : i \in DOMAIN more}
<1> DEFINE m == Len(coinPool)
           n == Len(more)
           r == coinPool'
<1>1. m \in Nat /\ n \in Nat /\ DOMAIN coinPool = 1 .. m /\ DOMAIN more = 1 .. n
  BY LenProperties
<1>2. /\ r \in Seq(Refs) /\ Len(r) = m + n
      /\ \A i \in 1 .. m + n : r[i] = IF i <= m THEN coinPool[i] ELSE more[i - m]
  BY ConcatProperties
<1>3. DOMAIN r = 1 .. m + n
  BY <1>2, LenProperties
<1>4. PoolDistinct' <=> \A i, j \in DOMAIN r : r[i].id = r[j].id => i = j
  BY DEF PoolDistinct
<1>5. PoolIds' = {r[i].id : i \in DOMAIN r}
  BY DEF PoolIds
<1> HIDE DEF m, n, r
<1>6. \A i \in 1 .. m : i \in DOMAIN r /\ r[i] = coinPool[i] /\ coinPool[i].id \in PoolIds
  <2>1. \A i \in 1 .. m : i \in 1 .. m + n /\ i <= m
    BY <1>1
  <2>2. \A i \in 1 .. m : coinPool[i].id \in PoolIds
    BY <1>1 DEF PoolIds
  <2> QED
    BY <1>2, <1>3, <2>1, <2>2
<1>7. \A i \in m + 1 .. m + n : i \in DOMAIN r /\ i - m \in DOMAIN more /\ r[i] = more[i - m]
  <2>1. \A i \in m + 1 .. m + n : i \in 1 .. m + n /\ i - m \in 1 .. n /\ ~(i <= m)
    BY <1>1
  <2> QED
    BY <1>1, <1>2, <1>3, <2>1
<1>8. DOMAIN r = 1 .. m \cup m + 1 .. m + n
  BY <1>1, <1>3
<1>9. ASSUME NEW i \in DOMAIN r, NEW j \in DOMAIN r, r[i].id = r[j].id  PROVE i = j
  <2>1. CASE i \in 1 .. m /\ j \in 1 .. m
    BY <2>1, <1>1, <1>6, <1>9 DEF PoolDistinct
  <2>2. CASE i \in m + 1 .. m + n /\ j \in m + 1 .. m + n
    <3>1. i - m = j - m
      BY <2>2, <1>7, <1>9
    <3> QED
      BY <3>1, <2>2, <1>1
  <2>3. CASE i \in 1 .. m /\ j \in m + 1 .. m + n
    BY <2>3, <1>6, <1>7, <1>9
  <2>4. CASE i \in m + 1 .. m + n /\ j \in 1 .. m
    BY <2>4, <1>6, <1>7, <1>9
  <2> QED
    BY <1>8, <2>1, <2>2, <2>3, <2>4
<1>10. PoolIds' \subseteq PoolIds \cup {more[i].id : i \in DOMAIN more}
  BY <1>5, <1>6, <1>7, <1>8
<1>11. PoolIds \subseteq PoolIds'
  BY <1>1, <1>5, <1>6 DEF PoolIds
<1>12. \A i \in 1 .. n : m + i \in m + 1 .. m + n /\ (m + i) - m = i
  BY <1>1
<1>13. \A i \in DOMAIN more : m + i \in DOMAIN r /\ r[m + i] = more[i]
  BY <1>1, <1>7, <1>12
<1>14. {more[i].id : i \in DOMAIN more} \subseteq PoolIds'
  BY <1>5, <1>13
<1> QED
  BY <1>4, <1>9, <1>10, <1>11, <1>14

(* The pool without its first coin. *)
LEMMA PoolWithoutHead ==
  ASSUME coinPool \in Seq(Refs), PoolDistinct, coinPool # <<>>, coinPool' = Tail(coinPool)
  PROVE  /\ PoolDistinct'
         /\ Head(coinPool).id \in PoolIds
         /\ PoolIds' = PoolIds \ {Head(coinPool).id}
<1> DEFINE m == Len(coinPool)
           r == coinPool'
<1>1. m \in Nat \ {0} /\ DOMAIN coinPool = 1 .. m /\ Head(coinPool) = coinPool[1]
  BY LenProperties, EmptySeq
<1>2. r \in Seq(Refs) /\ DOMAIN r = 1 .. m - 1 /\ \A i \in 1 .. m - 1 : r[i] = coinPool[i + 1]
  BY <1>1, HeadTailProperties, LenProperties
<1>3. PoolDistinct' <=> \A i, j \in DOMAIN r : r[i].id = r[j].id => i = j
  BY DEF PoolDistinct
<1>4. PoolIds' = {r[i].id : i \in DOMAIN r}
  BY DEF PoolIds
<1> HIDE DEF m, r
<1>5. \A i \in 1 .. m - 1 : i + 1 \in 1 .. m /\ i + 1 # 1 /\ 1 \in 1 .. m
  BY <1>1
<1>6. ASSUME NEW i \in DOMAIN r, NEW j \in DOMAIN r, r[i].id = r[j].id  PROVE i = j
  <2>1. /\ i + 1 \in DOMAIN coinPool /\ j + 1 \in DOMAIN coinPool
        /\ coinPool[i + 1].id = coinPool[j + 1].id
    BY <1>1, <1>2, <1>5, <1>6
  <2>2. i + 1 = j + 1
    BY <2>1 DEF PoolDistinct
  <2> QED
    BY <2>2, <1>1, <1>2
<1>7. \A i \in 1 .. m - 1 : r[i].id = coinPool[i + 1].id /\ coinPool[i + 1].id # coinPool[1].id
  BY <1>1, <1>2, <1>5 DEF PoolDistinct
<1>8. PoolIds' \subseteq PoolIds \ {coinPool[1].id}
  BY <1>1, <1>2, <1>4, <1>5, <1>7 DEF PoolIds
<1>9. PoolIds \ {coinPool[1].id} \subseteq PoolIds'
  <2> SUFFICES ASSUME NEW i \in 1 .. m, coinPool[i].id # coinPool[1].id
               PROVE  coinPool[i].id \in PoolIds'
    BY <1>1 DEF PoolIds
  <2>1. i - 1 \in 1 .. m - 1 /\ (i - 1) + 1 = i
    BY <1>1
  <2>2. r[i - 1] = coinPool[i]
    BY <1>2, <2>1
  <2> QED
    BY <1>2, <1>4, <2>1, <2>2
<1>10. Head(coinPool).id \in PoolIds
  BY <1>1 DEF PoolIds
<1> QED
  BY <1>1, <1>3, <1>6, <1>8, <1>9, <1>10

----------------------------------------------------------------------------
(* Steps that bring no coin in.                                            *)

(* Coins may change places: what is held, and what refills pay with, does  *)
(* not grow.                                                               *)
LEMMA HeldShrinks ==
  ASSUME HeldInv, PaymentTypes', NothingHeldYet',
         PoolDistinct', SpentDistinct', PlacesApart',
         UNCHANGED <<version, owned, minted>>,
         PoolIds' \cup SpentIds' \subseteq PoolIds \cup SpentIds,
         PoolIds' \cup SpentIds' \cup SourceIds' \subseteq PoolIds \cup SpentIds \cup SourceIds,
         \A t \in Tx : /\ PaymentIds(t)' \subseteq PaymentIds(t)
                       /\ pc'[t] = "refill" => pc[t] = "refill"
  PROVE  HeldInv'
<1>1. HeldExist'
  BY DEF HeldInv, HeldExist, Exists
<1>2. RefillApart'
  <2> SUFFICES ASSUME NEW t \in Tx
               PROVE  /\ PaymentIds(t)' \cap (PoolIds' \cup SpentIds') = {}
                      /\ pc'[t] = "refill" =>
                           minted'[t] \cap (PoolIds' \cup SpentIds' \cup SourceIds'
                                              \cup PaymentIds(t)') = {}
    BY DEF RefillApart
  <2>1. /\ PaymentIds(t) \cap (PoolIds \cup SpentIds) = {}
        /\ pc[t] = "refill" =>
             minted[t] \cap (PoolIds \cup SpentIds \cup SourceIds \cup PaymentIds(t)) = {}
    BY DEF HeldInv, RefillApart
  <2>2. PaymentIds(t)' \cap (PoolIds' \cup SpentIds') = {}
    BY <2>1
  <2>3. ASSUME pc'[t] = "refill"
        PROVE  minted'[t] \cap (PoolIds' \cup SpentIds' \cup SourceIds' \cup PaymentIds(t)') = {}
    BY <2>1, <2>3
  <2> QED
    BY <2>2, <2>3
<1> QED
  BY <1>1, <1>2 DEF HeldInv

(* No coin moves. *)
LEMMA QuietHeld ==
  ASSUME HeldInv,
         UNCHANGED <<gasCoin, coinPool, sourceCoins, payment, version, owned, minted>>,
         Spenders' \subseteq Spenders,
         \A t \in Tx : /\ pc'[t] \in Refunds => pc'[t] = pc[t]
                       /\ pc'[t] = "refill" /\ <<t, "refill">> \in inFlight =>
                            <<t, "refill">> \in inFlight'
  PROVE  HeldInv'
<1>1. PoolIds' = PoolIds /\ SourceIds' = SourceIds
  BY DEF PoolIds, SourceIds, IdsOf, NoMap
<1>2. SpentIds' \subseteq SpentIds
  BY DEF SpentIds
<1>3. \A t \in Tx : /\ PaymentIds(t)' \subseteq PaymentIds(t)
                    /\ pc'[t] = "refill" => pc[t] = "refill"
  BY DEF PaymentIds, IdsOf, NoMap, Refunds
<1>4. PaymentTypes'
  <2>1. NoMap' = NoMap /\ Refs' = Refs
    BY DEF NoMap, Refs, Coin
  <2> QED
    BY <2>1 DEF HeldInv, PaymentTypes, Refunds
<1>5. NothingHeldYet'
  BY DEF HeldInv, NothingHeldYet, Refunds, NoMap
<1>6. PoolDistinct' /\ SpentDistinct'
  BY DEF HeldInv, PoolDistinct, SpentDistinct
<1>7. PlacesApart'
  BY <1>1, <1>2 DEF HeldInv, PlacesApart
<1> QED
  BY <1>1, <1>2, <1>3, <1>4, <1>5, <1>6, <1>7, HeldShrinks

(* A call that has a coin gives it up, to the pool, to the source coins or *)
(* to nobody.                                                              *)
LEMMA CoinGivenUp ==
  ASSUME PoolTypes, HeldInv, NEW t \in Spenders,
         UNCHANGED <<gasCoin, payment, version, owned, minted, inFlight>>,
         Spenders' \subseteq Spenders \ {t},
         \A u \in Tx : pc'[u] \in Refunds => pc'[u] = pc[u],
         \/ \E v \in Nat : coinPool' = Append(coinPool, Ref(gasCoin[t].id, v))
                           /\ UNCHANGED sourceCoins
         \/ \E v \in Nat : sourceCoins' = WithSource(gasCoin[t].id, v) /\ UNCHANGED coinPool
         \/ UNCHANGED <<coinPool, sourceCoins>>
  PROVE  HeldInv'
<1> DEFINE c == gasCoin[t].id
<1>1. /\ t \in Tx /\ gasCoin[t] # NoCoin /\ c \in Coin /\ coinPool \in Seq(Refs)
      /\ PaymentTypes /\ PoolDistinct
  BY RefFacts DEF PoolTypes, HeldInv, Spenders
<1>2. c \in SpentIds /\ c \notin PoolIds /\ c \notin SourceIds
  BY <1>1 DEF SpentIds, HeldInv, PlacesApart
<1>3. SpentIds' \subseteq SpentIds \ {c}
  BY <1>1 DEF SpentIds, HeldInv, SpentDistinct
<1>4. SpentDistinct'
  BY DEF HeldInv, SpentDistinct
<1>5. sourceCoins # NoMap /\ \A u \in Tx : ~(pc'[u] = "unpaid" /\ payment'[u] = NoMap)
  BY <1>1 DEF HeldInv, NothingHeldYet, Refunds
<1>6. \A u \in Tx : /\ PaymentIds(u)' \subseteq PaymentIds(u)
                    /\ pc'[u] = "refill" => pc[u] = "refill"
  BY DEF PaymentIds, IdsOf, NoMap, Refunds
<1> HIDE DEF c
<1>7. /\ PoolDistinct'
      /\ PoolIds' \subseteq PoolIds \cup {c} /\ SourceIds' \subseteq SourceIds \cup {c}
      /\ c \notin PoolIds' \/ c \notin SourceIds'
      /\ sourceCoins' # NoMap /\ (sourceCoins' = sourceCoins \/ sourceCoins' \in SUBSET Refs)
  <2>1. ASSUME NEW v \in Nat, coinPool' = Append(coinPool, Ref(c, v)), UNCHANGED sourceCoins
        PROVE  PoolDistinct' /\ PoolIds' = PoolIds \cup {c} /\ SourceIds' = SourceIds
    <3> DEFINE more == <<Ref(c, v)>>
    <3>1. Ref(c, v) \in Refs /\ Ref(c, v).id = c
      BY <1>1, RefFacts
    <3>2. coinPool' = coinPool \o more /\ more \in Seq(Refs)
      BY <1>1, <2>1, <3>1, AppendIsConcat
    <3>3. /\ DOMAIN more = {1} /\ more[1] = Ref(c, v)
      OBVIOUS
    <3> HIDE DEF more
    <3>4. PoolDistinct' /\ PoolIds' = PoolIds \cup {more[i].id : i \in DOMAIN more}
      BY <1>1, <1>2, <3>1, <3>2, <3>3, PoolWithMore
    <3>5. {more[i].id : i \in DOMAIN more} = {c}
      BY <3>1, <3>3
    <3>6. SourceIds' = SourceIds
      BY <2>1 DEF SourceIds, IdsOf, NoMap
    <3> QED
      BY <3>4, <3>5, <3>6
  <2>2. ASSUME NEW v \in Nat, sourceCoins' = WithSource(c, v), UNCHANGED coinPool
        PROVE  /\ PoolDistinct' /\ PoolIds' = PoolIds /\ SourceIds' = SourceIds \cup {c}
               /\ sourceCoins' # NoMap /\ sourceCoins' \in SUBSET Refs
    <3>1. SourceIds' = SourceIds \cup {c} /\ sourceCoins' # NoMap /\ sourceCoins' \in SUBSET Refs
      BY <1>1, <2>2, SourceWithMore
    <3>2. PoolDistinct' /\ PoolIds' = PoolIds
      BY <1>1, <2>2 DEF PoolDistinct, PoolIds
    <3> QED
      BY <3>1, <3>2
  <2>3. ASSUME UNCHANGED <<coinPool, sourceCoins>>
        PROVE  PoolDistinct' /\ PoolIds' = PoolIds /\ SourceIds' = SourceIds
    BY <1>1, <2>3 DEF PoolDistinct, PoolIds, SourceIds, IdsOf, NoMap
  <2> QED
    BY <1>2, <1>5, <2>1, <2>2, <2>3 DEF c
<1>8. PlacesApart'
  BY <1>2, <1>3, <1>7 DEF HeldInv, PlacesApart
<1>9. PaymentTypes'
  <2>1. NoMap' = NoMap /\ Refs' = Refs
    BY DEF NoMap, Refs, Coin
  <2> QED
    BY <1>1, <1>7, <2>1 DEF PaymentTypes, Refunds
<1>10. NothingHeldYet'
  <2>1. NoMap' = NoMap
    BY DEF NoMap
  <2> QED
    BY <1>5, <1>7, <2>1 DEF NothingHeldYet
<1>11. /\ PoolIds' \cup SpentIds' \subseteq PoolIds \cup SpentIds
       /\ PoolIds' \cup SpentIds' \cup SourceIds' \subseteq PoolIds \cup SpentIds \cup SourceIds
  BY <1>2, <1>3, <1>7
<1> QED
  BY <1>4, <1>6, <1>7, <1>8, <1>9, <1>10, <1>11, HeldShrinks

----------------------------------------------------------------------------
(* The steps.                                                              *)

(* Steps of the scheduler. *)
LEMMA SchedulingHeld ==
  ASSUME HeldInv, NEW started, NEW others, EnterBuild(started, others),
         \A u \in Tx : others[u] \in {pc[u], "none"},
         UNCHANGED <<gasCoin, coinPool, sourceCoins, refillVars, chain>>
  PROVE  HeldInv'
<1>1. \A u \in Tx : pc'[u] \in {pc[u], "start", "none"}
  BY DEF EnterBuild
<1>2. Spenders' \subseteq Spenders
  BY <1>1 DEF Spenders
<1>3. \A u \in Tx : pc'[u] \in Refunds => pc'[u] = pc[u]
  BY <1>1 DEF Refunds
<1> QED
  BY <1>2, <1>3, QuietHeld DEF refillVars, chain

(* A call leaves: it is at no await and spends nothing. *)
LEMMA LeaveHeld ==
  ASSUME PoolTypes, NEW t \in Tx, NEW ready, Leave(t, ready), UNCHANGED gasCoin
  PROVE  /\ EnterBuild(Started(ready), [pc EXCEPT ![t] = "none"])
         /\ \A u \in Tx : [pc EXCEPT ![t] = "none"][u] \in {pc[u], "none"}
         /\ Spenders' \subseteq Spenders \ {t}
         /\ \A u \in Tx : pc'[u] \in Refunds => pc'[u] = pc[u]
<1>1. EnterBuild(Started(ready), [pc EXCEPT ![t] = "none"])
  BY DEF Leave
<1>2. \A u \in Tx : [pc EXCEPT ![t] = "none"][u] = IF u = t THEN "none" ELSE pc[u]
  BY DEF PoolTypes
<1>3. \A u \in Tx : pc'[u] = IF u \in ToSet(Started(ready)) THEN "start"
                             ELSE [pc EXCEPT ![t] = "none"][u]
  BY <1>1 DEF EnterBuild
<1>4. \A u \in Tx : pc'[u] \in {"start", "none"} \/ (u # t /\ pc'[u] = pc[u])
  BY <1>2, <1>3
<1>5. Spenders' \subseteq Spenders \ {t}
  BY <1>4 DEF Spenders
<1>6. \A u \in Tx : pc'[u] \in Refunds => pc'[u] = pc[u]
  BY <1>4 DEF Refunds
<1> QED
  BY <1>1, <1>2, <1>5, <1>6

(* A call that was executed gives its coin back. *)
LEMMA FinishHeld ==
  ASSUME PoolInv, HeldInv, NEW t \in Tx, NEW ready, Finish(t, ready)
  PROVE  HeldInv'
<1>1. /\ pc[t] = "submit" /\ GiveBack(gasCoin[t]) /\ Leave(t, ready)
      /\ UNCHANGED <<gasCoin, refillVars, chain>>
  BY DEF Finish
<1>2. PoolTypes /\ t \in Spenders
  BY <1>1 DEF Spenders, PoolInv, Stages
<1>3. /\ Spenders' \subseteq Spenders \ {t}
      /\ \A u \in Tx : pc'[u] \in Refunds => pc'[u] = pc[u]
  BY <1>1, <1>2, LeaveHeld
<1>4. version[gasCoin[t].id] \in Nat
  BY <1>2, RefFacts DEF PoolTypes, Spenders
<1>5. \/ coinPool' = Append(coinPool, Ref(gasCoin[t].id, version[gasCoin[t].id]))
         /\ UNCHANGED sourceCoins
      \/ sourceCoins' = WithSource(gasCoin[t].id, version[gasCoin[t].id]) /\ UNCHANGED coinPool
      \/ UNCHANGED <<coinPool, sourceCoins>>
  BY <1>1 DEF GiveBack, CurrentRef
<1>6. UNCHANGED <<gasCoin, payment, version, owned, minted, inFlight>>
  BY <1>1 DEF refillVars, chain
<1> QED
  BY <1>2, <1>3, <1>4, <1>5, <1>6, CoinGivenUp

(* A call fails. *)
LEMMA CatchHeld ==
  ASSUME PoolInv, HeldInv, NEW t \in Tx, Catch(t)
  PROVE  HeldInv'
<1>1. /\ pc[t] \in {"failed", "sign", "submit"} /\ GoTo(t, "catch")
      /\ sourceCoins' = IF gasCoin[t] = NoCoin THEN sourceCoins
                        ELSE WithSource(gasCoin[t].id, Unknown)
      /\ UNCHANGED <<gasCoin, coinPool, payment, version, owned, minted, inFlight>>
  BY DEF Catch, refillVars, chain
<1>2. PoolTypes
  BY DEF PoolInv
<1>3. pc'[t] = "catch" /\ \A u \in Tx : u # t => pc'[u] = pc[u]
  BY <1>1, <1>2 DEF PoolTypes, GoTo
<1>4. \A u \in Tx : pc'[u] \in Refunds => pc'[u] = pc[u]
  BY <1>3 DEF Refunds
<1>5. Spenders' \subseteq Spenders \ {t}
  BY <1>1, <1>3 DEF Spenders
<1>6. CASE gasCoin[t] = NoCoin
  <2>1. UNCHANGED <<gasCoin, coinPool, sourceCoins, payment, version, owned, minted, inFlight>>
    BY <1>1, <1>6
  <2> QED
    BY <1>4, <1>5, <2>1, QuietHeld
<1>7. CASE gasCoin[t] # NoCoin
  <2>1. t \in Spenders
    BY <1>1, <1>7 DEF Spenders
  <2>2. sourceCoins' = WithSource(gasCoin[t].id, Unknown) /\ Unknown \in Nat
    BY <1>1, <1>7 DEF Unknown
  <2> QED
    BY <1>1, <1>2, <1>4, <1>5, <2>1, <2>2, CoinGivenUp
<1> QED
  BY <1>6, <1>7

(* A call takes the first coin of the pool. *)
LEMMA TakeCoinHeld ==
  ASSUME PoolInv, HeldInv, NEW t \in Tx, TakeCoin(t)
  PROVE  HeldInv'
<1> DEFINE c == Head(coinPool).id
<1>1. /\ coinPool # <<>> /\ GoTo(t, "build")
      /\ gasCoin' = [gasCoin EXCEPT ![t] = Head(coinPool)]
      /\ coinPool' = Tail(coinPool)
      /\ UNCHANGED <<sourceCoins, payment, version, owned, minted, inFlight>>
  BY DEF TakeCoin, refillVars, chain
<1>2. PoolTypes /\ coinPool \in Seq(Refs) /\ PoolDistinct
  BY DEF PoolInv, PoolTypes, HeldInv
<1>3. pc[t] \in {"start", "index"} /\ gasCoin[t] = NoCoin
  BY DEF TakeCoin, BuildsAt, PoolInv, Stages, Building
<1>4. pc'[t] = "build" /\ \A u \in Tx : u # t => pc'[u] = pc[u]
  BY <1>1, <1>2 DEF PoolTypes, GoTo
<1>5. Head(coinPool) \in Refs /\ Head(coinPool) # NoCoin
  BY <1>1, <1>2, HeadTailProperties, RefFacts
<1>6. gasCoin'[t] = Head(coinPool) /\ \A u \in Tx : u # t => gasCoin'[u] = gasCoin[u]
  BY <1>1, <1>2 DEF PoolTypes
<1>7. PoolDistinct' /\ c \in PoolIds /\ PoolIds' = PoolIds \ {c}
  BY <1>1, <1>2, PoolWithoutHead
<1>8. Spenders' = Spenders \cup {t} /\ t \notin Spenders
  BY <1>3, <1>4, <1>5, <1>6 DEF Spenders
<1>9. SpentIds' = SpentIds \cup {c}
  <2>1. \A u \in Spenders : gasCoin'[u] = gasCoin[u]
    BY <1>6, <1>8 DEF Spenders
  <2>2. SpentIds' = {gasCoin'[u].id : u \in Spenders \cup {t}}
    BY <1>8 DEF SpentIds
  <2>3. SpentIds' = {gasCoin'[u].id : u \in Spenders} \cup {gasCoin'[t].id}
    BY <2>2
  <2> QED
    BY <1>6, <2>1, <2>3 DEF SpentIds
<1>10. c \notin SpentIds
  BY <1>7 DEF HeldInv, PlacesApart
<1>11. SpentDistinct'
  <2> SUFFICES ASSUME NEW u \in Spenders', NEW w \in Spenders', gasCoin'[u].id = gasCoin'[w].id
               PROVE  u = w
    BY DEF SpentDistinct
  <2>1. \A v \in Spenders : v \in Tx /\ v # t /\ gasCoin'[v] = gasCoin[v] /\ gasCoin[v].id # c
    BY <1>6, <1>8, <1>10 DEF SpentIds, Spenders
  <2> QED
    BY <1>6, <1>8, <2>1 DEF HeldInv, SpentDistinct
<1>12. SourceIds' = SourceIds
  BY <1>1 DEF SourceIds, IdsOf, NoMap
<1> HIDE DEF c
<1>13. PlacesApart'
  BY <1>7, <1>9, <1>10, <1>12 DEF HeldInv, PlacesApart
<1>14. \A u \in Tx : /\ pc'[u] \in Refunds => pc'[u] = pc[u]
                     /\ PaymentIds(u)' \subseteq PaymentIds(u)
                     /\ pc'[u] = "refill" => pc[u] = "refill"
  BY <1>1, <1>4 DEF PaymentIds, IdsOf, NoMap, Refunds
<1>15. PaymentTypes'
  <2>1. NoMap' = NoMap /\ Refs' = Refs
    BY DEF NoMap, Refs, Coin
  <2> QED
    BY <1>1, <1>14, <2>1 DEF HeldInv, PaymentTypes, Refunds
<1>16. NothingHeldYet'
  <2>1. NoMap' = NoMap /\ sourceCoins # NoMap
    BY <1>1 DEF NoMap, HeldInv, NothingHeldYet
  <2> QED
    BY <1>1, <1>14, <2>1 DEF HeldInv, NothingHeldYet, Refunds
<1> QED
  BY <1>1, <1>7, <1>9, <1>11, <1>12, <1>13, <1>14, <1>15, <1>16, HeldShrinks

(* The other steps of a call that move no coin. *)
LEMMA PassesHeld ==
  ASSUME PoolInv, HeldInv, NEW t \in Tx,
         BuildTaskDone(t) \/ BuildTaskFails(t) \/ Submit(t)
  PROVE  HeldInv'
<1>1. PICK to \in {"sign", "failed", "submit"} : GoTo(t, to)
  BY DEF BuildTaskDone, BuildTaskFails, Submit
<1>2. UNCHANGED <<gasCoin, coinPool, sourceCoins, payment, version, owned, minted>>
      /\ inFlight \subseteq inFlight'
  BY DEF BuildTaskDone, BuildTaskFails, Submit, gasVars, refillVars, chain
<1>3. /\ pc'[t] = to /\ \A u \in Tx : u # t => pc'[u] = pc[u]
  BY <1>1 DEF PoolInv, PoolTypes, GoTo
<1>4. gasCoin[t] # NoCoin => pc[t] \in {"build", "sign", "submit", "failed"}
  BY DEF BuildTaskDone, BuildTaskFails, Submit, BuildsAt, PoolInv, Stages, Building
<1>5. Spenders' \subseteq Spenders
  BY <1>2, <1>3, <1>4 DEF Spenders
<1>6. \A u \in Tx : /\ pc'[u] \in Refunds => pc'[u] = pc[u]
                    /\ pc'[u] = "refill" /\ <<u, "refill">> \in inFlight =>
                         <<u, "refill">> \in inFlight'
  BY <1>1, <1>2, <1>3 DEF Refunds
<1> QED
  BY <1>2, <1>5, <1>6, QuietHeld

(* While one call refills, nobody else does. *)
LEMMA RefillGoesOn ==
  ASSUME PoolInv, HeldInv, NEW t \in Tx, NEW from \in Building \ {"build"},
         NEW to \in Building \ {"build"},
         BuildsAt(t, from), GoTo(t, to), UNCHANGED <<gasCoin, owned, minted>>
  PROVE  /\ pc[t] = from /\ pc'[t] = to
         /\ \A u \in Tx : u # t =>
              pc'[u] = pc[u] /\ pc'[u] \notin Refunds /\ PaymentIds(u)' = {}
         /\ SpentIds' = SpentIds /\ SpentDistinct'
         /\ NoMap' = NoMap /\ Refs' = Refs /\ NoCoin \notin Refs
<1>1. pc[t] = from /\ pc'[t] = to /\ \A u \in Tx : u # t => pc'[u] = pc[u]
  BY DEF PoolInv, PoolTypes, GoTo, BuildsAt
<1>2. \A u \in Tx : u # t => pc[u] \notin Refunds
  BY HeadBuilds DEF PoolInv, Building, Refunds
<1>3. Spenders' = Spenders
  BY <1>1 DEF Spenders, Building
<1>4. SpentIds' = SpentIds /\ SpentDistinct'
  BY <1>3 DEF SpentIds, SpentDistinct, HeldInv
<1>5. \A u \in Tx : u # t => PaymentIds(u)' = {}
  BY <1>1, <1>2 DEF PaymentIds
<1> QED
  BY <1>1, <1>2, <1>4, <1>5, RefFacts DEF NoMap, Refs, Coin

(* The source coins become the payment of the refill. *)
LEMMA StartRefillHeld ==
  ASSUME PoolInv, HeldInv, NEW t \in Tx, StartRefill(t)
  PROVE  HeldInv'
<1>1. /\ BuildsAt(t, "start")
      /\ payment' = [payment EXCEPT ![t] = sourceCoins]
      /\ UNCHANGED <<gasCoin, coinPool, version, owned, minted, inFlight>>
  BY DEF StartRefill, chain
<1>2. \/ /\ \E r \in sourceCoins \ NoMap : r.version = Unknown
         /\ GoTo(t, "fetch") /\ UNCHANGED sourceCoins
      \/ GoTo(t, "unpaid") /\ sourceCoins' = sourceCoins \cap NoMap
  BY DEF StartRefill
<1>3. PICK to \in {"fetch", "unpaid"} : GoTo(t, to)
  BY <1>2
<1>4. "start" \in Building \ {"build"} /\ to \in Building \ {"build"}
  BY DEF Building
<1>5. /\ pc[t] = "start" /\ pc'[t] = to
      /\ \A u \in Tx : u # t =>
           pc'[u] = pc[u] /\ pc'[u] \notin Refunds /\ PaymentIds(u)' = {}
      /\ SpentIds' = SpentIds /\ SpentDistinct'
      /\ NoMap' = NoMap /\ Refs' = Refs /\ NoCoin \notin Refs
  BY <1>1, <1>3, <1>4, RefillGoesOn
<1>6. sourceCoins = NoMap \/ sourceCoins \in SUBSET Refs
  BY DEF HeldInv, PaymentTypes
<1>7. \/ sourceCoins' = sourceCoins
      \/ sourceCoins' = {} /\ sourceCoins # NoMap
  BY <1>2, <1>5, <1>6 DEF NoMap
<1>8. /\ sourceCoins' = NoMap <=> sourceCoins = NoMap
      /\ SourceIds' \subseteq SourceIds
  BY <1>7, <1>5 DEF NoMap, SourceIds, IdsOf
<1>9. /\ payment'[t] = sourceCoins /\ \A u \in Tx : u # t => payment'[u] = payment[u]
      /\ payment' \in [Tx -> (SUBSET Refs) \cup {NoMap}]
  BY <1>1, <1>6 DEF HeldInv, PaymentTypes
<1>10. PaymentIds(t)' \subseteq SourceIds
  <2>1. CASE sourceCoins = NoMap
    BY <1>5, <1>9, <2>1 DEF PaymentIds
  <2>2. CASE sourceCoins # NoMap
    <3>1. sourceCoins \ NoMap = sourceCoins
      BY <1>5, <1>6, <2>2 DEF NoMap
    <3> QED
      BY <1>9, <3>1 DEF PaymentIds, SourceIds, IdsOf
  <2> QED
    BY <2>1, <2>2
<1>11. PoolIds' = PoolIds /\ PoolDistinct'
  BY <1>1 DEF PoolIds, PoolDistinct, HeldInv
<1>12. PlacesApart'
  BY <1>5, <1>8, <1>11 DEF HeldInv, PlacesApart
<1>13. HeldExist'
  BY <1>1, <1>5, <1>8, <1>10, <1>11 DEF HeldInv, HeldExist, Exists
<1>14. RefillApart'
  <2>1. PaymentIds(t)' \cap (PoolIds' \cup SpentIds') = {}
    BY <1>5, <1>10, <1>11 DEF HeldInv, PlacesApart
  <2>2. \A u \in Tx : pc'[u] # "refill"
    BY <1>5 DEF Refunds
  <2> QED
    BY <1>5, <2>1, <2>2 DEF RefillApart
<1>15. PaymentTypes'
  <2>1. pc'[t] = "fetch" => sourceCoins # NoMap
    <3>1. ASSUME pc'[t] = "fetch", sourceCoins = NoMap  PROVE FALSE
      <4>1. pc'[t] = "unpaid"
        BY <1>2, <3>1 DEF PoolInv, PoolTypes, GoTo
      <4> QED
        BY <3>1, <4>1
    <3> QED
      BY <3>1
  <2>2. \A u \in Tx : pc'[u] = "fetch" => payment'[u] # NoMap
    BY <1>5, <1>9, <2>1 DEF Refunds
  <2>3. \A u \in Tx : pc'[u] # "refill"
    BY <1>5 DEF Refunds
  <2>4. sourceCoins' = NoMap \/ sourceCoins' \in SUBSET Refs
    BY <1>6, <1>7
  <2> QED
    BY <1>1, <1>5, <1>9, <2>2, <2>3, <2>4 DEF HeldInv, PaymentTypes
<1>16. NothingHeldYet'
  BY <1>1, <1>5, <1>8, <1>9 DEF HeldInv, NothingHeldYet, Refunds
<1> QED
  BY <1>5, <1>11, <1>12, <1>13, <1>14, <1>15, <1>16 DEF HeldInv

(* The payment loses the coins that are gone; the source coins are empty.  *)
LEMMA SourceCoinsFetchedHeld ==
  ASSUME PoolInv, HeldInv, NEW t \in Tx, SourceCoinsFetched(t)
  PROVE  HeldInv'
<1>1. /\ BuildsAt(t, "fetch") /\ GoTo(t, "unpaid") /\ sourceCoins' = {}
      /\ UNCHANGED <<gasCoin, coinPool, version, owned, minted, inFlight>>
  BY DEF SourceCoinsFetched, chain
<1>2. "fetch" \in Building \ {"build"} /\ "unpaid" \in Building \ {"build"}
  BY DEF Building
<1>3. /\ pc[t] = "fetch" /\ pc'[t] = "unpaid"
      /\ \A u \in Tx : u # t =>
           pc'[u] = pc[u] /\ pc'[u] \notin Refunds /\ PaymentIds(u)' = {}
      /\ SpentIds' = SpentIds /\ SpentDistinct'
      /\ NoMap' = NoMap /\ Refs' = Refs /\ NoCoin \notin Refs
  BY <1>1, <1>2, RefillGoesOn
<1>4. payment[t] \in SUBSET Refs /\ payment[t] # NoMap
      /\ payment \in [Tx -> (SUBSET Refs) \cup {NoMap}]
  BY <1>3 DEF HeldInv, PaymentTypes
<1>5. PICK deleted \in {{}, Coin \ owned} :
        payment' = [payment EXCEPT ![t] =
                      {r \in payment[t] : r.version # Unknown}
                        \cup {CurrentRef(c) : c \in IdsOf({r \in payment[t] : r.version = Unknown}) \ deleted}]
  BY DEF SourceCoinsFetched
<1> DEFINE known == {r \in payment[t] : r.version # Unknown}
           asked == IdsOf({r \in payment[t] : r.version = Unknown}) \ deleted
           paid == known \cup {CurrentRef(c) : c \in asked}
<1>6. known \subseteq payment[t] /\ asked \subseteq IdsOf(payment[t])
  BY DEF IdsOf
<1>7. asked \subseteq Coin
  BY <1>4, <1>6, RefFacts DEF IdsOf
<1> HIDE DEF asked, known
<1>8. \A c \in asked : CurrentRef(c) \in Refs /\ CurrentRef(c).id = c
  BY <1>7, RefFacts DEF CurrentRef, PoolInv, PoolTypes
<1>9. paid \in SUBSET Refs /\ paid # NoMap /\ IdsOf(paid) \subseteq IdsOf(payment[t])
  <2>1. paid \in SUBSET Refs
    BY <1>4, <1>6, <1>8
  <2>2. IdsOf(paid) \subseteq IdsOf(payment[t])
    BY <1>6, <1>8 DEF IdsOf
  <2> QED
    BY <1>3, <2>1, <2>2 DEF NoMap
<1>10. payment' = [payment EXCEPT ![t] = paid]
  BY <1>5 DEF known, asked
<1> HIDE DEF paid
<1>11. /\ payment'[t] = paid /\ \A u \in Tx : u # t => payment'[u] = payment[u]
       /\ payment' \in [Tx -> (SUBSET Refs) \cup {NoMap}]
  BY <1>4, <1>9, <1>10
<1>12. PaymentIds(t)' \subseteq PaymentIds(t)
  <2>1. PaymentIds(t) = IdsOf(payment[t])
    BY <1>3, <1>4 DEF PaymentIds, Refunds
  <2>2. PaymentIds(t)' = IdsOf(paid)
    BY <1>3, <1>9, <1>11 DEF PaymentIds, Refunds, IdsOf
  <2> QED
    BY <1>9, <2>1, <2>2
<1>13. PoolIds' = PoolIds /\ PoolDistinct'
  BY <1>1 DEF PoolIds, PoolDistinct, HeldInv
<1>14. SourceIds' = {} /\ sourceCoins' # NoMap
  BY <1>1, <1>3 DEF SourceIds, IdsOf, NoMap
<1>15. PlacesApart'
  BY <1>3, <1>13, <1>14 DEF HeldInv, PlacesApart
<1>16. PaymentTypes'
  BY <1>1, <1>3, <1>11 DEF HeldInv, PaymentTypes, Refunds
<1>17. NothingHeldYet'
  BY <1>3, <1>9, <1>11, <1>14 DEF NothingHeldYet, Refunds
<1>18. \A u \in Tx : PaymentIds(u)' \subseteq PaymentIds(u) /\ pc'[u] # "refill"
  BY <1>3, <1>12 DEF Refunds
<1> QED
  BY <1>1, <1>3, <1>13, <1>14, <1>15, <1>16, <1>17, <1>18, HeldShrinks

(* A refill without a payment takes every coin: nobody holds one yet. *)
LEMMA SubmitRefillHeld ==
  ASSUME PoolInv, HeldInv, NEW t \in Tx, SubmitRefill(t)
  PROVE  HeldInv'
<1> DEFINE paid == IF payment[t] = NoMap THEN {CurrentRef(c) : c \in owned} ELSE payment[t]
<1>1. /\ BuildsAt(t, "unpaid") /\ GoTo(t, "refill")
      /\ payment' = [payment EXCEPT ![t] = paid]
      /\ inFlight' = inFlight \cup {<<t, "refill">>}
      /\ UNCHANGED <<gasCoin, coinPool, sourceCoins, version, owned, minted>>
  BY DEF SubmitRefill, gasVars
<1>2. "unpaid" \in Building \ {"build"} /\ "refill" \in Building \ {"build"}
  BY DEF Building
<1>3. /\ pc[t] = "unpaid" /\ pc'[t] = "refill"
      /\ \A u \in Tx : u # t =>
           pc'[u] = pc[u] /\ pc'[u] \notin Refunds /\ PaymentIds(u)' = {}
      /\ SpentIds' = SpentIds /\ SpentDistinct'
      /\ NoMap' = NoMap /\ Refs' = Refs /\ NoCoin \notin Refs
  BY <1>1, <1>2, RefillGoesOn
<1>4. \A c \in owned : CurrentRef(c) \in Refs /\ CurrentRef(c).id = c
  BY RefFacts DEF CurrentRef, PoolInv, PoolTypes, HeldInv, PaymentTypes
<1>5. /\ payment \in [Tx -> (SUBSET Refs) \cup {NoMap}]
      /\ sourceCoins = NoMap \/ sourceCoins \in SUBSET Refs
      /\ owned \subseteq Coin
  BY DEF HeldInv, PaymentTypes
<1>6. paid \in SUBSET Refs /\ paid # NoMap
  BY <1>3, <1>4, <1>5 DEF NoMap
<1>7. payment[t] = NoMap => IdsOf(paid) \subseteq owned /\ PoolIds = {} /\ SpentIds = {}
  <2> SUFFICES ASSUME payment[t] = NoMap
               PROVE  IdsOf(paid) \subseteq owned /\ PoolIds = {} /\ SpentIds = {}
    OBVIOUS
  <2>1. coinPool = <<>> /\ \A u \in Tx : gasCoin[u] = NoCoin
    BY <1>3 DEF HeldInv, NothingHeldYet
  <2>2. IdsOf(paid) \subseteq owned
    BY <1>4 DEF IdsOf
  <2> QED
    BY <2>1, <2>2 DEF PoolIds, SpentIds, Spenders
<1>8. payment[t] # NoMap => IdsOf(paid) = PaymentIds(t)
  BY <1>3 DEF PaymentIds, Refunds
<1> HIDE DEF paid
<1>9. /\ payment'[t] = paid /\ \A u \in Tx : u # t => payment'[u] = payment[u]
      /\ payment' \in [Tx -> (SUBSET Refs) \cup {NoMap}]
  BY <1>1, <1>5, <1>6
<1>10. PaymentIds(t)' = IdsOf(paid)
  BY <1>3, <1>6, <1>9 DEF PaymentIds, Refunds, IdsOf
<1>11. PoolIds' = PoolIds /\ PoolDistinct' /\ SourceIds' = SourceIds
  BY <1>1 DEF PoolIds, PoolDistinct, SourceIds, IdsOf, NoMap, HeldInv
<1>12. minted[t] = {}
  BY <1>3 DEF PoolInv, RefillsFollow
<1>13. PlacesApart'
  BY <1>3, <1>11 DEF HeldInv, PlacesApart
<1>14. HeldExist'
  <2>1. \A c \in IdsOf(paid) : Exists(c)
    BY <1>7, <1>8 DEF HeldInv, HeldExist
  <2> QED
    BY <1>1, <1>3, <1>10, <1>11, <2>1 DEF HeldInv, HeldExist, Exists
<1>15. RefillApart'
  <2>1. IdsOf(paid) \cap (PoolIds \cup SpentIds) = {}
    BY <1>7, <1>8 DEF HeldInv, RefillApart
  <2>2. \A u \in Tx : u # t => pc'[u] # "refill"
    BY <1>3 DEF Refunds
  <2> QED
    BY <1>1, <1>3, <1>10, <1>11, <1>12, <2>1, <2>2 DEF RefillApart
<1>16. PaymentTypes'
  BY <1>1, <1>3, <1>5, <1>6, <1>9 DEF PaymentTypes, Refunds
<1>17. NothingHeldYet'
  BY <1>1, <1>3 DEF HeldInv, NothingHeldYet, Refunds
<1> QED
  BY <1>3, <1>11, <1>13, <1>14, <1>15, <1>16, <1>17 DEF HeldInv

(* The list of new coins that the response of a refill brings. *)
LEMMA NewCoinsListed ==
  ASSUME PoolInv, NEW t \in Tx, NEW more, more = SetToSeq({CurrentRef(c) : c \in minted[t]})
  PROVE  /\ more \in Seq(Refs)
         /\ \A i, j \in DOMAIN more : more[i].id = more[j].id => i = j
         /\ \A i \in DOMAIN more : more[i].id \in minted[t] /\ more[i] = CurrentRef(more[i].id)
<1> DEFINE new == {CurrentRef(c) : c \in minted[t]}
<1>1. minted[t] \subseteq Coin /\ IsFiniteSet(minted[t])
  BY DEF PoolInv, PoolTypes, RefillsFollow
<1>2. \A c \in minted[t] : CurrentRef(c) \in Refs /\ CurrentRef(c).id = c
  BY <1>1, RefFacts DEF CurrentRef, PoolInv, PoolTypes
<1>3. /\ new \subseteq Refs /\ IsFiniteSet(new)
      /\ \A r \in new : r.id \in minted[t] /\ r = CurrentRef(r.id)
  <2>1. [c \in minted[t] |-> CurrentRef(c)] \in Surjection(minted[t], new)
    BY DEF Surjection
  <2>2. IsFiniteSet(new)
    BY <1>1, <2>1, FS_Surjection
  <2> QED
    BY <1>2, <2>2
<1>4. more = SetToSeq(new)
  OBVIOUS
<1> HIDE DEF new
<1>5. more \in Seq(new) /\ IsInjective(more)
  BY <1>3, <1>4, SetToSeqLists
<1>6. more \in Seq(Refs) /\ \A i \in DOMAIN more : more[i] \in new
  BY <1>3, <1>5, SeqMonotonic, LenProperties
<1>7. \A i \in DOMAIN more : more[i].id \in minted[t] /\ more[i] = CurrentRef(more[i].id)
  BY <1>3, <1>6
<1>8. \A i, j \in DOMAIN more : more[i].id = more[j].id => more[i] = more[j]
  BY <1>7
<1> QED
  BY <1>5, <1>6, <1>7, <1>8 DEF IsInjective

(* The new coins enter the pool, the gas coin of the refill is set aside.  *)
LEMMA RefillExecutedHeld ==
  ASSUME PoolInv, HeldInv, NEW t \in Tx, RefillExecuted(t)
  PROVE  HeldInv'
<1> DEFINE gas == Min(IdsOf(payment[t]))
           more == SetToSeq({CurrentRef(c) : c \in minted[t]})
<1>1. /\ BuildsAt(t, "refill") /\ GoTo(t, "index") /\ <<t, "refill">> \notin inFlight
      /\ coinPool' = coinPool \o more
      /\ sourceCoins' = WithSource(gas, version[gas])
      /\ UNCHANGED <<gasCoin, payment, version, owned, minted, inFlight>>
  BY DEF RefillExecuted, refillVars, chain
<1>2. "refill" \in Building \ {"build"} /\ "index" \in Building \ {"build"}
  BY DEF Building
<1>3. /\ pc[t] = "refill" /\ pc'[t] = "index"
      /\ \A u \in Tx : u # t =>
           pc'[u] = pc[u] /\ pc'[u] \notin Refunds /\ PaymentIds(u)' = {}
      /\ SpentIds' = SpentIds /\ SpentDistinct'
      /\ NoMap' = NoMap /\ Refs' = Refs /\ NoCoin \notin Refs
  BY <1>1, <1>2, RefillGoesOn
<1>4. payment[t] \in SUBSET Refs /\ payment[t] # {} /\ PaymentIds(t) = IdsOf(payment[t])
  BY <1>1, <1>3 DEF HeldInv, PaymentTypes, PaymentIds, Refunds
<1>5. gas \in PaymentIds(t) /\ gas \in Coin
  <2>1. IdsOf(payment[t]) # {}
    <3>1. PICK r \in payment[t] : TRUE
      BY <1>4
    <3> QED
      BY <3>1 DEF IdsOf
  <2>2. IdsOf(payment[t]) \subseteq Coin
    <3> SUFFICES ASSUME NEW r \in payment[t]  PROVE r.id \in Coin
      BY DEF IdsOf
    <3> QED
      BY <1>4, RefFacts
  <2>3. IdsOf(payment[t]) \in SUBSET Nat
    BY <2>2 DEF Coin
  <2> QED
    BY <1>4, <2>1, <2>2, <2>3, MinOfNaturals
<1> HIDE DEF gas
<1>6. version[gas] \in Nat /\ PaymentTypes
  BY <1>5 DEF PoolInv, PoolTypes, HeldInv
<1>7. /\ sourceCoins' \in SUBSET Refs /\ sourceCoins' # NoMap
      /\ SourceIds' = SourceIds \cup {gas}
  BY <1>1, <1>5, <1>6, SourceWithMore
<1>8. /\ more \in Seq(Refs)
      /\ \A i, j \in DOMAIN more : more[i].id = more[j].id => i = j
      /\ \A i \in DOMAIN more : more[i].id \in minted[t]
  BY NewCoinsListed
<1> HIDE DEF more
<1>9. minted[t] \cap (PoolIds \cup SpentIds \cup SourceIds \cup PaymentIds(t)) = {}
  BY <1>3 DEF HeldInv, RefillApart
<1>10. PoolDistinct' /\ PoolIds' \subseteq PoolIds \cup minted[t]
  <2>1. coinPool \in Seq(Refs) /\ PoolDistinct
    BY DEF PoolInv, PoolTypes, HeldInv
  <2>2. \A i \in DOMAIN more : more[i].id \notin PoolIds
    BY <1>8, <1>9
  <2>3. PoolDistinct' /\ PoolIds' = PoolIds \cup {more[i].id : i \in DOMAIN more}
    BY <1>1, <1>8, <2>1, <2>2, PoolWithMore
  <2> QED
    BY <1>8, <2>3
<1>11. gas \notin PoolIds \cup SpentIds \cup minted[t]
  BY <1>5, <1>9 DEF HeldInv, RefillApart
<1>12. PlacesApart'
  BY <1>3, <1>7, <1>9, <1>10, <1>11 DEF HeldInv, PlacesApart
<1>13. PaymentIds(t)' = {}
  BY <1>3 DEF PaymentIds, Refunds
<1>14. HeldExist'
  BY <1>1, <1>3, <1>5, <1>7, <1>10, <1>13 DEF HeldInv, HeldExist, Exists
<1>15. RefillApart'
  BY <1>3, <1>13 DEF RefillApart, Refunds
<1>16. PaymentTypes'
  BY <1>1, <1>3, <1>7 DEF HeldInv, PaymentTypes, Refunds
<1>17. NothingHeldYet'
  BY <1>3, <1>7 DEF NothingHeldYet, Refunds
<1> QED
  BY <1>3, <1>10, <1>12, <1>14, <1>15, <1>16, <1>17 DEF HeldInv

(* Coins only get newer. *)
LEMMA ChainExecutesUserHeld ==
  ASSUME PoolInv, HeldInv, NEW t \in Tx, ChainExecutesUser(t)
  PROVE  HeldInv'
<1> DEFINE c == gasCoin[t].id
<1>1. /\ version' = [version EXCEPT ![c] = version[c] + 1]
      /\ owned' \in {owned, owned \ {c}}
      /\ inFlight' = inFlight \ {<<t, "user">>}
      /\ UNCHANGED <<pc, gasCoin, coinPool, sourceCoins, payment, minted>>
  BY DEF ChainExecutesUser, gasVars, refillVars
<1>2. version \in [Coin -> Nat]
  BY DEF PoolInv, PoolTypes
<1> HIDE DEF c
<1>3. \A d : Exists(d) => Exists(d)'
  BY <1>1, <1>2 DEF Exists, Coin
<1>4. /\ PoolIds' = PoolIds /\ SourceIds' = SourceIds /\ SpentIds' = SpentIds
      /\ \A u \in Tx : PaymentIds(u)' = PaymentIds(u)
      /\ PoolDistinct' /\ SpentDistinct' /\ Refs' = Refs
  BY <1>1 DEF PoolIds, SourceIds, SpentIds, PaymentIds, IdsOf, NoMap, Spenders, HeldInv,
              PoolDistinct, SpentDistinct, Refs, Coin
<1>5. PlacesApart'
  BY <1>4 DEF HeldInv, PlacesApart
<1>6. HeldExist'
  BY <1>1, <1>3, <1>4 DEF HeldInv, HeldExist
<1>7. RefillApart'
  BY <1>1, <1>4 DEF HeldInv, RefillApart
<1>8. PaymentTypes'
  BY <1>1, <1>4 DEF HeldInv, PaymentTypes, NoMap
<1>9. NothingHeldYet'
  BY <1>1 DEF HeldInv, NothingHeldYet, NoMap
<1> QED
  BY <1>4, <1>5, <1>6, <1>7, <1>8, <1>9 DEF HeldInv

(* The coins of a refill are new: nobody held them. *)
LEMMA ChainExecutesRefillHeld ==
  ASSUME PoolInv, HeldInv, NEW t \in Tx, ChainExecutesRefill(t)
  PROVE  HeldInv'
<1> DEFINE ids == IdsOf(payment[t])
           fresh == {c \in Coin : version[c] = 0}
           split == {c \in fresh : c < Min(fresh) + batchSize[t]}
<1>1. /\ Payable(payment[t])
      /\ inFlight' = inFlight \ {<<t, "refill">>}
      /\ UNCHANGED <<pc, gasCoin, coinPool, sourceCoins, payment>>
  BY DEF ChainExecutesRefill, gasVars, refillVars
<1>2. PICK new \in {{}, split} :
        /\ minted' = [minted EXCEPT ![t] = new]
        /\ version' = [c \in Coin |-> IF c \in ids \cup new THEN version[c] + 1 ELSE version[c]]
        /\ owned' = (owned \ ids) \cup {Min(ids)} \cup new
  BY DEF ChainExecutesRefill
<1>3. version \in [Coin -> Nat] /\ minted \in [Tx -> SUBSET Coin] /\ owned \subseteq Coin
  BY DEF PoolInv, PoolTypes, HeldInv, PaymentTypes
<1>4. new \subseteq Coin /\ \A c \in new : version[c] = 0
  BY <1>2
<1> HIDE DEF split, fresh
<1>5. Min(ids) \in owned /\ payment[t] # {}
  <2>1. ids \subseteq owned /\ payment[t] # {}
    BY <1>1 DEF Payable, IdsOf
  <2>2. ids \in SUBSET Nat /\ ids # {}
    <3>1. ids \in SUBSET Nat
      <4>1. owned \subseteq Nat
        BY <1>3, RefFacts
      <4> HIDE DEF ids
      <4> QED
        BY <2>1, <4>1
    <3>2. PICK r \in payment[t] : TRUE
      BY <2>1
    <3> QED
      BY <3>1, <3>2 DEF IdsOf
  <2>3. Min(ids) \in ids
    BY <2>2, MinOfNaturals
  <2> QED
    BY <2>1, <2>3
<1> DEFINE gas == Min(ids)
<1> HIDE DEF gas, ids
<1>6. owned' = (owned \ ids) \cup {gas} \cup new /\ gas \in owned
  BY <1>2, <1>5 DEF gas
<1>7. /\ \A d : Exists(d) => Exists(d)'
      /\ \A d \in new : Exists(d)' /\ ~Exists(d)
  BY <1>2, <1>3, <1>4 DEF Exists, Coin
<1>8. minted'[t] = new /\ \A u \in Tx : u # t => minted'[u] = minted[u]
  BY <1>2, <1>3
<1>9. /\ PoolIds' = PoolIds /\ SourceIds' = SourceIds /\ SpentIds' = SpentIds
      /\ \A u \in Tx : PaymentIds(u)' = PaymentIds(u)
      /\ PoolDistinct' /\ SpentDistinct' /\ Refs' = Refs
  BY <1>1 DEF PoolIds, SourceIds, SpentIds, PaymentIds, IdsOf, NoMap, Spenders, HeldInv,
              PoolDistinct, SpentDistinct, Refs, Coin
<1>10. PlacesApart'
  BY <1>9 DEF HeldInv, PlacesApart
<1>11. HeldExist'
  <2>1. \A c \in owned' \cup PoolIds' \cup SpentIds' \cup SourceIds' : Exists(c)'
    BY <1>6, <1>7, <1>9 DEF HeldInv, HeldExist
  <2>2. ASSUME NEW u \in Tx, NEW c \in PaymentIds(u)' \cup minted'[u]  PROVE Exists(c)'
    BY <1>7, <1>8, <1>9, <2>2 DEF HeldInv, HeldExist
  <2> QED
    BY <2>1, <2>2 DEF HeldExist
<1>12. RefillApart'
  <2> SUFFICES ASSUME NEW u \in Tx
               PROVE  /\ PaymentIds(u)' \cap (PoolIds' \cup SpentIds') = {}
                      /\ pc'[u] = "refill" =>
                           minted'[u] \cap (PoolIds' \cup SpentIds' \cup SourceIds'
                                              \cup PaymentIds(u)') = {}
    BY DEF RefillApart
  <2>1. CASE u = t
    <3>1. new \cap (PoolIds \cup SpentIds \cup SourceIds \cup PaymentIds(t)) = {}
      BY <1>7 DEF HeldInv, HeldExist
    <3> QED
      BY <1>8, <1>9, <2>1, <3>1 DEF HeldInv, RefillApart
  <2>2. CASE u # t
    BY <1>1, <1>8, <1>9, <2>2 DEF HeldInv, RefillApart
  <2> QED
    BY <2>1, <2>2
<1>13. PaymentTypes'
  <2>1. owned' \subseteq Coin
    BY <1>3, <1>4, <1>6
  <2>2. NoMap' = NoMap /\ Coin' = Coin
    BY DEF NoMap, Coin
  <2>3. \A u \in Tx : pc'[u] = "refill" =>
          payment'[u] # NoMap /\ (<<u, "refill">> \in inFlight' \/ payment'[u] # {})
    <3> SUFFICES ASSUME NEW u \in Tx, pc[u] = "refill"
                 PROVE  payment[u] # NoMap /\ (<<u, "refill">> \in inFlight' \/ payment[u] # {})
      BY <1>1
    <3>1. CASE u = t
      BY <1>5, <3>1 DEF HeldInv, PaymentTypes
    <3>2. CASE u # t
      BY <1>1, <3>2 DEF HeldInv, PaymentTypes
    <3> QED
      BY <3>1, <3>2
  <2> QED
    BY <1>1, <1>9, <2>1, <2>2, <2>3 DEF HeldInv, PaymentTypes
<1>14. NothingHeldYet'
  BY <1>1 DEF HeldInv, NothingHeldYet, NoMap
<1> QED
  BY <1>9, <1>10, <1>11, <1>12, <1>13, <1>14 DEF HeldInv

----------------------------------------------------------------------------
(* A new executor. *)
LEMMA HeldInit == Init => HeldInv
<1> SUFFICES ASSUME Init  PROVE HeldInv
  OBVIOUS
<1>1. /\ pc = [t \in Tx |-> "none"] /\ gasCoin = [t \in Tx |-> NoCoin] /\ coinPool = <<>>
      /\ payment = [t \in Tx |-> {}] /\ minted = [t \in Tx |-> {}]
      /\ sourceCoins \in {NoMap, {Ref(c, Unknown) : c \in 1 .. InitialCoins}}
      /\ owned = 1 .. InitialCoins
      /\ version = [c \in Coin |-> IF c <= InitialCoins THEN 1 ELSE 0]
  BY DEF Init
<1>2. 1 .. InitialCoins \subseteq Coin /\ NoCoin \notin Refs
  <2>1. Cardinality(Tx) \in Nat
    BY SchedulerAssumption, FS_CardinalityType
  <2> DEFINE n == Cardinality(Tx)
  <2> HIDE DEF n
  <2>2. n \in Nat /\ Coin = 1 .. InitialCoins + CoinBatchSize * n
    BY <2>1 DEF Coin, n
  <2>3. CoinBatchSize * n \in Nat
    BY <2>2, ExecutorAssumption
  <2> QED
    BY <2>2, <2>3, ExecutorAssumption, RefFacts
<1>3. \A c \in 1 .. InitialCoins : Exists(c)
  BY <1>1, <1>2 DEF Exists
<1>4. \A c \in 1 .. InitialCoins : Ref(c, Unknown) \in Refs /\ Ref(c, Unknown).id = c
  BY <1>2, RefFacts DEF Unknown
<1>5. SourceIds \subseteq 1 .. InitialCoins
  <2>1. CASE sourceCoins = NoMap
    BY <2>1 DEF SourceIds, IdsOf
  <2>2. CASE sourceCoins = {Ref(c, Unknown) : c \in 1 .. InitialCoins}
    BY <1>4, <2>2 DEF SourceIds, IdsOf
  <2> QED
    BY <1>1, <2>1, <2>2
<1>6. PoolIds = {} /\ SpentIds = {} /\ Spenders = {} /\ \A t \in Tx : PaymentIds(t) = {}
  BY <1>1 DEF PoolIds, SpentIds, Spenders, PaymentIds, Refunds
<1>7. PaymentTypes
  BY <1>1, <1>2, <1>4 DEF PaymentTypes, Unknown
<1>8. HeldExist
  BY <1>1, <1>3, <1>5, <1>6 DEF HeldExist
<1>9. NothingHeldYet
  BY <1>1 DEF NothingHeldYet
<1>10. RefillApart
  BY <1>1, <1>6 DEF RefillApart
<1>11. PoolDistinct /\ SpentDistinct /\ PlacesApart
  BY <1>1, <1>6 DEF PoolDistinct, SpentDistinct, PlacesApart
<1> QED
  BY <1>7, <1>8, <1>9, <1>10, <1>11 DEF HeldInv

(* Every step keeps it. *)
LEMMA HeldStep ==
  ASSUME PoolInv, HeldInv, [Next]_vars
  PROVE  HeldInv'
<1>1. CASE UNCHANGED vars
  <2>1. UNCHANGED <<pc, gasCoin, coinPool, sourceCoins, payment, version, owned, minted, inFlight>>
    BY <1>1 DEF vars, gasVars, refillVars, chain
  <2>2. Spenders' \subseteq Spenders
    BY <2>1 DEF Spenders
  <2> QED
    BY <2>1, <2>2, QuietHeld
<1>2. ASSUME NEW t \in Tx, PrepareFails(t)  PROVE HeldInv'
  <2>1. UNCHANGED <<pc, gasCoin, coinPool, sourceCoins, payment, version, owned, minted, inFlight>>
    BY <1>2 DEF PrepareFails, gasVars, refillVars, chain
  <2>2. Spenders' \subseteq Spenders
    BY <2>1 DEF Spenders
  <2> QED
    BY <2>1, <2>2, QuietHeld
<1>3. ASSUME NEW t \in Tx, NEW ids \in SUBSET Object, ExecuteTransaction(t, ids)  PROVE HeldInv'
  <2>1. UNCHANGED <<gasCoin, coinPool, sourceCoins, refillVars, chain>>
    BY <1>3 DEF ExecuteTransaction, gasVars
  <2> QED
    BY <1>3, <2>1, SchedulingHeld DEF ExecuteTransaction
<1>4. ASSUME NEW t \in Tx, RunsOn(t)  PROVE HeldInv'
  <2>1. ASSUME NEW ready \in SetToSeqs(Woken(t)), Rethrow(t, ready)  PROVE HeldInv'
    <3>1. /\ EnterBuild(Started(ready), [pc EXCEPT ![t] = "none"])
          /\ \A u \in Tx : [pc EXCEPT ![t] = "none"][u] \in {pc[u], "none"}
          /\ UNCHANGED <<gasCoin, coinPool, sourceCoins, refillVars, chain>>
      BY <2>1, LeaveHeld DEF Rethrow, PoolInv
    <3> QED
      BY <3>1, SchedulingHeld
  <2>2. CASE \E ready \in SetToSeqs(Woken(t)) : Finish(t, ready)
    BY <2>2, FinishHeld
  <2>3. CASE SlotFreed(t)
    <3>1. UNCHANGED <<gasCoin, coinPool, sourceCoins, refillVars, chain>>
      BY <2>3 DEF SlotFreed, gasVars
    <3> QED
      BY <2>3, <3>1, SchedulingHeld DEF SlotFreed
  <2>4. CASE TakeCoin(t) \/ StartRefill(t) \/ SourceCoinsFetched(t) \/ SubmitRefill(t) \/ RefillExecuted(t)
    BY <2>4, TakeCoinHeld, StartRefillHeld, SourceCoinsFetchedHeld, SubmitRefillHeld, RefillExecutedHeld
  <2>5. CASE BuildTaskDone(t) \/ Submit(t) \/ BuildTaskFails(t) \/ Catch(t)
    BY <2>5, PassesHeld, CatchHeld
  <2> QED
    BY <1>4, <2>1, <2>2, <2>3, <2>4, <2>5 DEF RunsOn
<1>5. ASSUME NEW t \in Tx, ChainStep(t)  PROVE HeldInv'
  BY <1>5, ChainExecutesUserHeld, ChainExecutesRefillHeld DEF ChainStep
<1> QED
  BY <1>1, <1>2, <1>3, <1>4, <1>5 DEF Next

(* Where every gas coin is: the pool, a call, #sourceCoins, the payment or *)
(* the new coins of the refill under way (parallel.ts:200-306, 364-455).   *)
THEOREM HeldInvariant == Spec => [](IInv /\ PoolInv /\ HeldInv)
<1>1. Init => HeldInv
  BY HeldInit
<1>2. PoolInv /\ HeldInv /\ [Next]_vars => HeldInv'
  BY HeldStep
<1> QED
  BY <1>1, <1>2, PoolInvariant, PTL DEF Spec

(* #coinPool, #sourceCoins and the calls of #execute never share a coin:   *)
(* two calls never pay with the same coin, no coin is in the pool twice or *)
(* in the pool and with a call, and no refill pays with a coin in use,     *)
(* whatever fails and whatever executes late.                              *)
THEOREM CoinsHeldOnce == Spec => []CoinHeldOnce
BY HeldInvariant, HeldOnce, PTL

----------------------------------------------------------------------------
(* The coins that are handed out are current.                              *)

CurrentTypes ==
  /\ batchSize \in [Tx -> 0 .. CoinBatchSize]
  /\ inFlight \subseteq Tx \X {"user", "refill"}

(* The coins a refill under way has made. *)
MintedIds == UNION {minted[t] : t \in {u \in Tx : pc[u] = "refill"}}

(* The coins that are handed out, or will be. *)
InPlay == PoolIds \cup SpentIds \cup MintedIds

(* A submission that may still be executed pays with the call's own coin,  *)
(* or, when the call has given up, with one that is never handed out again.*)
LateCall(t) ==
  /\ gasCoin[t] # NoCoin /\ pc[t] \in {"submit", "catch", "none"}
  /\ Exists(gasCoin[t].id)
  /\ t \notin Spenders => gasCoin[t].id \notin InPlay

(* So does a refill, from the start. *)
LateRefill(t) ==
  /\ minted[t] = {} /\ payment[t] # NoMap
  /\ \A c \in IdsOf(payment[t]) : Exists(c) /\ c \notin InPlay

(* The inductive invariant: GasCoinsCurrent, and that whatever the chain   *)
(* may still execute disturbs no coin that is handed out.                  *)
CurrentInv ==
  /\ CurrentTypes
  /\ \A t \in Tx : <<t, "user">> \in inFlight => LateCall(t)
  /\ \A t \in Tx : <<t, "refill">> \in inFlight => LateRefill(t)
  /\ MintedIds \subseteq owned
  /\ GasCoinsCurrent

(* A step of the client, which leaves the chain alone. *)
LEMMA CurrentKept ==
  ASSUME CurrentInv, CurrentTypes', GasCoinsCurrent',
         UNCHANGED <<version, owned, minted>>,
         InPlay' \subseteq InPlay, MintedIds' \subseteq MintedIds,
         \A u \in Tx : <<u, "user">> \in inFlight' =>
            \/ /\ <<u, "user">> \in inFlight
               /\ gasCoin'[u] = gasCoin[u] /\ pc'[u] \in {"submit", "catch", "none"}
               /\ u \in Spenders => u \in Spenders' \/ gasCoin[u].id \notin InPlay'
            \/ LateCall(u)',
         \A u \in Tx : <<u, "refill">> \in inFlight' =>
            \/ <<u, "refill">> \in inFlight /\ payment'[u] = payment[u]
            \/ LateRefill(u)'
  PROVE  CurrentInv'
<1>1. \A c : Exists(c)' <=> Exists(c)
  BY DEF Exists, Coin
<1>2. ASSUME NEW u \in Tx, <<u, "user">> \in inFlight'  PROVE LateCall(u)'
  <2> SUFFICES ASSUME <<u, "user">> \in inFlight,
                      gasCoin'[u] = gasCoin[u] /\ pc'[u] \in {"submit", "catch", "none"},
                      u \in Spenders => u \in Spenders' \/ gasCoin[u].id \notin InPlay'
               PROVE  LateCall(u)'
    BY <1>2
  <2>1. /\ gasCoin[u] # NoCoin /\ Exists(gasCoin[u].id)
        /\ u \notin Spenders => gasCoin[u].id \notin InPlay
    BY DEF CurrentInv, LateCall
  <2>2. u \notin Spenders' => gasCoin'[u].id \notin InPlay'
    BY <2>1
  <2>3. gasCoin'[u].id \in Coin /\ version'[gasCoin'[u].id] > 0
    BY <2>1 DEF Exists
  <2> QED
    BY <2>1, <2>2, <2>3 DEF LateCall, Exists, Coin
<1>3. ASSUME NEW u \in Tx, <<u, "refill">> \in inFlight'  PROVE LateRefill(u)'
  <2> SUFFICES ASSUME <<u, "refill">> \in inFlight, payment'[u] = payment[u]
               PROVE  LateRefill(u)'
    BY <1>3
  <2>1. /\ minted[u] = {} /\ payment[u] # NoMap
        /\ \A c \in IdsOf(payment[u]) : Exists(c) /\ c \notin InPlay
    BY DEF CurrentInv, LateRefill
  <2>2. IdsOf(payment'[u]) = IdsOf(payment[u]) /\ NoMap' = NoMap
    BY DEF IdsOf, NoMap
  <2>3. \A c \in IdsOf(payment'[u]) : Exists(c)' /\ c \notin InPlay'
    BY <1>1, <2>1, <2>2
  <2> QED
    BY <2>1, <2>2, <2>3 DEF LateRefill, IdsOf
<1>4. MintedIds' \subseteq owned'
  BY DEF CurrentInv
<1> QED
  BY <1>2, <1>3, <1>4 DEF CurrentInv

(* Versions do not change. *)
LEMMA CoinsStayCurrent ==
  ASSUME GasCoinsCurrent, UNCHANGED <<gasCoin, coinPool, version, owned>>,
         \A u \in Tx : pc'[u] \in {"build", "sign"} => pc[u] \in {"build", "sign"}
  PROVE  GasCoinsCurrent'
BY DEF GasCoinsCurrent, Payable, CurrentRef, Ref

(* Who gives a coin up for good leaves it to nobody. *)
LEMMA NobodyElses ==
  ASSUME HeldInv, NEW t \in Spenders
  PROVE  /\ gasCoin[t].id \notin PoolIds \cup MintedIds
         /\ \A u \in Spenders \ {t} : gasCoin[u].id # gasCoin[t].id
<1>1. gasCoin[t].id \in SpentIds
  BY DEF SpentIds
<1>2. gasCoin[t].id \notin MintedIds
  BY <1>1 DEF MintedIds, HeldInv, RefillApart
<1>3. gasCoin[t].id \notin PoolIds
  BY <1>1 DEF HeldInv, PlacesApart
<1>4. \A u \in Spenders \ {t} : gasCoin[u].id # gasCoin[t].id
  BY DEF HeldInv, SpentDistinct
<1> QED
  BY <1>2, <1>3, <1>4

(* Steps that move no coin into anybody's hands. *)
LEMMA QuietCurrent ==
  ASSUME HeldInv, CurrentInv, CurrentTypes',
         UNCHANGED <<gasCoin, coinPool, version, owned, minted, inFlight>>,
         Spenders' \subseteq Spenders,
         \A u \in Tx : pc'[u] \in {"build", "sign"} => pc[u] \in {"build", "sign"},
         \A u \in Tx : pc'[u] = "refill" => pc[u] = "refill",
         \A u \in Tx : <<u, "user">> \in inFlight => pc'[u] \in {"submit", "catch", "none"},
         \A u \in Tx : <<u, "refill">> \in inFlight => payment'[u] = payment[u]
  PROVE  CurrentInv'
<1>1. GasCoinsCurrent'
  BY CoinsStayCurrent DEF CurrentInv
<1>2. PoolIds' = PoolIds /\ SpentIds' = {gasCoin[u].id : u \in Spenders'}
      /\ SpentIds' \subseteq SpentIds /\ MintedIds' \subseteq MintedIds
  BY DEF PoolIds, SpentIds, MintedIds
<1>3. InPlay' \subseteq InPlay
  BY <1>2 DEF InPlay
<1>4. ASSUME NEW u \in Spenders, u \notin Spenders'  PROVE gasCoin[u].id \notin InPlay'
  <2>1. /\ gasCoin[u].id \notin PoolIds \cup MintedIds
        /\ \A w \in Spenders \ {u} : gasCoin[w].id # gasCoin[u].id
    BY NobodyElses
  <2>2. gasCoin[u].id \notin SpentIds'
    BY <1>2, <1>4, <2>1
  <2> QED
    BY <1>2, <2>1, <2>2 DEF InPlay
<1>5. \A u \in Tx : <<u, "user">> \in inFlight' =>
          /\ <<u, "user">> \in inFlight
          /\ gasCoin'[u] = gasCoin[u] /\ pc'[u] \in {"submit", "catch", "none"}
          /\ u \in Spenders => u \in Spenders' \/ gasCoin[u].id \notin InPlay'
  BY <1>4
<1>6. \A u \in Tx : <<u, "refill">> \in inFlight' =>
          <<u, "refill">> \in inFlight /\ payment'[u] = payment[u]
  OBVIOUS
<1> QED
  BY <1>1, <1>2, <1>3, <1>5, <1>6, CurrentKept

(* Calls that are in the build queue, or in it again, submitted nothing. *)
LEMMA SchedulingCurrent ==
  ASSUME PoolInv', HeldInv, CurrentInv,
         NEW started, NEW others, EnterBuild(started, others),
         \A u \in Tx : others[u] \in {pc[u], "none"},
         UNCHANGED <<gasCoin, coinPool, refillVars, chain>>
  PROVE  CurrentInv'
<1>1. \A u \in Tx : pc'[u] \in {pc[u], "start", "none"}
  BY DEF EnterBuild
<1>2. \A u \in Tx : pc'[u] = "start" => gasCoin[u] = NoCoin
  BY DEF PoolInv, Stages, Building, refillVars
<1>3. CurrentTypes' /\ UNCHANGED <<payment, version, owned, minted, inFlight>>
  BY DEF CurrentInv, CurrentTypes, refillVars, chain
<1>4. Spenders' \subseteq Spenders
  BY <1>1 DEF Spenders
<1>5. \A u \in Tx : <<u, "user">> \in inFlight => pc'[u] \in {"submit", "catch", "none"}
  BY <1>1, <1>2 DEF CurrentInv, LateCall
<1>6. /\ \A u \in Tx : pc'[u] \in {"build", "sign"} => pc[u] \in {"build", "sign"}
      /\ \A u \in Tx : pc'[u] = "refill" => pc[u] = "refill"
  BY <1>1
<1> QED
  BY <1>3, <1>4, <1>5, <1>6, QuietCurrent

(* The steps of one call that move no coin into anybody's hands. *)
LEMMA PassesCurrent ==
  ASSUME PoolInv, HeldInv, CurrentInv, NEW t \in Tx,
         \/ BuildTaskDone(t) \/ BuildTaskFails(t) \/ Catch(t)
         \/ StartRefill(t) \/ SourceCoinsFetched(t)
  PROVE  CurrentInv'
<1>1. PICK to \in {"fetch", "unpaid", "sign", "failed", "catch"} : GoTo(t, to)
  BY DEF BuildTaskDone, BuildTaskFails, Catch, StartRefill, SourceCoinsFetched
<1>2. pc'[t] = to /\ \A u \in Tx : u # t => pc'[u] = pc[u]
  BY <1>1 DEF PoolInv, PoolTypes, GoTo
<1>3. UNCHANGED <<gasCoin, coinPool, version, owned, minted, inFlight>>
  BY DEF BuildTaskDone, BuildTaskFails, Catch, StartRefill, SourceCoinsFetched, gasVars, chain
<1>4. /\ to = "catch" => pc[t] \in {"failed", "sign", "submit"}
      /\ to # "catch" => pc[t] \in Building
      /\ to = "sign" => pc[t] = "build"
      /\ to \in {"sign", "failed"} => gasCoin[t] = NoCoin \/ pc[t] = "build"
  <2>1. CASE Catch(t)
    BY <1>2, <2>1 DEF Catch, GoTo, PoolInv, PoolTypes
  <2>2. CASE BuildTaskDone(t)
    BY <1>2, <2>2 DEF BuildTaskDone, BuildsAt, Building, GoTo, PoolInv, PoolTypes
  <2>3. CASE BuildTaskFails(t)
    BY <1>2, <2>3 DEF BuildTaskFails, BuildsAt, GoTo, PoolInv, PoolTypes, Stages
  <2>4. CASE StartRefill(t) \/ SourceCoinsFetched(t)
    BY <1>2, <2>4 DEF StartRefill, SourceCoinsFetched, BuildsAt, Building, GoTo, PoolInv, PoolTypes
  <2> QED
    BY <2>1, <2>2, <2>3, <2>4
<1>5. Spenders' \subseteq Spenders
  BY <1>2, <1>3, <1>4 DEF Spenders
<1>6. /\ \A u \in Tx : pc'[u] \in {"build", "sign"} => pc[u] \in {"build", "sign"}
      /\ \A u \in Tx : pc'[u] = "refill" => pc[u] = "refill"
  BY <1>2, <1>4
<1>7. \A u \in Tx : <<u, "user">> \in inFlight => pc'[u] \in {"submit", "catch", "none"}
  BY <1>2, <1>4 DEF CurrentInv, LateCall, Building
<1>8. \A u \in Tx : <<u, "refill">> \in inFlight => payment'[u] = payment[u]
  <2>1. CASE StartRefill(t) \/ SourceCoinsFetched(t)
    <3>1. pc[t] \in {"start", "fetch"} /\ \A u \in Tx : u # t => payment'[u] = payment[u]
      BY <2>1 DEF StartRefill, SourceCoinsFetched, BuildsAt, HeldInv, PaymentTypes
    <3>2. <<t, "refill">> \notin inFlight
      BY <3>1 DEF PoolInv, RefillsFollow
    <3> QED
      BY <3>1, <3>2
  <2>2. CASE BuildTaskDone(t) \/ BuildTaskFails(t) \/ Catch(t)
    BY <2>2 DEF BuildTaskDone, BuildTaskFails, Catch, refillVars
  <2> QED
    BY <2>1, <2>2
<1>9. CurrentTypes'
  <2>1. batchSize' \in [Tx -> 0 .. CoinBatchSize]
    <3>1. CASE ~StartRefill(t)
      BY <3>1 DEF BuildTaskDone, BuildTaskFails, Catch, SourceCoinsFetched, refillVars,
                  CurrentInv, CurrentTypes
    <3>2. CASE StartRefill(t)
      <4>1. /\ Len(coinPool) = 0 /\ pendingTransactions \in Int
            /\ pendingTransactions <= MaxPoolSize /\ MaxPoolSize \in Nat
            /\ CoinBatchSize \in Nat
        BY <3>2, SchedulerAssumption, ExecutorAssumption
           DEF StartRefill, NeedsRefill, PoolInv, PoolTypes
      <4>2. RefillSize = Min({CoinBatchSize, MaxPoolSize - (0 + pendingTransactions) + 1})
        BY <4>1 DEF RefillSize
      <4>3. MaxPoolSize - (0 + pendingTransactions) + 1 \in Nat
        BY <4>1
      <4>4. RefillSize \in Nat /\ RefillSize <= CoinBatchSize
        BY <4>1, <4>2, <4>3, MinOfTwo
      <4>5. RefillSize \in 0 .. CoinBatchSize
        BY <4>1, <4>4
      <4>6. batchSize' = [batchSize EXCEPT ![t] = RefillSize]
        BY <3>2 DEF StartRefill
      <4> QED
        BY <4>5, <4>6 DEF CurrentInv, CurrentTypes
    <3> QED
      BY <3>1, <3>2
  <2> QED
    BY <1>3, <2>1 DEF CurrentInv, CurrentTypes
<1> QED
  BY <1>3, <1>5, <1>6, <1>7, <1>8, <1>9, QuietCurrent

(* The pool with current coins at its end. *)
LEMMA PoolGains ==
  ASSUME coinPool \in Seq(Refs), NEW more \in Seq(Refs), coinPool' = coinPool \o more
  PROVE  /\ PoolIds' \subseteq PoolIds \cup {more[i].id : i \in DOMAIN more}
         /\ \A i \in DOMAIN coinPool' :
              \/ i \in DOMAIN coinPool /\ coinPool'[i] = coinPool[i]
              \/ \E j \in DOMAIN more : coinPool'[i] = more[j]
<1> DEFINE m == Len(coinPool)
           n == Len(more)
           r == coinPool'
<1>1. m \in Nat /\ n \in Nat /\ DOMAIN coinPool = 1 .. m /\ DOMAIN more = 1 .. n
  BY LenProperties
<1>2. /\ r \in Seq(Refs) /\ Len(r) = m + n
      /\ \A i \in 1 .. m + n : r[i] = IF i <= m THEN coinPool[i] ELSE more[i - m]
  BY ConcatProperties
<1>3. DOMAIN r = 1 .. m + n
  BY <1>2, LenProperties
<1>4. PoolIds' = {r[i].id : i \in DOMAIN r}
  BY DEF PoolIds
<1> HIDE DEF m, n, r
<1>5. ASSUME NEW i \in DOMAIN r
      PROVE  \/ i \in DOMAIN coinPool /\ r[i] = coinPool[i]
             \/ \E j \in DOMAIN more : r[i] = more[j]
  <2>1. CASE i <= m
    <3>1. i \in 1 .. m + n /\ i \in 1 .. m
      BY <1>1, <1>3, <2>1
    <3> QED
      BY <1>1, <1>2, <2>1, <3>1
  <2>2. CASE ~(i <= m)
    <3>1. i \in 1 .. m + n /\ i - m \in 1 .. n
      BY <1>1, <1>3, <2>2
    <3> QED
      BY <1>1, <1>2, <2>2, <3>1
  <2> QED
    BY <2>1, <2>2
<1>6. PoolIds' \subseteq PoolIds \cup {more[i].id : i \in DOMAIN more}
  BY <1>4, <1>5 DEF PoolIds
<1> QED
  BY <1>5, <1>6 DEF r

(* New coins are current. *)
LEMMA MoreCurrent ==
  ASSUME GasCoinsCurrent, coinPool \in Seq(Refs), NEW more \in Seq(Refs), coinPool' = coinPool \o more,
         \A i \in DOMAIN more : Payable({more[i]}),
         UNCHANGED <<gasCoin, version, owned>>,
         \A u \in Tx : pc'[u] \in {"build", "sign"} => pc[u] \in {"build", "sign"}
  PROVE  GasCoinsCurrent'
<1>1. \A r : Payable({r})' <=> Payable({r})
  BY DEF Payable, CurrentRef, Ref
<1>2. \A i \in DOMAIN coinPool' : Payable({coinPool'[i]})
  BY PoolGains DEF GasCoinsCurrent
<1>3. \A u \in Tx : pc'[u] \in {"build", "sign"} => Payable({gasCoin'[u]})
  BY DEF GasCoinsCurrent
<1> QED
  BY <1>1, <1>2, <1>3 DEF GasCoinsCurrent

(* A call that was executed gives back the coin at its new version. *)
LEMMA FinishCurrent ==
  ASSUME PoolInv, PoolInv', HeldInv, CurrentInv, NEW t \in Tx, NEW ready, Finish(t, ready)
  PROVE  CurrentInv'
<1> DEFINE c == gasCoin[t].id
<1>1. /\ pc[t] = "submit" /\ <<t, "user">> \notin inFlight
      /\ GiveBack(gasCoin[t]) /\ Leave(t, ready)
      /\ UNCHANGED <<gasCoin, payment, batchSize, version, owned, minted, inFlight>>
  BY DEF Finish, refillVars, chain
<1>2. PoolTypes /\ t \in Spenders /\ gasCoin[t] \in Refs /\ coinPool \in Seq(Refs)
  BY <1>1 DEF Spenders, PoolInv, PoolTypes, Stages
<1>3. c \in SpentIds /\ c \in Coin
  BY <1>2, RefFacts DEF SpentIds
<1>4. /\ \A u \in Tx : pc'[u] \in {"start", "none"} \/ (u # t /\ pc'[u] = pc[u])
      /\ \A u \in Tx : u # t => pc'[u] \in {"start", pc[u]}
  <2>1. \A u \in Tx : pc'[u] = IF u \in ToSet(Started(ready)) THEN "start"
                                ELSE [pc EXCEPT ![t] = "none"][u]
    BY <1>1 DEF Leave, EnterBuild
  <2>2. \A u \in Tx : [pc EXCEPT ![t] = "none"][u] = IF u = t THEN "none" ELSE pc[u]
    BY <1>2 DEF PoolTypes
  <2> QED
    BY <2>1, <2>2
<1>5. Spenders' \subseteq Spenders
  BY <1>1, <1>4 DEF Spenders
<1> HIDE DEF c
<1>6. SpentIds' \subseteq SpentIds /\ MintedIds' \subseteq MintedIds
  <2>1. \A u \in Tx : pc'[u] = "refill" => pc[u] = "refill"
    BY <1>4
  <2> QED
    BY <1>1, <1>5, <2>1 DEF SpentIds, MintedIds
<1>7. \A u \in Tx : pc'[u] \in {"build", "sign"} => pc[u] \in {"build", "sign"}
  BY <1>4
<1>8. PoolIds' \subseteq PoolIds \cup {c} /\ GasCoinsCurrent'
  <2>1. CASE c \in owned /\ coinPool' = Append(coinPool, CurrentRef(c))
    <3> DEFINE more == <<CurrentRef(c)>>
    <3>1. CurrentRef(c) \in Refs /\ CurrentRef(c).id = c
      BY <1>2, <1>3, RefFacts DEF CurrentRef, PoolTypes
    <3>2. coinPool' = coinPool \o more /\ more \in Seq(Refs)
      BY <1>2, <2>1, <3>1, AppendIsConcat
    <3>3. DOMAIN more = {1} /\ more[1] = CurrentRef(c)
      OBVIOUS
    <3>4. Payable({CurrentRef(c)})
      BY <2>1, <3>1 DEF Payable
    <3> HIDE DEF more
    <3>5. \A i \in DOMAIN more : Payable({more[i]}) /\ more[i].id = c
      BY <3>1, <3>3, <3>4
    <3>6. PoolIds' \subseteq PoolIds \cup {c}
      <4>1. PoolIds' \subseteq PoolIds \cup {more[i].id : i \in DOMAIN more}
        BY <1>2, <3>2, PoolGains
      <4> QED
        BY <3>5, <4>1
    <3>7. GasCoinsCurrent'
      BY <1>1, <1>2, <1>7, <3>2, <3>5, MoreCurrent DEF CurrentInv
    <3> QED
      BY <3>6, <3>7
  <2>2. CASE UNCHANGED coinPool
    BY <1>1, <1>7, <2>2, CoinsStayCurrent DEF PoolIds, CurrentInv
  <2> QED
    BY <1>1, <2>1, <2>2 DEF GiveBack, c
<1>9. InPlay' \subseteq InPlay
  BY <1>3, <1>6, <1>8 DEF InPlay
<1>10. \A u \in Tx : <<u, "user">> \in inFlight =>
          /\ pc'[u] \in {"submit", "catch", "none"}
          /\ u \in Spenders => u \in Spenders'
  <2> SUFFICES ASSUME NEW u \in Tx, <<u, "user">> \in inFlight
               PROVE  /\ pc'[u] \in {"submit", "catch", "none"}
                      /\ u \in Spenders => u \in Spenders'
    OBVIOUS
  <2>1. gasCoin[u] # NoCoin /\ pc[u] \in {"submit", "catch", "none"} /\ u # t
    BY <1>1 DEF CurrentInv, LateCall
  <2>2. pc'[u] # "start"
    BY <1>1, <2>1 DEF PoolInv, Stages, Building
  <2>3. pc'[u] = pc[u]
    BY <1>4, <2>1, <2>2
  <2> QED
    BY <1>1, <2>1, <2>3 DEF Spenders
<1>11. CurrentTypes'
  BY <1>1 DEF CurrentInv, CurrentTypes
<1> QED
  BY <1>1, <1>6, <1>8, <1>9, <1>10, <1>11, CurrentKept

(* A coin of the pool becomes the call's. *)
LEMMA TakeCoinCurrent ==
  ASSUME PoolInv, HeldInv, CurrentInv, NEW t \in Tx, TakeCoin(t)
  PROVE  CurrentInv'
<1> DEFINE c == Head(coinPool).id
<1>1. /\ coinPool # <<>> /\ GoTo(t, "build")
      /\ gasCoin' = [gasCoin EXCEPT ![t] = Head(coinPool)]
      /\ coinPool' = Tail(coinPool)
      /\ UNCHANGED <<payment, batchSize, version, owned, minted, inFlight>>
  BY DEF TakeCoin, refillVars, chain
<1>2. PoolTypes /\ coinPool \in Seq(Refs)
  BY DEF PoolInv, PoolTypes
<1>3. pc[t] \in {"start", "index"}
  BY DEF TakeCoin, BuildsAt
<1>4. pc'[t] = "build" /\ \A u \in Tx : u # t => pc'[u] = pc[u]
  BY <1>1, <1>2 DEF PoolTypes, GoTo
<1>5. gasCoin'[t] = Head(coinPool) /\ \A u \in Tx : u # t => gasCoin'[u] = gasCoin[u]
  BY <1>1, <1>2 DEF PoolTypes
<1>6. /\ Head(coinPool) = coinPool[1] /\ 1 \in DOMAIN coinPool
      /\ \A i \in DOMAIN coinPool' : i + 1 \in DOMAIN coinPool /\ coinPool'[i] = coinPool[i + 1]
  <2> DEFINE m == Len(coinPool)
             r == coinPool'
  <2>1. m \in Nat \ {0} /\ DOMAIN coinPool = 1 .. m /\ Head(coinPool) = coinPool[1]
    BY <1>1, <1>2, LenProperties, EmptySeq
  <2>2. DOMAIN r = 1 .. m - 1 /\ \A i \in 1 .. m - 1 : r[i] = coinPool[i + 1]
    BY <1>1, <1>2, <2>1, HeadTailProperties, LenProperties
  <2> HIDE DEF m, r
  <2>3. 1 \in 1 .. m /\ \A i \in 1 .. m - 1 : i + 1 \in 1 .. m
    BY <2>1
  <2>4. \A i \in DOMAIN r : i + 1 \in DOMAIN coinPool /\ r[i] = coinPool[i + 1]
    BY <2>1, <2>2, <2>3
  <2> QED
    BY <2>1, <2>3, <2>4 DEF r
<1>7. c \in PoolIds /\ PoolIds' \subseteq PoolIds
  BY <1>6 DEF PoolIds
<1> HIDE DEF c
<1>8. Spenders' \subseteq Spenders \cup {t} /\ \A u \in Spenders \ {t} : u \in Spenders'
  BY <1>4, <1>5 DEF Spenders
<1>9. SpentIds' \subseteq SpentIds \cup {c} /\ MintedIds' \subseteq MintedIds
  <2>1. \A u \in Spenders' : gasCoin'[u].id \in SpentIds \cup {c}
    <3> SUFFICES ASSUME NEW u \in Spenders'  PROVE gasCoin'[u].id \in SpentIds \cup {c}
      OBVIOUS
    <3>1. CASE u = t
      BY <1>5, <3>1 DEF c
    <3>2. CASE u # t
      <4>1. u \in Spenders /\ gasCoin'[u] = gasCoin[u]
        BY <1>5, <1>8, <3>2 DEF Spenders
      <4> QED
        BY <4>1 DEF SpentIds
    <3> QED
      BY <3>1, <3>2
  <2>2. \A u \in Tx : pc'[u] = "refill" => pc[u] = "refill"
    BY <1>4
  <2> QED
    BY <1>1, <2>1, <2>2 DEF SpentIds, MintedIds
<1>10. InPlay' \subseteq InPlay
  BY <1>7, <1>9 DEF InPlay
<1>11. GasCoinsCurrent'
  <2>1. \A r : Payable({r})' <=> Payable({r})
    BY <1>1 DEF Payable, CurrentRef, Ref
  <2>2. \A i \in DOMAIN coinPool' : Payable({coinPool'[i]})
    BY <1>6 DEF CurrentInv, GasCoinsCurrent
  <2>3. \A u \in Tx : pc'[u] \in {"build", "sign"} => Payable({gasCoin'[u]})
    BY <1>4, <1>5, <1>6 DEF CurrentInv, GasCoinsCurrent
  <2> QED
    BY <2>1, <2>2, <2>3 DEF GasCoinsCurrent
<1>12. \A u \in Tx : <<u, "user">> \in inFlight =>
          /\ gasCoin'[u] = gasCoin[u] /\ pc'[u] \in {"submit", "catch", "none"}
          /\ u \in Spenders => u \in Spenders'
  <2> SUFFICES ASSUME NEW u \in Tx, <<u, "user">> \in inFlight
               PROVE  /\ gasCoin'[u] = gasCoin[u] /\ pc'[u] \in {"submit", "catch", "none"}
                      /\ u \in Spenders => u \in Spenders'
    OBVIOUS
  <2>1. pc[u] \in {"submit", "catch", "none"}
    BY DEF CurrentInv, LateCall
  <2>2. u # t
    BY <1>3, <2>1
  <2> QED
    BY <1>4, <1>5, <1>8, <2>1, <2>2
<1>13. CurrentTypes'
  BY <1>1 DEF CurrentInv, CurrentTypes
<1> QED
  BY <1>1, <1>9, <1>10, <1>11, <1>12, <1>13, CurrentKept

(* The submission pays with a coin that is current: it exists. *)
LEMMA SubmitCurrent ==
  ASSUME PoolInv, HeldInv, CurrentInv, NEW t \in Tx, Submit(t)
  PROVE  CurrentInv'
<1>1. /\ pc[t] = "sign" /\ GoTo(t, "submit")
      /\ inFlight' = inFlight \cup {<<t, "user">>}
      /\ UNCHANGED <<gasCoin, coinPool, payment, batchSize, version, owned, minted>>
  BY DEF Submit, gasVars, refillVars
<1>2. pc'[t] = "submit" /\ \A u \in Tx : u # t => pc'[u] = pc[u]
  BY <1>1 DEF PoolInv, PoolTypes, GoTo
<1>3. t \in Spenders /\ Spenders' = Spenders
  BY <1>1, <1>2 DEF Spenders, PoolInv, Stages
<1>4. PoolIds' = PoolIds /\ SpentIds' = SpentIds /\ MintedIds' \subseteq MintedIds
  <2>1. \A u \in Tx : pc'[u] = "refill" => pc[u] = "refill"
    BY <1>2
  <2> QED
    BY <1>1, <1>3, <2>1 DEF PoolIds, SpentIds, MintedIds
<1>5. InPlay' \subseteq InPlay
  BY <1>4 DEF InPlay
<1>6. LateCall(t)'
  <2>1. gasCoin[t] # NoCoin /\ gasCoin[t].id \in SpentIds
    BY <1>3 DEF Spenders, SpentIds
  <2>2. gasCoin[t].id \in Coin /\ version[gasCoin[t].id] > 0
    BY <2>1 DEF HeldInv, HeldExist, Exists
  <2> QED
    BY <1>1, <1>2, <1>3, <2>1, <2>2 DEF LateCall, Exists, Coin
<1>7. \A u \in Tx : <<u, "user">> \in inFlight' =>
        \/ /\ <<u, "user">> \in inFlight
           /\ gasCoin'[u] = gasCoin[u] /\ pc'[u] \in {"submit", "catch", "none"}
           /\ u \in Spenders => u \in Spenders'
        \/ LateCall(u)'
  <2> SUFFICES ASSUME NEW u \in Tx, <<u, "user">> \in inFlight', u # t
               PROVE  /\ <<u, "user">> \in inFlight
                      /\ gasCoin'[u] = gasCoin[u] /\ pc'[u] \in {"submit", "catch", "none"}
                      /\ u \in Spenders => u \in Spenders'
    BY <1>6
  <2>1. <<u, "user">> \in inFlight
    BY <1>1
  <2> QED
    BY <1>1, <1>2, <1>3, <2>1 DEF CurrentInv, LateCall
<1>8. \A u \in Tx : <<u, "refill">> \in inFlight' => <<u, "refill">> \in inFlight
  BY <1>1
<1>9. GasCoinsCurrent'
  <2>1. \A u \in Tx : pc'[u] \in {"build", "sign"} => pc[u] \in {"build", "sign"}
    BY <1>2
  <2> QED
    BY <1>1, <2>1, CoinsStayCurrent DEF CurrentInv
<1>10. CurrentTypes'
  BY <1>1 DEF CurrentInv, CurrentTypes
<1> QED
  BY <1>1, <1>4, <1>5, <1>7, <1>8, <1>9, <1>10, CurrentKept

(* The payment of a refill is nobody's gas coin. *)
LEMMA SubmitRefillCurrent ==
  ASSUME PoolInv, HeldInv, HeldInv', CurrentInv, NEW t \in Tx, SubmitRefill(t)
  PROVE  CurrentInv'
<1>1. /\ BuildsAt(t, "unpaid") /\ GoTo(t, "refill")
      /\ inFlight' = inFlight \cup {<<t, "refill">>}
      /\ \A u \in Tx : u # t => payment'[u] = payment[u]
      /\ UNCHANGED <<gasCoin, coinPool, batchSize, version, owned, minted>>
  BY DEF SubmitRefill, gasVars, HeldInv, PaymentTypes
<1>2. "unpaid" \in Building \ {"build"} /\ "refill" \in Building \ {"build"}
  BY DEF Building
<1>3. /\ pc[t] = "unpaid" /\ pc'[t] = "refill"
      /\ \A u \in Tx : u # t => pc'[u] = pc[u] /\ pc'[u] \notin Refunds
      /\ SpentIds' = SpentIds
  BY <1>1, <1>2, RefillGoesOn
<1>4. minted[t] = {}
  BY <1>3 DEF PoolInv, RefillsFollow
<1>5. MintedIds' = {}
  <2>1. \A u \in Tx : pc'[u] = "refill" => u = t
    BY <1>3 DEF Refunds
  <2> QED
    BY <1>1, <1>4, <2>1 DEF MintedIds
<1>6. PoolIds' = PoolIds
  BY <1>1 DEF PoolIds
<1>7. InPlay' \subseteq InPlay
  BY <1>3, <1>5, <1>6 DEF InPlay
<1>8. Spenders' = Spenders
  BY <1>1, <1>3 DEF Spenders
<1>9. LateRefill(t)'
  <2>1. payment'[t] # NoMap'
    BY <1>3 DEF HeldInv, PaymentTypes
  <2>2. PaymentIds(t)' = IdsOf(payment'[t])
    BY <1>3, <2>1 DEF PaymentIds, Refunds, IdsOf
  <2>3. PaymentIds(t)' \cap (PoolIds' \cup SpentIds') = {}
    BY DEF HeldInv, RefillApart
  <2>4. \A c \in PaymentIds(t)' : Exists(c)'
    BY DEF HeldInv, HeldExist
  <2>5. \A c \in IdsOf(payment'[t]) : Exists(c)' /\ c \notin InPlay'
    BY <1>5, <2>2, <2>3, <2>4 DEF InPlay
  <2> QED
    BY <1>1, <1>4, <2>1, <2>5 DEF LateRefill, IdsOf
<1>10. \A u \in Tx : <<u, "refill">> \in inFlight' =>
         \/ <<u, "refill">> \in inFlight /\ payment'[u] = payment[u]
         \/ LateRefill(u)'
  BY <1>1, <1>9
<1>11. \A u \in Tx : <<u, "user">> \in inFlight' =>
          /\ <<u, "user">> \in inFlight
          /\ gasCoin'[u] = gasCoin[u] /\ pc'[u] \in {"submit", "catch", "none"}
          /\ u \in Spenders => u \in Spenders'
  <2> SUFFICES ASSUME NEW u \in Tx, <<u, "user">> \in inFlight'
               PROVE  /\ <<u, "user">> \in inFlight
                      /\ pc'[u] \in {"submit", "catch", "none"}
    BY <1>1, <1>8
  <2>1. <<u, "user">> \in inFlight
    BY <1>1
  <2>2. pc[u] \in {"submit", "catch", "none"}
    BY <2>1 DEF CurrentInv, LateCall
  <2> QED
    BY <1>3, <2>1, <2>2
<1>12. GasCoinsCurrent'
  <2>1. \A u \in Tx : pc'[u] \in {"build", "sign"} => pc[u] \in {"build", "sign"}
    BY <1>3
  <2> QED
    BY <1>1, <2>1, CoinsStayCurrent DEF CurrentInv
<1>13. CurrentTypes'
  BY <1>1 DEF CurrentInv, CurrentTypes
<1> QED
  BY <1>1, <1>5, <1>7, <1>10, <1>11, <1>12, <1>13, CurrentKept

(* The minted coins enter the pool. *)
LEMMA RefillExecutedCurrent ==
  ASSUME PoolInv, HeldInv, CurrentInv, NEW t \in Tx, RefillExecuted(t)
  PROVE  CurrentInv'
<1> DEFINE more == SetToSeq({CurrentRef(c) : c \in minted[t]})
<1>1. /\ BuildsAt(t, "refill") /\ GoTo(t, "index")
      /\ coinPool' = coinPool \o more
      /\ UNCHANGED <<gasCoin, payment, batchSize, version, owned, minted, inFlight>>
  BY DEF RefillExecuted, refillVars, chain
<1>2. "refill" \in Building \ {"build"} /\ "index" \in Building \ {"build"}
  BY DEF Building
<1>3. /\ pc[t] = "refill" /\ pc'[t] = "index"
      /\ \A u \in Tx : u # t => pc'[u] = pc[u]
      /\ SpentIds' = SpentIds
  BY <1>1, <1>2, RefillGoesOn
<1>4. /\ more \in Seq(Refs)
      /\ \A i \in DOMAIN more : more[i].id \in minted[t] /\ more[i] = CurrentRef(more[i].id)
  BY NewCoinsListed
<1> HIDE DEF more
<1>5. minted[t] \subseteq MintedIds
  BY <1>3 DEF MintedIds
<1>6. \A i \in DOMAIN more : Payable({more[i]})
  BY <1>4, <1>5 DEF Payable, CurrentInv
<1>7. coinPool \in Seq(Refs)
  BY DEF PoolInv, PoolTypes
<1>8. PoolIds' \subseteq PoolIds \cup MintedIds
  <2>1. PoolIds' \subseteq PoolIds \cup {more[i].id : i \in DOMAIN more}
    BY <1>1, <1>4, <1>7, PoolGains
  <2> QED
    BY <1>4, <1>5, <2>1
<1>9. MintedIds' \subseteq MintedIds
  <2>1. \A u \in Tx : pc'[u] = "refill" => pc[u] = "refill"
    BY <1>3
  <2> QED
    BY <1>1, <2>1 DEF MintedIds
<1>10. InPlay' \subseteq InPlay
  BY <1>3, <1>8, <1>9 DEF InPlay
<1>11. GasCoinsCurrent'
  <2>1. \A u \in Tx : pc'[u] \in {"build", "sign"} => pc[u] \in {"build", "sign"}
    BY <1>3
  <2> QED
    BY <1>1, <1>4, <1>6, <1>7, <2>1, MoreCurrent DEF CurrentInv
<1>12. Spenders' = Spenders
  BY <1>1, <1>3 DEF Spenders
<1>13. \A u \in Tx : <<u, "user">> \in inFlight =>
          pc'[u] \in {"submit", "catch", "none"} /\ (u \in Spenders => u \in Spenders')
  <2> SUFFICES ASSUME NEW u \in Tx, <<u, "user">> \in inFlight
               PROVE  pc'[u] \in {"submit", "catch", "none"}
    BY <1>12
  <2>1. pc[u] \in {"submit", "catch", "none"}
    BY DEF CurrentInv, LateCall
  <2> QED
    BY <1>3, <2>1
<1>14. CurrentTypes'
  BY <1>1 DEF CurrentInv, CurrentTypes
<1> QED
  BY <1>1, <1>9, <1>10, <1>11, <1>13, <1>14, CurrentKept

(* A call's own coin, or one that nobody will be given. *)
LEMMA ChainExecutesUserCurrent ==
  ASSUME PoolInv, HeldInv, CurrentInv, NEW t \in Tx, ChainExecutesUser(t)
  PROVE  CurrentInv'
<1> DEFINE c == gasCoin[t].id
<1>1. /\ <<t, "user">> \in inFlight
      /\ version' = [version EXCEPT ![c] = version[c] + 1]
      /\ owned' \in {owned, owned \ {c}}
      /\ inFlight' = inFlight \ {<<t, "user">>}
      /\ UNCHANGED <<pc, gasCoin, coinPool, payment, batchSize, minted>>
  BY DEF ChainExecutesUser, gasVars, refillVars
<1>2. version \in [Coin -> Nat]
  BY DEF PoolInv, PoolTypes
<1>3. LateCall(t)
  BY <1>1 DEF CurrentInv
<1>4. c \notin PoolIds \cup MintedIds /\ \A u \in Tx : pc[u] \in {"build", "sign"} => gasCoin[u].id # c
  <2>1. CASE t \in Spenders
    <3>1. pc[t] \notin {"build", "sign"}
      BY <1>3 DEF LateCall
    <3>2. \A u \in Tx : pc[u] \in {"build", "sign"} => u \in Spenders
      BY DEF Spenders, PoolInv, Stages
    <3>3. /\ c \notin PoolIds \cup MintedIds
          /\ \A u \in Spenders \ {t} : gasCoin[u].id # c
      BY <2>1, NobodyElses
    <3> QED
      BY <3>1, <3>2, <3>3
  <2>2. CASE t \notin Spenders
    <3>1. c \notin InPlay
      BY <1>3, <2>2 DEF LateCall
    <3>2. \A u \in Tx : pc[u] \in {"build", "sign"} => gasCoin[u].id \in SpentIds
      BY DEF SpentIds, Spenders, PoolInv, Stages
    <3> QED
      BY <3>1, <3>2 DEF InPlay
  <2> QED
    BY <2>1, <2>2
<1> HIDE DEF c
<1>5. \A d : /\ Exists(d) => Exists(d)'
             /\ d # c /\ d \in Coin => version'[d] = version[d]
             /\ d # c /\ d \in owned => d \in owned'
  BY <1>1, <1>2 DEF Exists, Coin
<1>6. MintedIds' = MintedIds /\ InPlay' = InPlay /\ Spenders' = Spenders
  BY <1>1 DEF MintedIds, InPlay, PoolIds, SpentIds, Spenders
<1>7. MintedIds' \subseteq owned'
  BY <1>4, <1>5, <1>6 DEF CurrentInv
<1>8. \A r \in Refs : r.id # c /\ Payable({r}) => Payable({r})'
  <2> SUFFICES ASSUME NEW r \in Refs, r.id # c, Payable({r})  PROVE Payable({r})'
    OBVIOUS
  <2>1. r.id \in owned /\ r = [id |-> r.id, version |-> version[r.id]] /\ r.id \in Coin
    BY RefFacts DEF Payable, CurrentRef, Ref
  <2>2. r.id \in owned' /\ r = [id |-> r.id, version |-> version'[r.id]]
    BY <1>5, <2>1
  <2> QED
    BY <2>2 DEF Payable, CurrentRef, Ref
<1>9. GasCoinsCurrent'
  <2>1. ASSUME NEW i \in DOMAIN coinPool  PROVE Payable({coinPool[i]})'
    <3>1. coinPool[i] \in Refs /\ coinPool[i].id # c
      BY <1>4, LenProperties DEF PoolInv, PoolTypes, PoolIds
    <3> QED
      BY <1>1, <1>8, <3>1 DEF CurrentInv, GasCoinsCurrent, Payable, CurrentRef, Ref
  <2>2. ASSUME NEW u \in Tx, pc[u] \in {"build", "sign"}  PROVE Payable({gasCoin[u]})'
    <3>1. gasCoin[u] \in Refs /\ gasCoin[u].id # c
      BY <1>4, <2>2 DEF PoolInv, PoolTypes, Stages
    <3> QED
      BY <1>1, <1>8, <2>2, <3>1 DEF CurrentInv, GasCoinsCurrent, Payable, CurrentRef, Ref
  <2> QED
    BY <1>1, <2>1, <2>2 DEF GasCoinsCurrent
<1>10. ASSUME NEW u \in Tx, <<u, "user">> \in inFlight'  PROVE LateCall(u)'
  <2>1. LateCall(u)
    BY <1>1, <1>10 DEF CurrentInv
  <2>2. /\ gasCoin[u] # NoCoin /\ pc[u] \in {"submit", "catch", "none"}
        /\ Exists(gasCoin[u].id) /\ (u \notin Spenders => gasCoin[u].id \notin InPlay)
    BY <2>1 DEF LateCall
  <2>3. gasCoin[u].id \in Coin /\ version'[gasCoin[u].id] > 0
    BY <1>5, <2>2 DEF Exists, Coin
  <2> QED
    BY <1>1, <1>6, <2>2, <2>3 DEF LateCall, Exists, Coin
<1>11. ASSUME NEW u \in Tx, <<u, "refill">> \in inFlight'  PROVE LateRefill(u)'
  <2>1. LateRefill(u)
    BY <1>1, <1>11 DEF CurrentInv
  <2>2. \A d \in IdsOf(payment[u]) : Exists(d)' /\ d \notin InPlay'
    BY <1>5, <1>6, <2>1 DEF LateRefill
  <2> QED
    BY <1>1, <2>1, <2>2 DEF LateRefill, IdsOf, NoMap
<1>12. CurrentTypes'
  BY <1>1 DEF CurrentInv, CurrentTypes
<1> QED
  BY <1>7, <1>9, <1>10, <1>11, <1>12 DEF CurrentInv

(* Coins of nobody are merged; the new ones are owned. *)
LEMMA ChainExecutesRefillCurrent ==
  ASSUME PoolInv, HeldInv, CurrentInv, NEW t \in Tx, ChainExecutesRefill(t)
  PROVE  CurrentInv'
<1> DEFINE ids == IdsOf(payment[t])
           fresh == {c \in Coin : version[c] = 0}
           split == {c \in fresh : c < Min(fresh) + batchSize[t]}
<1>1. /\ <<t, "refill">> \in inFlight
      /\ inFlight' = inFlight \ {<<t, "refill">>}
      /\ UNCHANGED <<pc, gasCoin, coinPool, payment, batchSize>>
  BY DEF ChainExecutesRefill, gasVars, refillVars
<1>2. PICK new \in {{}, split} :
        /\ minted' = [minted EXCEPT ![t] = new]
        /\ version' = [c \in Coin |-> IF c \in ids \cup new THEN version[c] + 1 ELSE version[c]]
        /\ owned' = (owned \ ids) \cup {Min(ids)} \cup new
  BY DEF ChainExecutesRefill
<1>3. version \in [Coin -> Nat] /\ minted \in [Tx -> SUBSET Coin]
  BY DEF PoolInv, PoolTypes
<1>4. \A c \in new : c \in Coin /\ ~Exists(c)
  <2>1. \A c \in new : c \in Coin /\ version[c] = 0
    BY <1>2
  <2> QED
    BY <2>1 DEF Exists
<1>5. LateRefill(t)
  BY <1>1 DEF CurrentInv
<1> HIDE DEF split, fresh, ids
<1>6. \A c \in InPlay : c \notin ids
  BY <1>5 DEF LateRefill, ids
<1>7. \A c \in PoolIds \cup SpentIds : c \in Coin /\ c \notin new
  BY <1>4 DEF HeldInv, HeldExist, Exists
<1>8. /\ \A d : Exists(d) => Exists(d)'
      /\ \A d \in PoolIds \cup SpentIds : version'[d] = version[d]
      /\ \A d \in InPlay : d \in owned => d \in owned'
  BY <1>2, <1>3, <1>6, <1>7 DEF Exists, Coin, InPlay
<1>9. minted'[t] = new /\ \A u \in Tx : u # t => minted'[u] = minted[u]
  BY <1>2, <1>3
<1>10. MintedIds' \subseteq MintedIds \cup new
  BY <1>1, <1>9 DEF MintedIds
<1>11. PoolIds' = PoolIds /\ SpentIds' = SpentIds /\ Spenders' = Spenders
  BY <1>1 DEF PoolIds, SpentIds, Spenders
<1>12. InPlay' \subseteq InPlay \cup new
  BY <1>10, <1>11 DEF InPlay
<1>13. MintedIds' \subseteq owned'
  <2>1. new \subseteq owned'
    BY <1>2
  <2>2. MintedIds \subseteq owned /\ MintedIds \subseteq InPlay
    BY DEF CurrentInv, InPlay
  <2> QED
    BY <1>8, <1>10, <2>1, <2>2
<1>14. \A r \in Refs : r.id \in PoolIds \cup SpentIds /\ Payable({r}) => Payable({r})'
  <2> SUFFICES ASSUME NEW r \in Refs, r.id \in PoolIds \cup SpentIds, Payable({r})
               PROVE  Payable({r})'
    OBVIOUS
  <2>1. r.id \in owned /\ r = [id |-> r.id, version |-> version[r.id]] /\ r.id \in InPlay
    BY DEF Payable, CurrentRef, Ref, InPlay
  <2>2. r.id \in owned' /\ r = [id |-> r.id, version |-> version'[r.id]]
    BY <1>8, <2>1
  <2> QED
    BY <2>2 DEF Payable, CurrentRef, Ref
<1>15. GasCoinsCurrent'
  <2>1. ASSUME NEW i \in DOMAIN coinPool  PROVE Payable({coinPool[i]})'
    <3>1. coinPool[i] \in Refs /\ coinPool[i].id \in PoolIds
      BY LenProperties DEF PoolInv, PoolTypes, PoolIds
    <3> QED
      BY <1>1, <1>14, <3>1 DEF CurrentInv, GasCoinsCurrent, Payable, CurrentRef, Ref
  <2>2. ASSUME NEW u \in Tx, pc[u] \in {"build", "sign"}  PROVE Payable({gasCoin[u]})'
    <3>1. gasCoin[u] \in Refs /\ gasCoin[u].id \in SpentIds
      BY <2>2 DEF PoolInv, PoolTypes, Stages, SpentIds, Spenders
    <3> QED
      BY <1>1, <1>14, <2>2, <3>1 DEF CurrentInv, GasCoinsCurrent, Payable, CurrentRef, Ref
  <2> QED
    BY <1>1, <2>1, <2>2 DEF GasCoinsCurrent
<1>16. ASSUME NEW u \in Tx, <<u, "user">> \in inFlight'  PROVE LateCall(u)'
  <2>1. LateCall(u)
    BY <1>1, <1>16 DEF CurrentInv
  <2>2. /\ gasCoin[u] # NoCoin /\ pc[u] \in {"submit", "catch", "none"}
        /\ Exists(gasCoin[u].id) /\ (u \notin Spenders => gasCoin[u].id \notin InPlay)
    BY <2>1 DEF LateCall
  <2>3. gasCoin[u].id \notin new
    BY <1>4, <2>2
  <2>4. gasCoin[u].id \in Coin /\ version'[gasCoin[u].id] > 0
    BY <1>8, <2>2 DEF Exists, Coin
  <2> QED
    BY <1>1, <1>11, <1>12, <2>2, <2>3, <2>4 DEF LateCall, Exists, Coin
<1>17. ASSUME NEW u \in Tx, <<u, "refill">> \in inFlight'  PROVE LateRefill(u)'
  <2>1. LateRefill(u) /\ u # t
    BY <1>1, <1>17 DEF CurrentInv
  <2>2. minted'[u] = {} /\ payment'[u] # NoMap'
    BY <1>1, <1>9, <2>1 DEF LateRefill, NoMap
  <2>3. \A d \in IdsOf(payment[u]) : Exists(d) /\ d \notin InPlay
    BY <2>1 DEF LateRefill
  <2>4. \A d \in IdsOf(payment[u]) : Exists(d)' /\ d \notin InPlay'
    BY <1>4, <1>8, <1>12, <2>3
  <2> QED
    BY <1>1, <2>2, <2>4 DEF LateRefill, IdsOf
<1>18. CurrentTypes'
  BY <1>1 DEF CurrentInv, CurrentTypes
<1> QED
  BY <1>13, <1>15, <1>16, <1>17, <1>18 DEF CurrentInv

(* A new executor. *)
LEMMA CurrentInit == Init => CurrentInv
<1> SUFFICES ASSUME Init  PROVE CurrentInv
  OBVIOUS
<1>1. /\ pc = [t \in Tx |-> "none"] /\ coinPool = <<>> /\ inFlight = {}
      /\ batchSize = [t \in Tx |-> 0]
  BY DEF Init
<1>2. CurrentTypes
  BY <1>1, ExecutorAssumption DEF CurrentTypes
<1>3. MintedIds \subseteq owned
  BY <1>1 DEF MintedIds
<1>4. GasCoinsCurrent
  BY <1>1 DEF GasCoinsCurrent
<1> QED
  BY <1>1, <1>2, <1>3, <1>4 DEF CurrentInv

(* Every step keeps it. *)
LEMMA CurrentStep ==
  ASSUME PoolInv, PoolInv', HeldInv, HeldInv', CurrentInv, [Next]_vars
  PROVE  CurrentInv'
<1>1. ASSUME UNCHANGED <<pc, gasCoin, coinPool, payment, batchSize, version, owned, minted, inFlight>>
      PROVE  CurrentInv'
  <2>1. CurrentTypes' /\ Spenders' \subseteq Spenders
    BY <1>1 DEF CurrentInv, CurrentTypes, Spenders
  <2>2. \A u \in Tx : <<u, "user">> \in inFlight => pc'[u] \in {"submit", "catch", "none"}
    BY <1>1 DEF CurrentInv, LateCall
  <2> QED
    BY <1>1, <2>1, <2>2, QuietCurrent
<1>2. CASE UNCHANGED vars
  BY <1>1, <1>2 DEF vars, gasVars, refillVars, chain
<1>3. ASSUME NEW t \in Tx, PrepareFails(t)  PROVE CurrentInv'
  BY <1>1, <1>3 DEF PrepareFails, gasVars, refillVars, chain
<1>4. ASSUME NEW t \in Tx, NEW ids \in SUBSET Object, ExecuteTransaction(t, ids)  PROVE CurrentInv'
  <2>1. UNCHANGED <<gasCoin, coinPool, refillVars, chain>>
    BY <1>4 DEF ExecuteTransaction, gasVars
  <2> QED
    BY <1>4, <2>1, SchedulingCurrent DEF ExecuteTransaction
<1>5. ASSUME NEW t \in Tx, RunsOn(t)  PROVE CurrentInv'
  <2>1. ASSUME NEW ready \in SetToSeqs(Woken(t)), Rethrow(t, ready)  PROVE CurrentInv'
    <3>1. /\ EnterBuild(Started(ready), [pc EXCEPT ![t] = "none"])
          /\ \A u \in Tx : [pc EXCEPT ![t] = "none"][u] \in {pc[u], "none"}
          /\ UNCHANGED <<gasCoin, coinPool, refillVars, chain>>
      BY <2>1, LeaveHeld DEF Rethrow, PoolInv
    <3> QED
      BY <3>1, SchedulingCurrent
  <2>2. CASE \E ready \in SetToSeqs(Woken(t)) : Finish(t, ready)
    BY <2>2, FinishCurrent
  <2>3. CASE SlotFreed(t)
    <3>1. UNCHANGED <<gasCoin, coinPool, refillVars, chain>>
      BY <2>3 DEF SlotFreed, gasVars
    <3> QED
      BY <2>3, <3>1, SchedulingCurrent DEF SlotFreed
  <2>4. CASE TakeCoin(t) \/ SubmitRefill(t) \/ RefillExecuted(t) \/ Submit(t)
    BY <2>4, TakeCoinCurrent, SubmitRefillCurrent, RefillExecutedCurrent, SubmitCurrent
  <2>5. CASE \/ StartRefill(t) \/ SourceCoinsFetched(t)
             \/ BuildTaskDone(t) \/ BuildTaskFails(t) \/ Catch(t)
    BY <2>5, PassesCurrent
  <2> QED
    BY <1>5, <2>1, <2>2, <2>3, <2>4, <2>5 DEF RunsOn
<1>6. ASSUME NEW t \in Tx, ChainStep(t)  PROVE CurrentInv'
  BY <1>6, ChainExecutesUserCurrent, ChainExecutesRefillCurrent DEF ChainStep
<1> QED
  BY <1>2, <1>3, <1>4, <1>5, <1>6 DEF Next

(* What may still be executed on chain disturbs no coin of #coinPool and   *)
(* no coin of a call that has yet to submit (parallel.ts:200-306, 364-455).*)
THEOREM CurrentInvariant == Spec => [](PoolInv /\ HeldInv /\ CurrentInv)
<1>1. Init => CurrentInv
  BY CurrentInit
<1>2. PoolInv /\ PoolInv' /\ HeldInv /\ HeldInv' /\ CurrentInv /\ [Next]_vars => CurrentInv'
  BY CurrentStep
<1> QED
  BY <1>1, <1>2, HeldInvariant, PTL DEF Spec

(* Every coin in #coinPool, and every coin of a call that has taken one    *)
(* and not submitted yet, is the signer's and at its current version,      *)
(* although transactions that failed on the client, and refills, execute   *)
(* at any later time.                                                      *)
THEOREM CoinsStayUsable == Spec => []GasCoinsCurrent
<1>1. CurrentInv => GasCoinsCurrent
  BY DEF CurrentInv
<1> QED
  BY <1>1, CurrentInvariant, PTL

(* The executor keeps to its types; in particular no refill is sized       *)
(* beyond coinBatchSize, also when #pendingTransactions is negative.       *)
THEOREM ExecutorTypes == Spec => []TypeOK
<1>1. PoolInv /\ HeldInv /\ CurrentInv => TypeOK
  BY DEF PoolInv, PoolTypes, HeldInv, PaymentTypes, CurrentInv, CurrentTypes, TypeOK
<1> QED
  BY <1>1, CurrentInvariant, PTL

(***************************************************************************)
(* The lock of #updateCache                                                *)
(***************************************************************************)

(* Only a call that found a lock waits. *)
WaitersFoundALock ==
  \A c \in Call : /\ callState[c] = "idle" => awaits[c] = NoLock
                  /\ callState[c] = "waiting" => awaits[c] # NoLock

LockIInv == LockTypeOK /\ WaitersFoundALock /\ OverlapsNeedWaiters

(* The sets that are counted are finite. *)
LEMMA CountsAreFinite ==
  /\ IsFiniteSet(Updating) /\ Cardinality(Updating) \in Nat
  /\ IsFiniteSet(Resumed) /\ Cardinality(Resumed) \in Nat
BY CacheLockAssumption, FS_Subset, FS_CardinalityType DEF Updating, Resumed

(* The statement after the await starts at most one update, and clears the *)
(* lock only if it starts none.                                            *)
LEMMA InstallEffect ==
  ASSUME LockTypeOK, NEW c \in Call, NEW fn \in BOOLEAN, callState[c] \in {"idle", "waiting"},
         Install(c, fn)
  PROVE  /\ cacheLock' \in Call \cup {NoLock}
         /\ callState' \in [Call -> CallStates]
         /\ \A d \in Call \ {c} : callState'[d] = callState[d]
         /\ callState'[c] \in {"updating", "returned"}
         /\ Cardinality(Updating') + (IF cacheLock' = NoLock THEN 1 ELSE 0)
              = Cardinality(Updating) + 1
<1> USE DEF LockTypeOK, Install
<1>1. /\ cacheLock' \in Call \cup {NoLock}
      /\ callState' \in [Call -> CallStates]
      /\ \A d \in Call \ {c} : callState'[d] = callState[d]
      /\ callState'[c] \in {"updating", "returned"}
  BY DEF CallStates
<1>2. CASE fn
  <2>1. Updating' = Updating \cup {c} /\ c \notin Updating /\ cacheLock' # NoLock
    BY <1>2, CacheLockAssumption DEF Updating
  <2>2. Cardinality(Updating') = Cardinality(Updating) + 1
    BY <2>1, CountsAreFinite, FS_AddElement
  <2> QED
    BY <1>1, <2>1, <2>2, CountsAreFinite
<1>3. CASE ~fn
  <2>1. Updating' = Updating /\ cacheLock' = NoLock
    BY <1>3 DEF Updating
  <2> QED
    BY <1>1, <2>1
<1> QED
  BY <1>2, <1>3

(* A call of #updateCache. *)
LEMMA CallUpdateKeeps ==
  ASSUME LockIInv, NEW c \in Call, NEW fn \in BOOLEAN, CallUpdate(c, fn)
  PROVE  LockIInv'
<1> USE DEF LockIInv, LockTypeOK
<1>1. callState[c] = "idle" /\ awaits[c] = NoLock /\ withFn' = [withFn EXCEPT ![c] = fn]
  BY DEF CallUpdate, WaitersFoundALock
<1>2. CASE cacheLock = NoLock /\ Install(c, fn) /\ UNCHANGED awaits
  <2>1. /\ LockTypeOK' /\ WaitersFoundALock'
        /\ Cardinality(Updating') + (IF cacheLock' = NoLock THEN 1 ELSE 0) = Cardinality(Updating) + 1
    BY <1>1, <1>2, InstallEffect DEF WaitersFoundALock, CallStates
  <2>2. Resumed' = Resumed
    BY <1>1, <1>2, InstallEffect DEF Resumed
  <2> QED
    BY <1>2, <2>1, <2>2, CountsAreFinite DEF OverlapsNeedWaiters
<1>3. CASE /\ cacheLock # NoLock
           /\ awaits' = [awaits EXCEPT ![c] = cacheLock]
           /\ callState' = [callState EXCEPT ![c] = "waiting"]
           /\ UNCHANGED cacheLock
  <2>1. LockTypeOK' /\ WaitersFoundALock'
    BY <1>1, <1>3 DEF WaitersFoundALock, CallStates
  <2>2. Resumed' = Resumed /\ Updating' = Updating
    BY <1>1, <1>3 DEF Resumed, Updating
  <2> QED
    BY <1>3, <2>1, <2>2 DEF OverlapsNeedWaiters
<1> QED
  BY <1>2, <1>3 DEF CallUpdate

(* A waiter goes on. *)
LEMMA ResumeKeeps ==
  ASSUME LockIInv, NEW c \in Call, Resume(c)
  PROVE  LockIInv'
<1> USE DEF LockIInv, LockTypeOK
<1>1. /\ callState[c] = "waiting" /\ awaits[c] # NoLock /\ withFn[c] \in BOOLEAN
      /\ Install(c, withFn[c]) /\ UNCHANGED <<withFn, awaits>>
  BY DEF Resume, WaitersFoundALock
<1>2. /\ LockTypeOK' /\ WaitersFoundALock'
      /\ Cardinality(Updating') + (IF cacheLock' = NoLock THEN 1 ELSE 0) = Cardinality(Updating) + 1
  BY <1>1, InstallEffect DEF WaitersFoundALock, CallStates
<1>3. Resumed' = Resumed \cup {c} /\ c \notin Resumed
  BY <1>1, InstallEffect DEF Resumed
<1>4. Cardinality(Resumed') = Cardinality(Resumed) + 1
  BY <1>3, CountsAreFinite, FS_AddElement
<1> QED
  BY <1>2, <1>4, CountsAreFinite DEF OverlapsNeedWaiters

(* An update ends. *)
LEMMA SettleKeeps ==
  ASSUME LockIInv, NEW c \in Call, NEW ok \in BOOLEAN, Settle(c, ok)
  PROVE  LockIInv'
<1> USE DEF LockIInv, LockTypeOK
<1>1. /\ callState[c] = "updating" /\ callState' = [callState EXCEPT ![c] = "settled"]
      /\ cacheLock' = (IF ok THEN NoLock ELSE cacheLock) /\ UNCHANGED <<withFn, awaits>>
  BY DEF Settle
<1>2. LockTypeOK' /\ WaitersFoundALock'
  BY <1>1 DEF WaitersFoundALock, CallStates
<1>3. Resumed' = Resumed /\ Updating' = Updating \ {c} /\ c \in Updating
  BY <1>1 DEF Resumed, Updating
<1>4. Cardinality(Updating') = Cardinality(Updating) - 1
  BY <1>3, CountsAreFinite, FS_RemoveElement
<1> QED
  BY <1>1, <1>2, <1>3, <1>4, CountsAreFinite DEF OverlapsNeedWaiters

(* Holders, waiters and updates agree after every call, resumption and     *)
(* settlement of #updateCache.                                             *)
LEMMA LockInvariant == LockSpec => []LockIInv
<1>1. LockInit => LockIInv
  <2> SUFFICES ASSUME LockInit PROVE LockIInv
    OBVIOUS
  <2>1. LockTypeOK /\ WaitersFoundALock
    BY DEF LockInit, LockTypeOK, CallStates, WaitersFoundALock
  <2>2. Updating = {} /\ Resumed = {}
    BY DEF LockInit, Updating, Resumed
  <2> QED
    BY <2>1, <2>2, FS_EmptySet DEF LockInit, LockIInv, OverlapsNeedWaiters
<1>2. LockIInv /\ [LockNext]_lockVars => LockIInv'
  <2> SUFFICES ASSUME LockIInv, [LockNext]_lockVars  PROVE LockIInv'
    OBVIOUS
  <2>1. CASE UNCHANGED lockVars
    BY <2>1 DEF lockVars, LockIInv, LockTypeOK, WaitersFoundALock, OverlapsNeedWaiters,
                Updating, Resumed
  <2>2. ASSUME NEW c \in Call, NEW fn \in BOOLEAN, CallUpdate(c, fn)  PROVE LockIInv'
    BY <2>2, CallUpdateKeeps
  <2>3. ASSUME NEW c \in Call, Resume(c)  PROVE LockIInv'
    BY <2>3, ResumeKeeps
  <2>4. ASSUME NEW c \in Call, NEW ok \in BOOLEAN, Settle(c, ok)  PROVE LockIInv'
    BY <2>4, SettleKeeps
  <2> QED
    BY <2>1, <2>2, <2>3, <2>4 DEF LockNext
<1> QED
  BY <1>1, <1>2, PTL DEF LockSpec

(* What #cacheLock and the calls of #updateCache can be. *)
THEOREM LockTypesHold == LockSpec => []LockTypeOK
BY LockInvariant, PTL DEF LockIInv

(* Updates that run at the same time, or while the lock is free, are paid  *)
(* for by calls that waited: so updates never overlap as long as nobody    *)
(* has had to wait, however many calls there are.                          *)
THEOREM LockDebt == LockSpec => []OverlapsNeedWaiters
BY LockInvariant, PTL DEF LockIInv

=============================================================================
