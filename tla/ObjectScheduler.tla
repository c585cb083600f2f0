-------------------------- MODULE ObjectScheduler --------------------------
(***************************************************************************)
(* How ParallelTransactionExecutor orders transactions that use the same   *)
(* objects: `objectIdQueues` (a FIFO of callbacks per object id), the      *)
(* `conflicts` set every waiting call closes over, and the ParallelQueue   *)
(* `executeQueue` that bounds the number of running tasks.                 *)
(*                                                                         *)
(* JavaScript runs a synchronous block without interruption, so one action *)
(* is one block between two awaits.  What a transaction does while it runs *)
(* (gas coin, build, sign, submit) is the subject of ParallelExecutor,     *)
(* which composes this module.                                             *)
(***************************************************************************)
EXTENDS Integers, Sequences, FiniteSets, SequencesExt

CONSTANTS
  Tx,         \* the calls of executeTransaction()
  Object,     \* the object ids transactions use
  MaxPoolSize    \* maxPoolSize, the bound given to the ParallelQueue

ASSUME SchedulerAssumption ==
  /\ IsFiniteSet(Tx)
  /\ MaxPoolSize \in Nat \ {0}

VARIABLES
  phase,          \* where each call is, see Phases
  usedObjects,    \* the result of #getUsedObjects for each call
  conflicts,      \* objects a call still waits for
  objectIdQueues, \* per object, the calls waiting for it, oldest first
  queueIds,       \* the keys of the #objectIdQueues map
  executeQueue,   \* calls that are free to run, waiting for a task slot
  activeTasks,    \* ParallelQueue.activeTasks
  arrival,        \* history: the position at which a call registered
  arrivals        \* history: how many calls have registered

schedulerVars == <<phase, usedObjects, conflicts, objectIdQueues, queueIds,
                   executeQueue, activeTasks, arrival, arrivals>>

(***************************************************************************)
(* idle      executeTransaction() not called, or #getUsedObjects pending   *)
(* rejected  #getUsedObjects threw: nothing was registered                 *)
(* blocked   some object it uses is held by an earlier call                *)
(* queued    free to run, waiting in executeQueue                          *)
(* running   inside #execute                                               *)
(* released  the finally block of #execute ran; the task slot is still held*)
(* done      the task settled and its slot went to the next task           *)
(***************************************************************************)
Phases == {"idle", "rejected", "blocked", "queued", "running", "released", "done"}

Live(t) == phase[t] \in {"blocked", "queued", "running"}

SchedulerInit ==
  /\ phase = [t \in Tx |-> "idle"]
  /\ usedObjects = [t \in Tx |-> {}]
  /\ conflicts = [t \in Tx |-> {}]
  /\ objectIdQueues = [o \in Object |-> <<>>]
  /\ queueIds = {}
  /\ executeQueue = <<>>
  /\ activeTasks = 0
  /\ arrival = [t \in Tx |-> 0]
  /\ arrivals = 0

----------------------------------------------------------------------------
(* ParallelQueue.runTask, called for every member of `ready' in turn: a    *)
(* task starts at once while a slot is free and is parked otherwise.       *)

FreeSlotsOneTooMany(ready) ==  \* mutant: activeTasks <= maxTasks
  IF Len(ready) <= MaxPoolSize - activeTasks THEN Len(ready)
                                             ELSE MaxPoolSize - activeTasks + 1

FreeSlots(ready) ==
  IF Len(ready) <= MaxPoolSize - activeTasks THEN Len(ready)
                                          ELSE MaxPoolSize - activeTasks

Started(ready) == SubSeq(ready, 1, FreeSlots(ready))

Parked(ready) == SubSeq(ready, FreeSlots(ready) + 1, Len(ready))

RunTasks(ready, settled) ==
  /\ phase' = [t \in Tx |-> IF t \in ToSet(Started(ready)) THEN "running"
                            ELSE IF t \in ToSet(Parked(ready)) THEN "queued"
                            ELSE settled[t]]
  /\ executeQueue' = executeQueue \o Parked(ready)
  /\ activeTasks' = activeTasks + FreeSlots(ready)

----------------------------------------------------------------------------
(* #getUsedObjects threw: the promise of the call rejects. *)
RejectPrepare(t) ==
  /\ phase[t] = "idle"
  /\ phase' = [phase EXCEPT ![t] = "rejected"]
  /\ UNCHANGED <<usedObjects, conflicts, objectIdQueues, queueIds,
                 executeQueue, activeTasks, arrival, arrivals>>

(* #getUsedObjects returned `ids': the call joins the queue of every object*)
(* that has one, opens a queue for the others, and runs if none had one.   *)
Register(t, ids) ==
  LET held == ids \cap queueIds IN
  /\ phase[t] = "idle"
  /\ usedObjects' = [usedObjects EXCEPT ![t] = ids]
  /\ conflicts' = [conflicts EXCEPT ![t] = held]
  /\ objectIdQueues' = [o \in Object |-> IF o \in held
                                           THEN Append(objectIdQueues[o], t)
                                           ELSE objectIdQueues[o]]
  /\ queueIds' = queueIds \cup ids
  /\ arrivals' = arrivals + 1
  /\ arrival' = [arrival EXCEPT ![t] = arrivals + 1]
  /\ RunTasks(IF held = {} THEN <<t>> ELSE <<>>,
              [phase EXCEPT ![t] = "blocked"])

HandedOverToLast(t, u) ==  \* mutant: pop() for shift()
  {o \in usedObjects[t] : objectIdQueues[o] # <<>> /\ Last(objectIdQueues[o]) = u}

(* The objects whose next waiting call is u when t gives them up. *)
HandedOver(t, u) ==
  {o \in usedObjects[t] : objectIdQueues[o] # <<>> /\ Head(objectIdQueues[o]) = u}

NothingClosed(t) == {}  \* mutant: an empty queue is not deleted

(* The objects nobody waits for when t gives them up: their queue goes.    *)
Closed(t) == {o \in usedObjects[t] : objectIdQueues[o] = <<>>}

WokenByAnyConflict(t) ==  \* mutant: conflicts.size is not checked
  {u \in Tx : phase[u] = "blocked" /\ HandedOver(t, u) # {}}

(* The calls whose last conflict goes away when t releases its objects. *)
Woken(t) ==
  {u \in Tx : phase[u] = "blocked" /\ conflicts[u] \subseteq HandedOver(t, u)}

(* The finally block of #execute: every object is handed to the call at    *)
(* the head of its queue, or its queue is deleted.  The order in which     *)
(* several calls wake is the order of t's inputs.                          *)
Release(t, ready) ==
  /\ phase[t] = "running"
  /\ ready \in SetToSeqs(Woken(t))
  /\ conflicts' = [u \in Tx |-> conflicts[u] \ HandedOver(t, u)]
  /\ objectIdQueues' = [o \in Object |->
                          IF o \in usedObjects[t] /\ objectIdQueues[o] # <<>>
                            THEN Tail(objectIdQueues[o])
                            ELSE objectIdQueues[o]]
  /\ queueIds' = queueIds \ Closed(t)
  /\ RunTasks(ready, [phase EXCEPT ![t] = "released"])
  /\ UNCHANGED <<usedObjects, arrival, arrivals>>

(* The finally handler of ParallelQueue.runTask: the slot goes to the next *)
(* parked task, or is given back.                                          *)
TaskDone(t) ==
  /\ phase[t] = "released"
  /\ IF executeQueue # <<>>
       THEN /\ phase' = [phase EXCEPT ![t] = "done", ![Head(executeQueue)] = "running"]
            /\ executeQueue' = Tail(executeQueue)
            /\ UNCHANGED activeTasks
       ELSE /\ phase' = [phase EXCEPT ![t] = "done"]
            /\ activeTasks' = activeTasks - 1
            /\ UNCHANGED executeQueue
  /\ UNCHANGED <<usedObjects, conflicts, objectIdQueues, queueIds, arrival, arrivals>>

SchedulerNext ==
  \E t \in Tx :
    \/ RejectPrepare(t)
    \/ \E ids \in SUBSET Object : Register(t, ids)
    \/ \E ready \in SetToSeqs(Woken(t)) : Release(t, ready)
    \/ TaskDone(t)

SchedulerSpec == SchedulerInit /\ [][SchedulerNext]_schedulerVars

(* #execute always reaches its finally block, and promise handlers run. *)
SchedulerFairness ==
  \A t \in Tx :
    /\ WF_schedulerVars(\E ready \in SetToSeqs(Woken(t)) : Release(t, ready))
    /\ WF_schedulerVars(TaskDone(t))

SchedulerFairSpec == SchedulerSpec /\ SchedulerFairness

----------------------------------------------------------------------------
(* Type invariant of the scheduler's state. *)
SchedulerTypeOK ==
  /\ phase \in [Tx -> Phases]
  /\ usedObjects \in [Tx -> SUBSET Object]
  /\ conflicts \in [Tx -> SUBSET Object]
  /\ objectIdQueues \in [Object -> Seq(Tx)]
  /\ queueIds \in SUBSET Object
  /\ executeQueue \in Seq(Tx)
  /\ activeTasks \in 0 .. MaxPoolSize
  /\ arrival \in [Tx -> Nat]
  /\ arrivals \in Nat

(* Calls that use a common object hold it in the order in which they       *)
(* registered, one at a time: nobody is past its wait while an earlier     *)
(* call on the same object has not yet run its finally block.              *)
ConflictOrder ==
  \A t, u \in Tx :
    /\ usedObjects[t] \cap usedObjects[u] # {}
    /\ arrival[t] < arrival[u]
    /\ Live(t)
    => phase[u] = "blocked"

(* What the three structures say of one another.  A call waits for an      *)
(* object exactly while it is in its queue; queues are in order of arrival;*)
(* an object with a queue has exactly one holder, who came before everybody*)
(* in it: no object stays locked after its last user, and none is handed   *)
(* to two calls.  A call that is free to run is parked exactly once.       *)
Waits(t, o) == \E i \in DOMAIN objectIdQueues[o] : objectIdQueues[o][i] = t

Holds(t, o) == Live(t) /\ o \in usedObjects[t] \ conflicts[t]

ArrivalsCounted ==
  \A t \in Tx :
    /\ arrival[t] <= arrivals
    /\ phase[t] \in {"idle", "rejected"} <=> arrival[t] = 0
    /\ arrival[t] = 0 => usedObjects[t] = {}

BlockedByConflicts ==
  \A t \in Tx :
    /\ phase[t] = "blocked" <=> conflicts[t] # {}
    /\ conflicts[t] \subseteq usedObjects[t]

WaitsForConflicts ==
  \A t \in Tx, o \in Object : o \in conflicts[t] <=> Waits(t, o)

QueuesInOrder ==
  \A o \in Object : \A i, j \in DOMAIN objectIdQueues[o] :
    i < j => arrival[objectIdQueues[o][i]] < arrival[objectIdQueues[o][j]]

OneHolder ==
  \A o \in Object :
    /\ o \in queueIds <=> \E t \in Tx : Holds(t, o)
    /\ \A t, u \in Tx : Holds(t, o) /\ Holds(u, o) => t = u
    /\ \A t, u \in Tx : Holds(t, o) /\ Waits(u, o) => arrival[t] < arrival[u]
    /\ \A t \in Tx : Waits(t, o) => o \in queueIds

ParkedOnce ==
  /\ IsInjective(executeQueue)
  /\ \A t \in Tx : phase[t] = "queued" <=> t \in ToSet(executeQueue)

QueueInvariant ==
  /\ ParkedOnce
  /\ ArrivalsCounted
  /\ BlockedByConflicts
  /\ WaitsForConflicts
  /\ QueuesInOrder
  /\ OneHolder

(* ParallelQueue counts exactly the tasks that hold a slot, and lets a     *)
(* task wait only while every slot is taken: no slot leaks when a task     *)
(* settles while others are parked.                                        *)
SlotHolders == {t \in Tx : phase[t] \in {"running", "released"}}

SlotsAccounted ==
  /\ activeTasks = Cardinality(SlotHolders)
  /\ executeQueue # <<>> => activeTasks = MaxPoolSize

(* The queues, the conflict sets and the slots implement the order promised *)
(* to callers: the same calls start in the same order with no queue at all. *)
Promise == INSTANCE SerializedExecution WITH
  status <- [t \in Tx |->
               CASE phase[t] \in {"idle", "rejected"} -> "idle"
                 [] phase[t] \in {"blocked", "queued"} -> "waiting"
                 [] phase[t] = "running" -> "running"
                 [] phase[t] \in {"released", "done"} -> "finished"],
  footprint <- usedObjects,
  order <- arrival

ImplementsSerializedExecution == Promise!Spec

(* Every call that registered settles: no call waits forever on an object  *)
(* queue or on a task slot.                                                *)
EveryTaskSettles ==
  \A t \in Tx : Live(t) ~> phase[t] = "done"
=============================================================================
