----------------------------- MODULE CacheLock -----------------------------
(***************************************************************************)
(* ParallelTransactionExecutor.#updateCache: the promise `#cacheLock' that *)
(* callers await before they start an update of the object cache, and that *)
(* they replace by the promise of their own update.                        *)
(*                                                                         *)
(* A call is one invocation of #updateCache.  With a function it starts an *)
(* update and returns without waiting for it; without one it only waits.   *)
(***************************************************************************)
EXTENDS Naturals, FiniteSets

CONSTANTS
  Call,    \* the invocations of #updateCache
  NoLock   \* this.#cacheLock = null

ASSUME CacheLockAssumption == NoLock \notin Call /\ IsFiniteSet(Call)

VARIABLES
  cacheLock,  \* NoLock, or the call whose update promise is stored
  callState,  \* where each call is
  withFn,     \* was the call given a function?
  awaits      \* the lock a waiting call found when it was made

lockVars == <<cacheLock, callState, withFn, awaits>>

(* idle; waiting on the lock; updating: returned to its caller with its    *)
(* update running; settled: the update ended; returned: no update to run.  *)
CallStates == {"idle", "waiting", "updating", "settled", "returned"}

LockInitUndefined ==  \* mutant: the field has no initial value
  /\ cacheLock = "undefined"
  /\ callState = [c \in Call |-> "idle"]
  /\ withFn = [c \in Call |-> FALSE]
  /\ awaits = [c \in Call |-> NoLock]

LockInit ==
  /\ cacheLock = NoLock
  /\ callState = [c \in Call |-> "idle"]
  /\ withFn = [c \in Call |-> FALSE]
  /\ awaits = [c \in Call |-> NoLock]

(* The statement after the await: the new lock is the promise of fn, or    *)
(* null when there is no fn, whatever the lock was by then.                *)
Install(c, fn) ==
  /\ cacheLock' = IF fn THEN c ELSE NoLock
  /\ callState' = [callState EXCEPT ![c] = IF fn THEN "updating" ELSE "returned"]

CallUpdateAtOnce(c, fn) ==  \* mutant: the lock is not awaited
  /\ callState[c] = "idle"
  /\ withFn' = [withFn EXCEPT ![c] = fn]
  /\ Install(c, fn)
  /\ UNCHANGED awaits

CallUpdate(c, fn) ==
  /\ callState[c] = "idle"
  /\ withFn' = [withFn EXCEPT ![c] = fn]
  /\ \/ /\ cacheLock = NoLock
        /\ Install(c, fn)
        /\ UNCHANGED awaits
     \/ /\ cacheLock # NoLock
        /\ awaits' = [awaits EXCEPT ![c] = cacheLock]
        /\ callState' = [callState EXCEPT ![c] = "waiting"]
        /\ UNCHANGED cacheLock

ResumeWhenFree(c) ==  \* mutant: `while' for `if', with a lock that may never clear
  /\ callState[c] = "waiting"
  /\ cacheLock = NoLock
  /\ Install(c, withFn[c])
  /\ UNCHANGED <<withFn, awaits>>

(* The awaited promise has resolved; the call does not look at the lock    *)
(* again before it replaces it.                                            *)
Resume(c) ==
  /\ callState[c] = "waiting"
  /\ callState[awaits[c]] = "settled"
  /\ Install(c, withFn[c])
  /\ UNCHANGED <<withFn, awaits>>

(* fn settled.  Fulfilled: the lock is cleared, whoever set it last.       *)
(* Rejected: the lock stays, as a resolved promise.                        *)
Settle(c, ok) ==
  /\ callState[c] = "updating"
  /\ callState' = [callState EXCEPT ![c] = "settled"]
  /\ cacheLock' = IF ok THEN NoLock ELSE cacheLock
  /\ UNCHANGED <<withFn, awaits>>

LockNext ==
  \E c \in Call :
    \/ \E fn \in BOOLEAN : CallUpdate(c, fn)
    \/ Resume(c)
    \/ \E ok \in BOOLEAN : Settle(c, ok)

LockSpec == LockInit /\ [][LockNext]_lockVars

(* A resolved promise runs its continuations; an update ends because the   *)
(* cache answers and waitForTransaction has a timeout of its own.          *)
LockFairSpec ==
  /\ LockSpec
  /\ \A c \in Call : WF_lockVars(Resume(c)) /\ WF_lockVars(\E ok \in BOOLEAN : Settle(c, ok))

----------------------------------------------------------------------------
LockTypeOK ==
  /\ cacheLock \in Call \cup {NoLock}
  /\ callState \in [Call -> CallStates]
  /\ withFn \in [Call -> BOOLEAN]
  /\ awaits \in [Call -> Call \cup {NoLock}]

Updating == {c \in Call : callState[c] = "updating"}

(* The calls that have gone past an await of the lock. *)
Resumed == {c \in Call : awaits[c] # NoLock /\ callState[c] # "waiting"}

(* What the lock does guarantee: every update that runs beside another, and*)
(* every moment the lock is free while one runs, is owed to a call that    *)
(* waited.  Updates of callers that never meet at the lock are serial; the  *)
(* comment on #updateCache (parallel.ts:308) promises it of all.           *)
OverlapsNeedWaiters ==
  Cardinality(Updating) + (IF cacheLock = NoLock THEN 1 ELSE 0)
    <= 1 + Cardinality(Resumed)

(* A call that waits is never forgotten, whether the update it waits for   *)
(* succeeds or fails, and even when its lock has been replaced.            *)
EveryCallGetsThrough ==
  \A c \in Call : callState[c] = "waiting" ~> callState[c] \in {"updating", "returned", "settled"}
=============================================================================
