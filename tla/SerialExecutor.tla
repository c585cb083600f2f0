--------------------------- MODULE SerialExecutor ---------------------------
(***************************************************************************)
(* SerialTransactionExecutor: transactions built, signed and executed one  *)
(* at a time, from object versions and a gas coin that an ObjectCache      *)
(* remembers from the effects of the last ones, because the full node that *)
(* is asked for the others lags behind the chain.                          *)
(*                                                                         *)
(* The version of an object is the height of the transaction that touched  *)
(* it last.  One that became shared or immutable ("fixed") is referred to  *)
(* by the version it became so at, and is not touched any more.            *)
(***************************************************************************)
EXTENDS Integers, Sequences, FiniteSets, FiniteSetsExt

CONSTANTS
  Tx,        \* the transactions given to executeTransaction
  Object,    \* the objects they use and pay with
  Coin,      \* the objects that are gas coins
  InputSets, \* the sets of objects that transactions use
  None,      \* null
  MaxHeight  \* bound: transactions on chain

ASSUME SerialAssumption ==
  /\ IsFiniteSet(Tx) /\ IsFiniteSet(Object)
  /\ Coin \subseteq Object
  /\ InputSets \subseteq SUBSET Object
  /\ None \notin Nat \cup Tx
  /\ None \notin [id : Object, version : Nat] \cup [digest : Nat, reset : BOOLEAN]
  /\ MaxHeight \in Nat

VARIABLES
  queue,       \* SerialQueue: the task at its head runs
  pc,          \* the await the task of a transaction is at
  uses,        \* the objects a transaction takes as inputs
  inputs,      \* the versions the running task has found for them
  payment,     \* its gas payment, empty if unset
  waitFor,     \* what its reset waits for
  ownedCache,  \* OwnedObject: the version by object
  fixedCache,  \* SharedOrImmutableObject
  gasCoin,     \* Custom, 'gasCoin'
  lastDigest,  \* #lastDigest, as a height; 0 = null
  userCall,    \* a resetCache or waitForLastTransaction call under way
  ledger,      \* chain: what each transaction did
  inFlight,    \* chain: submissions it may still execute
  indexed,     \* node: how much of the chain it shows
  answered,    \* history: the heights whose effects were received
  gaveUp,      \* history: the height up to which a wait was given up
  clearedAt    \* history: what the node showed at the last reset

task == <<queue, pc, uses>>
build == <<inputs, payment, waitFor>>
cache == <<ownedCache, fixedCache, gasCoin>>
chain == <<ledger, inFlight>>
history == <<answered, gaveUp, clearedAt>>
vars == <<task, build, cache, lastDigest, userCall, chain, indexed, history>>

(* cache    cache.getCustom('gasCoin') and the cache plugin's getObjects   *)
(* resolve  the resolver's multiGetObjects for what is not cached          *)
(* pay      getCoins, if no gas coin is cached                             *)
(* sign     signTransaction                                                *)
(* submit   executeTransactionBlock                                        *)
(* reset    the wait for the last transaction in the catch of a submission *)
Awaits == {"none", "cache", "resolve", "pay", "sign", "submit", "reset", "done"}

Preparing == {"cache", "resolve", "pay", "sign"}

Owners == {"mine", "theirs", "fixed", "gone"}

Ref(o, v) == [id |-> o, version |-> v]

Untouched == [o \in Object |-> "untouched"]

Init ==
  /\ queue = <<>>
  /\ pc = [t \in Tx |-> "none"]
  /\ uses = [t \in Tx |-> {}]
  /\ inputs = [o \in Object |-> None]
  /\ payment = {}
  /\ waitFor = 0
  /\ ownedCache = [o \in Object |-> None]
  /\ fixedCache = [o \in Object |-> None]
  /\ gasCoin = None
  /\ lastDigest = 0
  /\ userCall = None
  /\ ledger = <<>>
  /\ inFlight = {}
  /\ indexed = 0
  /\ answered = {}
  /\ gaveUp = 0
  /\ clearedAt = 0

----------------------------------------------------------------------------
(* What a node shows that has seen the chain up to height h. *)

Touches(o, h) == {i \in 1 .. h : ledger[i].changed[o] # "untouched"}

VersionAt(o, h) == Max(Touches(o, h) \cup {0})

OwnerAt(o, h) ==
  IF Touches(o, h) = {} THEN "mine" ELSE ledger[VersionAt(o, h)].changed[o]

Height == Len(ledger)

----------------------------------------------------------------------------
(* The queue *)

Resetting == userCall # None /\ userCall.reset

(* Callers wait for their resetCache before they go on. *)
ExecuteTransaction(t, ids) ==
  /\ pc[t] = "none"
  /\ ~Resetting
  /\ queue' = Append(queue, t)
  /\ pc' = [pc EXCEPT ![t] = "cache"]
  /\ uses' = [uses EXCEPT ![t] = ids]
  /\ UNCHANGED <<build, cache, lastDigest, userCall, chain, indexed, history>>

Runs(t, await) == pc[t] = await /\ Head(queue) = t

GoTo(t, await) ==
  /\ pc' = [pc EXCEPT ![t] = await]
  /\ UNCHANGED <<queue, uses>>

Leave(t) ==
  /\ queue' = Tail(queue)
  /\ pc' = [pc EXCEPT ![t] = "done"]
  /\ uses' = [uses EXCEPT ![t] = {}]
  /\ inputs' = [o \in Object |-> None]
  /\ payment' = {}
  /\ waitFor' = 0

----------------------------------------------------------------------------
(* #buildTransaction *)

Cached(o) == IF ownedCache[o] # None THEN ownedCache[o] ELSE fixedCache[o]

(* Nothing changes the cache while a transaction is built, so its reads are*)
(* one step.                                                               *)
ReadCache(t) ==
  /\ Runs(t, "cache")
  /\ payment' = IF gasCoin = None THEN {} ELSE {gasCoin}
  /\ inputs' = [o \in Object |-> IF o \in uses[t] THEN Cached(o) ELSE None]
  /\ GoTo(t, "resolve")
  /\ UNCHANGED <<waitFor, cache, lastDigest, userCall, chain, indexed, history>>

ResolveObjects(t) ==
  LET asked == {o \in uses[t] : inputs[o] = None} IN
  /\ Runs(t, "resolve")
  /\ \A o \in asked : OwnerAt(o, indexed) # "gone"
  /\ inputs' = [o \in Object |-> IF o \in asked THEN VersionAt(o, indexed) ELSE inputs[o]]
  /\ GoTo(t, "pay")
  /\ UNCHANGED <<payment, waitFor, cache, lastDigest, userCall, chain, indexed, history>>

(* All coins the node shows to be the signer's, but for the inputs. *)
SetGasPayment(t) ==
  LET coins == {c \in Coin \ uses[t] : OwnerAt(c, indexed) = "mine"} IN
  /\ Runs(t, "pay")
  /\ IF payment # {}
       THEN UNCHANGED payment
       ELSE /\ coins # {}
            /\ payment' = {Ref(c, VersionAt(c, indexed)) : c \in coins}
  /\ GoTo(t, "sign")
  /\ UNCHANGED <<inputs, waitFor, cache, lastDigest, userCall, chain, indexed, history>>

(* Anything awaited before the submission rejects: nothing is reset. *)
PrepareFails(t) ==
  /\ pc[t] \in Preparing
  /\ Head(queue) = t
  /\ Leave(t)
  /\ UNCHANGED <<cache, lastDigest, userCall, chain, indexed, history>>

Submit(t) ==
  /\ Runs(t, "sign")
  /\ inFlight' = inFlight \cup {[by |-> t, uses |-> uses[t], inputs |-> inputs, payment |-> payment]}
  /\ GoTo(t, "submit")
  /\ UNCHANGED <<build, cache, lastDigest, userCall, ledger, indexed, history>>

----------------------------------------------------------------------------
(* Effects and failures *)

ApplyChangesOnce(h) ==  \* mutant: a cached version is not replaced
  LET changed == ledger[h].changed IN
  /\ ownedCache' = [o \in Object |->
                      IF changed[o] \in {"mine", "theirs"} /\ ownedCache[o] = None THEN h
                      ELSE IF changed[o] = "gone" THEN None ELSE ownedCache[o]]
  /\ fixedCache' = [o \in Object |->
                      IF changed[o] = "fixed" THEN h
                      ELSE IF changed[o] = "gone" THEN None ELSE fixedCache[o]]

(* ObjectCache.applyEffects.  An object that became fixed is entered there *)
(* and stays among the owned ones too.                                     *)
ApplyChanges(h) ==
  LET changed == ledger[h].changed IN
  /\ ownedCache' = [o \in Object |->
                      IF changed[o] \in {"mine", "theirs"} THEN h
                      ELSE IF changed[o] = "gone" THEN None ELSE ownedCache[o]]
  /\ fixedCache' = [o \in Object |->
                      IF changed[o] = "fixed" THEN h
                      ELSE IF changed[o] = "gone" THEN None ELSE fixedCache[o]]

RememberNoDigest(h) ==  \* mutant: #lastDigest is not set
  /\ ApplyChanges(h)
  /\ gasCoin' = Ref(ledger[h].gas, h)
  /\ UNCHANGED lastDigest

(* CachingTransactionExecutor.applyEffects and #cacheGasCoin, which looks   *)
(* at no owner.                                                            *)
Remember(h) ==
  /\ ApplyChanges(h)
  /\ gasCoin' = Ref(ledger[h].gas, h)
  /\ lastDigest' = h

EffectsArrive(t) ==
  /\ Runs(t, "submit")
  /\ \E h \in 1 .. Height :
       /\ ledger[h].by = t
       /\ Remember(h)
       /\ answered' = answered \cup {h}
  /\ Leave(t)
  /\ UNCHANGED <<userCall, chain, indexed, gaveUp, clearedAt>>

ClearOwnedOnly ==  \* mutant: the gas coin survives
  /\ ownedCache' = [o \in Object |-> None]
  /\ clearedAt' = indexed
  /\ UNCHANGED <<fixedCache, gasCoin>>

(* clearOwnedObjects and clearCustom *)
ClearCache ==
  /\ ownedCache' = [o \in Object |-> None]
  /\ gasCoin' = None
  /\ clearedAt' = indexed
  /\ UNCHANGED fixedCache

(* executeTransactionBlock rejected, whether or not the transaction was, or*)
(* will be, executed.                                                      *)
SubmitFails(t) ==
  /\ Runs(t, "submit")
  /\ ClearCache
  /\ IF lastDigest = 0
       THEN Leave(t)
       ELSE /\ waitFor' = lastDigest
            /\ GoTo(t, "reset")
            /\ UNCHANGED <<inputs, payment>>
  /\ UNCHANGED <<lastDigest, userCall, chain, indexed, answered, gaveUp>>

(* waitForTransaction found the transaction: #lastDigest is set to null,   *)
(* also if it is a newer one by now.                                       *)
LastTransactionSeen ==
  /\ lastDigest' = 0
  /\ gaveUp' = IF lastDigest > indexed THEN lastDigest ELSE gaveUp

ResetEnds(t) ==
  /\ Runs(t, "reset")
  /\ \/ indexed >= waitFor /\ LastTransactionSeen
     \/ UNCHANGED lastDigest /\ gaveUp' = Max({gaveUp, waitFor})  \* timeout
  /\ Leave(t)
  /\ UNCHANGED <<cache, userCall, chain, indexed, answered, clearedAt>>

----------------------------------------------------------------------------
(* Calls that do not go through the queue, one at a time in this model.    *)
(* waitForLastTransaction comes at any time, resetCache between tasks.     *)

WaitForNoTransaction ==  \* mutant: also when there was none
  /\ userCall = None
  /\ userCall' = [digest |-> lastDigest, reset |-> FALSE]
  /\ UNCHANGED <<task, build, cache, lastDigest, chain, indexed, history>>

WaitForLastTransaction ==
  /\ userCall = None
  /\ lastDigest # 0
  /\ userCall' = [digest |-> lastDigest, reset |-> FALSE]
  /\ UNCHANGED <<task, build, cache, lastDigest, chain, indexed, history>>

ResetCache ==
  /\ userCall = None
  /\ queue = <<>>
  /\ ClearCache
  /\ userCall' = IF lastDigest = 0 THEN None ELSE [digest |-> lastDigest, reset |-> TRUE]
  /\ UNCHANGED <<task, build, lastDigest, chain, indexed, answered, gaveUp>>

UserCallEnds ==
  /\ userCall # None
  /\ \/ indexed >= userCall.digest /\ LastTransactionSeen
     \/ /\ UNCHANGED lastDigest  \* timeout
        /\ gaveUp' = IF userCall.reset THEN Max({gaveUp, userCall.digest}) ELSE gaveUp
  /\ userCall' = None
  /\ UNCHANGED <<task, build, cache, chain, indexed, answered, clearedAt>>

----------------------------------------------------------------------------
(* The chain and the node (external).  A submission is executed, at any    *)
(* time after it was sent, if every version it names is the latest one.    *)

IdsOf(refs) == {r.id : r \in refs}

Executable(tx) ==
  /\ \A o \in tx.uses :
       tx.inputs[o] = VersionAt(o, Height) /\ OwnerAt(o, Height) \in {"mine", "fixed"}
  /\ \A r \in tx.payment :
       r.version = VersionAt(r.id, Height) /\ OwnerAt(r.id, Height) = "mine"
  /\ tx.uses \cap IdsOf(tx.payment) = {}

(* The coins of the payment are merged into the gas coin. *)
ChainExecutes(tx) ==
  LET ids == IdsOf(tx.payment) IN
  /\ Height < MaxHeight
  /\ Executable(tx)
  /\ \E gas \in ids, gasOwner \in {"mine", "theirs"}, owner \in Owners :
       ledger' = Append(ledger,
         [by |-> tx.by,
          gas |-> gas,
          changed |-> [o \in Object |->
            CASE o = gas -> gasOwner
              [] o \in ids \ {gas} -> "gone"
              [] o \in tx.uses /\ OwnerAt(o, Height) = "mine" -> owner
              [] OTHER -> "untouched"]])
  /\ inFlight' = inFlight \ {tx}
  /\ UNCHANGED <<task, build, cache, lastDigest, userCall, indexed, history>>

(* Another client of the signer, or another owner, uses an object. *)
OthersExecute(o) ==
  /\ Height < MaxHeight
  /\ OwnerAt(o, Height) \in {"mine", "theirs"}
  /\ \E owner \in Owners :
       ledger' = Append(ledger, [by |-> None, gas |-> None, changed |-> [Untouched EXCEPT ![o] = owner]])
  /\ UNCHANGED <<task, build, cache, lastDigest, userCall, inFlight, indexed, history>>

NodeIndexes ==
  /\ indexed < Height
  /\ indexed' = indexed + 1
  /\ UNCHANGED <<task, build, cache, lastDigest, userCall, chain, history>>

----------------------------------------------------------------------------
RunsOn(t) ==
  \/ ReadCache(t)
  \/ ResolveObjects(t)
  \/ SetGasPayment(t)
  \/ PrepareFails(t)
  \/ Submit(t)
  \/ EffectsArrive(t)
  \/ SubmitFails(t)
  \/ ResetEnds(t)

Next ==
  \/ \E t \in Tx :
       \/ \E ids \in InputSets : ExecuteTransaction(t, ids)
       \/ RunsOn(t)
  \/ \E tx \in inFlight : ChainExecutes(tx)
  \/ WaitForLastTransaction
  \/ ResetCache
  \/ UserCallEnds
  \/ \E o \in Object : OthersExecute(o)
  \/ NodeIndexes

Spec == Init /\ [][Next]_vars

----------------------------------------------------------------------------
Refs == [id : Object, version : Nat]

Executions == [by : Tx \cup {None}, gas : Coin \cup {None},
               changed : [Object -> Owners \cup {"untouched"}]]

Submissions == [by : Tx, uses : SUBSET Object, inputs : [Object -> Nat \cup {None}],
                payment : SUBSET Refs]

(* Type invariant. *)
TypeOK ==
  /\ queue \in Seq(Tx)
  /\ pc \in [Tx -> Awaits]
  /\ uses \in [Tx -> SUBSET Object]
  /\ inputs \in [Object -> Nat \cup {None}]
  /\ payment \subseteq Refs
  /\ waitFor \in 0 .. Height
  /\ ownedCache \in [Object -> Nat \cup {None}]
  /\ fixedCache \in [Object -> Nat \cup {None}]
  /\ gasCoin \in Refs \cup {None}
  /\ lastDigest \in 0 .. Height
  /\ userCall \in [digest : 1 .. Height, reset : BOOLEAN] \cup {None}
  /\ ledger \in Seq(Executions)
  /\ inFlight \subseteq Submissions
  /\ indexed \in 0 .. Height
  /\ answered \subseteq 1 .. Height
  /\ gaveUp \in 0 .. Height
  /\ clearedAt \in 0 .. indexed

Built(t) == pc[t] \in {"sign", "submit"}

RefsOf(t) == payment \cup {Ref(o, inputs[o]) : o \in uses[t]}

(* The version of an object of the signer that the last answer about it    *)
(* gave, but for answers that a wait was given up for.                     *)
Known(o) ==
  LET last == Max({h \in answered : ledger[h].changed[o] # "untouched"} \cup {0}) IN
  IF last > gaveUp /\ ledger[last].changed[o] \in {"mine", "theirs"} THEN last ELSE 0

(* A transaction is never built from a version older than the executor has *)
(* been told of, however far behind the node is and whatever was reset,    *)
(* unless the wait for the node timed out or was cut short by an older one.*)
NeverBehindAnswers ==
  \A t \in Tx : Built(t) => \A r \in RefsOf(t) : r.version >= Known(r.id)

(* A reset makes good whatever the cache had missed: nothing is built from *)
(* versions older than those the node showed at the last reset.            *)
ResetHeals ==
  \A t \in Tx : Built(t) => \A r \in RefsOf(t) : r.version >= VersionAt(r.id, clearedAt)

(* "Executes multiple transactions using the same objects"                 *)
(* (serial-executor.test.ts:38).  While everything on chain was done by    *)
(* the executor and answered, the objects are still the signer's, and no   *)
(* wait timed out, no transaction is refused for what it was built from.   *)
Alone == answered = 1 .. Height /\ gaveUp = 0

AloneNeverRefused ==
  \A tx \in inFlight :
    /\ Alone
    /\ \A o \in tx.uses \cup IdsOf(tx.payment) : OwnerAt(o, Height) = "mine"
    /\ tx.uses \cap IdsOf(tx.payment) = {}
    /\ pc[tx.by] = "submit"
    => Executable(tx)
=============================================================================
