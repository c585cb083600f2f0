----------------------------- MODULE DataLoader -----------------------------
(***************************************************************************)
(* DataLoader: keys loaded in one turn of the event loop are fetched as one*)
(* batch, and the promises of the loads are cached by key.                 *)
(*                                                                         *)
(* The promise of a load that found none in the cache is named by its call.*)
(* What is fetched is the version of the data behind the loader.           *)
(***************************************************************************)
EXTENDS Integers, Sequences, FiniteSets, SequencesExt

CONSTANTS
  Calls,         \* bound: calls of load
  Key,           \* what they load
  None,          \* no promise
  Primed,        \* the promise that prime puts into the cache
  MaxBatchSize,  \* options.maxBatchSize
  MaxVersion,    \* bound: changes of the data
  MaxEdits       \* bound: calls of clear, clearAll and prime

ASSUME LoaderAssumption ==
  /\ IsFiniteSet(Key) /\ None \notin Key
  /\ None \notin Nat /\ Primed \notin Nat /\ None # Primed
  /\ MaxBatchSize \in Nat \ {0}
  /\ Calls \in Nat /\ MaxVersion \in Nat /\ MaxEdits \in Nat

Call == 1 .. Calls  \* in the order in which they are made

VARIABLES
  key,       \* what a call loads; None before the call
  follows,   \* the promise a call waits for: its own, or a cached one
  released,  \* the calls that found a cached promise and got hold of it
  outcome,   \* how the promise of a call was settled
  fetched,   \* the version it was settled with
  batches,   \* all batches, the last one being #_batch
  cacheMap,  \* the promise cached for a key
  primed,    \* the version a key was primed with
  edits,     \* bound: how often clear, clearAll and prime were called
  version,   \* data: how often it changed
  floor,     \* history: the version a call must not be older than
  clearedAt, \* history: the version at the last clear of a key
  fetches,   \* history: how often a key was fetched
  excuses    \* history: how often it was cleared, or its batch failed

loads == <<key, follows, released>>
promises == <<outcome, fetched>>
history == <<floor, clearedAt, fetches, excuses>>
vars == <<loads, promises, batches, cacheMap, primed, edits, version, history>>

Init ==
  /\ key = [c \in Call |-> None]
  /\ follows = [c \in Call |-> None]
  /\ released = {}
  /\ outcome = [c \in Call |-> "pending"]
  /\ fetched = [c \in Call |-> 0]
  /\ batches = <<>>
  /\ cacheMap = [k \in Key |-> None]
  /\ primed = [k \in Key |-> 0]
  /\ edits = 0
  /\ version = 0
  /\ floor = [c \in Call |-> 0]
  /\ clearedAt = [k \in Key |-> 0]
  /\ fetches = [k \in Key |-> 0]
  /\ excuses = [k \in Key |-> 0]

----------------------------------------------------------------------------
(* load *)

NewBatch == [keys |-> <<>>, cacheHits |-> {}, state |-> "scheduled", since |-> 0]

IsCurrentOrFull(batch) == batch.state = "scheduled" /\ Len(batch.keys) <= MaxBatchSize  \* mutant

IsCurrent(batch) == batch.state = "scheduled" /\ Len(batch.keys) < MaxBatchSize

(* getCurrentBatch: the batches, the last of which takes the next load.    *)
WithCurrentBatch ==
  IF batches # <<>> /\ IsCurrent(Last(batches)) THEN batches ELSE Append(batches, NewBatch)

InCurrentBatch(batch) == batches' = [WithCurrentBatch EXCEPT ![Len(WithCurrentBatch)] = batch]

CacheNothing(k, c) == UNCHANGED cacheMap  \* mutant: the promise is not cached

CachePromise(k, c) == cacheMap' = [cacheMap EXCEPT ![k] = c]

Load(c, k) ==
  LET batch == Last(WithCurrentBatch) IN
  /\ key[c] = None /\ \A d \in 1 .. c - 1 : key[d] # None
  /\ key' = [key EXCEPT ![c] = k]
  /\ floor' = [floor EXCEPT ![c] = clearedAt[k]]
  /\ \/ /\ cacheMap[k] # None
        /\ InCurrentBatch([batch EXCEPT !.cacheHits = @ \cup {c}])
        /\ follows' = [follows EXCEPT ![c] = cacheMap[k]]
        /\ UNCHANGED cacheMap
     \/ /\ cacheMap[k] = None
        /\ InCurrentBatch([batch EXCEPT !.keys = Append(@, c)])
        /\ follows' = [follows EXCEPT ![c] = c]
        /\ CachePromise(k, c)
  /\ UNCHANGED <<released, promises, primed, edits, version, clearedAt, fetches, excuses>>

----------------------------------------------------------------------------
(* dispatchBatch *)

KeysOf(b) == [i \in 1 .. Len(batches[b].keys) |-> key[batches[b].keys[i]]]

HowOften(k, keys) == Cardinality({i \in DOMAIN keys : keys[i] = k})

SettleEmpty(b) == batches' = [batches EXCEPT ![b].state = "settled"] /\ UNCHANGED released  \* mutant

(* resolveCacheHits, the batch being done. *)
Settle(b) ==
  /\ batches' = [batches EXCEPT ![b].state = "settled"]
  /\ released' = released \cup batches[b].cacheHits

DispatchBatch(b) ==
  /\ batches[b].state = "scheduled"
  /\ IF batches[b].keys = <<>>
       THEN Settle(b)
       ELSE /\ batches' = [batches EXCEPT ![b].state = "dispatched", ![b].since = version]
            /\ UNCHANGED released
  /\ fetches' = [k \in Key |-> fetches[k] + HowOften(k, KeysOf(b))]
  /\ UNCHANGED <<key, follows, promises, cacheMap, primed, edits, version, floor, clearedAt, excuses>>

(* The values arrived.  They are of some version since the batch was       *)
(* dispatched; a value may be an Error.                                    *)
BatchLoaded(b) ==
  LET own == ToSet(batches[b].keys) IN
  /\ batches[b].state = "dispatched"
  /\ Settle(b)
  /\ \E read \in batches[b].since .. version, errors \in {{}, own} :
       /\ outcome' = [c \in Call |-> IF c \in errors THEN "error"
                                     ELSE IF c \in own THEN "value" ELSE outcome[c]]
       /\ fetched' = [c \in Call |-> IF c \in own THEN read ELSE fetched[c]]
  /\ UNCHANGED <<key, follows, cacheMap, primed, edits, version, history>>

ClearOwn(b) ==  \* mutant: only entries for the second and later keys
  LET keys == {KeysOf(b)[i] : i \in 2 .. Len(batches[b].keys)} IN
  cacheMap' = [k \in Key |-> IF k \in keys THEN None ELSE cacheMap[k]]

(* Every key of the batch is cleared, whosever promise is cached for it.   *)
ClearKeys(b) ==
  LET keys == {KeysOf(b)[i] : i \in 1 .. Len(batches[b].keys)} IN
  cacheMap' = [k \in Key |-> IF k \in keys THEN None ELSE cacheMap[k]]

(* failedDispatch *)
BatchFailed(b) ==
  /\ batches[b].state = "dispatched"
  /\ Settle(b)
  /\ ClearKeys(b)
  /\ outcome' = [c \in Call |-> IF c \in ToSet(batches[b].keys) THEN "failed" ELSE outcome[c]]
  /\ excuses' = [k \in Key |-> excuses[k] + HowOften(k, KeysOf(b))]
  /\ UNCHANGED <<key, follows, fetched, primed, edits, version, floor, clearedAt, fetches>>

----------------------------------------------------------------------------
(* clear, clearAll, prime *)

ForgetNothing(ks) == UNCHANGED cacheMap  \* mutant

Forget(ks) == cacheMap' = [k \in Key |-> IF k \in ks THEN None ELSE cacheMap[k]]

Clear(ks) ==
  /\ edits < MaxEdits
  /\ Forget(ks)
  /\ edits' = edits + 1
  /\ clearedAt' = [k \in Key |-> IF k \in ks THEN version ELSE clearedAt[k]]
  /\ excuses' = [k \in Key |-> IF k \in ks THEN excuses[k] + 1 ELSE excuses[k]]
  /\ UNCHANGED <<loads, promises, batches, primed, version, floor, fetches>>

(* The user primes with what the data are now. *)
Prime(k) ==
  /\ edits < MaxEdits
  /\ cacheMap[k] = None
  /\ cacheMap' = [cacheMap EXCEPT ![k] = Primed]
  /\ primed' = [primed EXCEPT ![k] = version]
  /\ edits' = edits + 1
  /\ UNCHANGED <<loads, promises, batches, version, history>>

----------------------------------------------------------------------------
DataChange ==  \* external
  /\ version < MaxVersion
  /\ version' = version + 1
  /\ UNCHANGED <<loads, promises, batches, cacheMap, primed, edits, history>>

BatchStep(b) == DispatchBatch(b) \/ BatchLoaded(b) \/ BatchFailed(b)

Next ==
  \/ \E c \in Call, k \in Key : Load(c, k)
  \/ \E b \in 1 .. Calls : b \in DOMAIN batches /\ BatchStep(b)
  \/ \E ks \in {{k} : k \in Key} \cup {Key} : Clear(ks)
  \/ \E k \in Key : Prime(k)
  \/ DataChange

Spec == Init /\ [][Next]_vars

(* Scheduled callbacks run, and what batchLoadFn returns settles. *)
FairSpec ==
  Spec /\ \A b \in 1 .. Calls : WF_vars(b \in DOMAIN batches /\ BatchStep(b))

----------------------------------------------------------------------------
Batches == [keys : Seq(Call), cacheHits : SUBSET Call,
            state : {"scheduled", "dispatched", "settled"}, since : 0 .. MaxVersion]

(* Type invariant, and the bound on batches. *)
TypeOK ==
  /\ key \in [Call -> Key \cup {None}]
  /\ follows \in [Call -> Call \cup {Primed, None}]
  /\ released \subseteq Call
  /\ outcome \in [Call -> {"pending", "value", "error", "failed"}]
  /\ fetched \in [Call -> 0 .. MaxVersion]
  /\ batches \in Seq(Batches)
  /\ \A b \in DOMAIN batches : Len(batches[b].keys) <= MaxBatchSize
  /\ cacheMap \in [Key -> Call \cup {Primed, None}]
  /\ primed \in [Key -> 0 .. version]
  /\ edits \in 0 .. MaxEdits
  /\ version \in 0 .. MaxVersion
  /\ floor \in [Call -> 0 .. version]
  /\ clearedAt \in [Key -> 0 .. version]
  /\ fetches \in [Key -> Nat] /\ excuses \in [Key -> Nat]

(* A key is fetched once, whoever loads it and from whatever batch, and    *)
(* once more for each time it was cleared or its batch failed.             *)
FetchOnce == \A k \in Key : fetches[k] <= 1 + excuses[k]

HasAnswer(c) ==
  /\ key[c] # None
  /\ IF follows[c] = c THEN outcome[c] # "pending"
     ELSE /\ c \in released
          /\ follows[c] = Primed \/ outcome[follows[c]] # "pending"

Answer(c) == IF follows[c] = Primed THEN primed[key[c]] ELSE fetched[follows[c]]

(* Whoever loads a key after it was cleared is not answered with data from *)
(* before the clear, although fetches from before it arrive afterwards.    *)
ClearForgets ==
  \A c \in Call :
    HasAnswer(c) /\ (follows[c] = Primed \/ outcome[follows[c]] = "value") => Answer(c) >= floor[c]

(* "do not cache individual loads if the entire batch dispatch fails"      *)
(* (dataloader.ts:352), whatever the cache holds by then.                  *)
FailuresForgotten ==
  \A k \in Key : cacheMap[k] \in Call => outcome[cacheMap[k]] # "failed"

(* Every load is answered, also one that found the promise of a batch that *)
(* is still loading, or that came to a batch with no keys.                 *)
EveryLoadSettles == \A c \in Call : key[c] # None ~> HasAnswer(c)
=============================================================================
