-------------------------- MODULE ParallelExecutor --------------------------
(***************************************************************************)
(* ParallelTransactionExecutor: calls ordered by the ObjectScheduler build *)
(* one at a time, pay with coins of a pool that the executor refills by a  *)
(* transaction of its own, and give the coin back when they have run.      *)
(*                                                                         *)
(* An action is a synchronous block between two awaits.  An await that may *)
(* reject lets the call fail as well; how long the await of    *)
(* #cacheLock lasts is the subject of CacheLock.  The node (`chain'        *)
(* variables) executes what was submitted at any later time, also after    *)
(* the client has given up on the answer.                                  *)
(***************************************************************************)
EXTENDS ObjectScheduler, FiniteSetsExt

CONSTANTS
  CoinBatchSize,  \* options.coinBatchSize
  InitialCoins,   \* how many coins the signer owns at the start
  NoCoin          \* `gasCoin' before it is assigned

ASSUME ExecutorAssumption ==
  /\ CoinBatchSize \in Nat \ {0}
  /\ InitialCoins \in Nat
  /\ NoCoin \notin [id : Nat, version : Nat]

VARIABLES
  pc,                   \* the await a running call is at, see Awaits
  buildQueue,           \* SerialQueue: the calls in it; its head is running
  gasCoin,              \* the coin a call took from the pool
  coinPool,             \* #coinPool
  sourceCoins,          \* #sourceCoins: NoMap, or the coins set aside
  pendingTransactions,  \* #pendingTransactions
  payment,              \* the gas payment of the refill a call makes
  batchSize,            \* how many coins that refill splits off
  version,              \* chain: version of every coin; 0 if it never existed
  owned,                \* chain: the coins the signer owns
  inFlight,             \* chain: submissions it may still execute
  minted                \* chain: the coins an executed refill created

gasVars == <<gasCoin, coinPool, sourceCoins, pendingTransactions>>
refillVars == <<payment, batchSize>>
chain == <<version, owned, inFlight, minted>>
vars == <<schedulerVars, pc, buildQueue, gasVars, refillVars, chain>>

Coin == 1 .. InitialCoins + CoinBatchSize * Cardinality(Tx)

Unknown == 0  \* the null in #sourceCoins: version to be fetched

NoMap == {NoCoin}  \* #sourceCoins = null, or a payment left unset

Ref(c, v) == [id |-> c, version |-> v]

CurrentRef(c) == Ref(c, version[c])

IdsOf(refs) == {r.id : r \in refs}

(* none   not inside #execute                                              *)
(* start  in the build queue; at its head: gas price, then #cacheLock      *)
(* fetch  multiGetObjects for the source coins of unknown version          *)
(* unpaid waitForLastTransaction, before the refill is submitted           *)
(* refill signAndExecuteTransaction of the refill                          *)
(* index  waitForTransaction of the refill                                 *)
(* build  cache.buildTransaction, the last await of the build task         *)
(* sign   transaction.build and signTransaction                            *)
(* submit cache.executeTransaction                                         *)
(* failed the build task rejected, which #execute has not seen yet         *)
(* catch  #updateCache of the catch block                                  *)
Awaits == {"none", "start", "fetch", "unpaid", "refill", "index",
           "build", "sign", "submit", "failed", "catch"}

Building == {"start", "fetch", "unpaid", "refill", "index", "build"}

Init ==
  /\ SchedulerInit
  /\ pc = [t \in Tx |-> "none"]
  /\ buildQueue = <<>>
  /\ gasCoin = [t \in Tx |-> NoCoin]
  /\ coinPool = <<>>
  /\ sourceCoins \in {NoMap, {Ref(c, Unknown) : c \in 1 .. InitialCoins}}
  /\ pendingTransactions = 0
  /\ payment = [t \in Tx |-> {}]
  /\ batchSize = [t \in Tx |-> 0]
  /\ version = [c \in Coin |-> IF c <= InitialCoins THEN 1 ELSE 0]
  /\ owned = 1 .. InitialCoins
  /\ inFlight = {}
  /\ minted = [t \in Tx |-> {}]

----------------------------------------------------------------------------
(* Scheduling: the calls that get a task slot enter the build queue.       *)

EnterBuild(started, others) ==
  /\ buildQueue' = buildQueue \o started
  /\ pc' = [u \in Tx |-> IF u \in ToSet(started) THEN "start" ELSE others[u]]

PrepareFails(t) ==
  /\ RejectPrepare(t)
  /\ UNCHANGED <<pc, buildQueue, gasVars, refillVars, chain>>

ExecuteTransaction(t, ids) ==
  /\ Register(t, ids)
  /\ EnterBuild(Started(IF ids \cap queueIds = {} THEN <<t>> ELSE <<>>), pc)
  /\ UNCHANGED <<gasVars, refillVars, chain>>

SlotFreed(t) ==
  /\ TaskDone(t)
  /\ EnterBuild(IF executeQueue = <<>> THEN <<>> ELSE <<Head(executeQueue)>>, pc)
  /\ UNCHANGED <<gasVars, refillVars, chain>>

(* The finally block of #execute. *)
Leave(t, ready) ==
  /\ Release(t, ready)
  /\ EnterBuild(Started(ready), [pc EXCEPT ![t] = "none"])
  /\ pendingTransactions' = pendingTransactions - 1

----------------------------------------------------------------------------
(* The build task and #getGasCoin *)

GoTo(t, await) == pc' = [pc EXCEPT ![t] = await]

(* The build task of t is the one running, and it is at `await'. *)
BuildsAt(t, await) ==
  /\ pc[t] = await
  /\ Head(buildQueue) = t

NeedsRefill == coinPool = <<>> /\ pendingTransactions <= MaxPoolSize

NoNextBuild ==  \* mutant: the next task is not started
  UNCHANGED buildQueue

(* The finally handler of SerialQueue: the build task is over and the next *)
(* one starts, before anybody who awaits the task goes on.                 *)
LeaveBuildQueue == buildQueue' = Tail(buildQueue)

TakeCoin(t) ==
  /\ \/ BuildsAt(t, "start") /\ ~NeedsRefill
     \/ BuildsAt(t, "index")
  /\ coinPool # <<>>
  /\ gasCoin' = [gasCoin EXCEPT ![t] = Head(coinPool)]
  /\ coinPool' = Tail(coinPool)
  /\ pendingTransactions' = pendingTransactions + 1
  /\ GoTo(t, "build")
  /\ UNCHANGED <<schedulerVars, buildQueue, sourceCoins, refillVars, chain>>

(* cache.buildTransaction resolved: the next build task starts. *)
BuildTaskDone(t) ==
  /\ BuildsAt(t, "build")
  /\ LeaveBuildQueue
  /\ GoTo(t, "sign")
  /\ UNCHANGED <<schedulerVars, gasVars, refillVars, chain>>

----------------------------------------------------------------------------
(* #refillCoinPool *)

RefillSizeUncapped == MaxPoolSize - (Len(coinPool) + pendingTransactions) + 1  \* mutant

RefillSizeOneMore ==  \* mutant: off by one
  Min({CoinBatchSize, MaxPoolSize - (Len(coinPool) + pendingTransactions) + 2})

RefillSize ==
  Min({CoinBatchSize, MaxPoolSize - (Len(coinPool) + pendingTransactions) + 1})

(* #sourceCoins.set, into a new map if there is none. *)
WithSource(c, v) == {r \in sourceCoins \ NoMap : r.id # c} \cup {Ref(c, v)}

(* Up to the first await.  Without a map the payment is left for the client*)
(* to resolve.                                                             *)
StartRefill(t) ==
  /\ BuildsAt(t, "start")
  /\ NeedsRefill
  /\ batchSize' = [batchSize EXCEPT ![t] = RefillSize]
  /\ payment' = [payment EXCEPT ![t] = sourceCoins]
  /\ IF \E r \in sourceCoins \ NoMap : r.version = Unknown
       THEN GoTo(t, "fetch") /\ UNCHANGED sourceCoins
       ELSE GoTo(t, "unpaid") /\ sourceCoins' = sourceCoins \cap NoMap
  /\ UNCHANGED <<schedulerVars, buildQueue, gasCoin, coinPool, pendingTransactions, chain>>

(* multiGetObjects answered with the versions of the coins it was asked    *)
(* for, deleted ones left out (a coin that was lost is deleted or somebody *)
(* else's); the map is replaced by an empty one, whatever it holds by now. *)
SourceCoinsFetched(t) ==
  /\ BuildsAt(t, "fetch")
  /\ \E deleted \in {{}, Coin \ owned} :
       payment' = [payment EXCEPT ![t] =
                     {r \in @ : r.version # Unknown}
                       \cup {CurrentRef(c) : c \in IdsOf({r \in @ : r.version = Unknown}) \ deleted}]
  /\ sourceCoins' = {}
  /\ GoTo(t, "unpaid")
  /\ UNCHANGED <<schedulerVars, buildQueue, gasCoin, coinPool, pendingTransactions,
                 batchSize, chain>>

SubmitRefill(t) ==
  /\ BuildsAt(t, "unpaid")
  /\ payment' = [payment EXCEPT ![t] =
                   IF @ = NoMap THEN {CurrentRef(c) : c \in owned} ELSE @]
  /\ inFlight' = inFlight \cup {<<t, "refill">>}
  /\ GoTo(t, "refill")
  /\ UNCHANGED <<schedulerVars, buildQueue, gasVars, batchSize, version, owned, minted>>

(* The response of the refill: new coins to the pool, its gas coin to the  *)
(* source coins.  The versions in the effects are still the current ones:  *)
(* no other submission names them.                                         *)
RefillExecuted(t) ==
  LET gas == Min(IdsOf(payment[t])) IN
  /\ BuildsAt(t, "refill")
  /\ <<t, "refill">> \notin inFlight
  /\ coinPool' = coinPool \o SetToSeq({CurrentRef(c) : c \in minted[t]})
  /\ sourceCoins' = WithSource(gas, version[gas])
  /\ GoTo(t, "index")
  /\ UNCHANGED <<schedulerVars, buildQueue, gasCoin, pendingTransactions, refillVars, chain>>

----------------------------------------------------------------------------
(* Execution *)

Submit(t) ==
  /\ pc[t] = "sign"
  /\ inFlight' = inFlight \cup {<<t, "user">>}
  /\ GoTo(t, "submit")
  /\ UNCHANGED <<schedulerVars, buildQueue, gasVars, refillVars, version, owned, minted>>

GiveBackTwice(coin) ==  \* mutant: no else branch
  IF coin.id \in owned
    THEN /\ coinPool' = Append(coinPool, CurrentRef(coin.id))
         /\ sourceCoins' = WithSource(coin.id, version[coin.id])
    ELSE UNCHANGED <<coinPool, sourceCoins>>

GiveBackAsTaken(coin) ==  \* mutant: the version the coin had before
  /\ coinPool' = Append(coinPool, coin)
  /\ UNCHANGED sourceCoins

(* The effects arrived and were applied to the cache.  The coin goes back  *)
(* to the pool, is set aside for the next refill when the transaction used *)
(* it or left too little in it, or is forgotten when somebody else owns it.*)
GiveBack(coin) ==
  \/ /\ coin.id \in owned
     /\ coinPool' = Append(coinPool, CurrentRef(coin.id))
     /\ UNCHANGED sourceCoins
  \/ /\ coin.id \in owned
     /\ sourceCoins' = WithSource(coin.id, version[coin.id])
     /\ UNCHANGED coinPool
  \/ /\ coin.id \notin owned
     /\ UNCHANGED <<coinPool, sourceCoins>>

Finish(t, ready) ==
  /\ pc[t] = "submit"
  /\ <<t, "user">> \notin inFlight
  /\ GiveBack(gasCoin[t])
  /\ Leave(t, ready)
  /\ UNCHANGED <<gasCoin, refillVars, chain>>

(* What the build task awaits rejects, or no coin is available. *)
BuildTaskFails(t) ==
  /\ \E await \in Building : BuildsAt(t, await)
  /\ LeaveBuildQueue
  /\ GoTo(t, "failed")
  /\ UNCHANGED <<schedulerVars, gasVars, refillVars, chain>>

(* The catch block, after the build task or a later await rejected.  A     *)
(* coin that was taken is set aside, its version to be fetched.            *)
Catch(t) ==
  /\ pc[t] \in {"failed", "sign", "submit"}
  /\ sourceCoins' = IF gasCoin[t] = NoCoin THEN sourceCoins
                    ELSE WithSource(gasCoin[t].id, Unknown)
  /\ GoTo(t, "catch")
  /\ UNCHANGED <<schedulerVars, buildQueue, gasCoin, coinPool, pendingTransactions,
                 refillVars, chain>>

Rethrow(t, ready) ==
  /\ pc[t] = "catch"
  /\ Leave(t, ready)
  /\ UNCHANGED <<gasCoin, coinPool, sourceCoins, refillVars, chain>>

----------------------------------------------------------------------------
(* The node (external).  It executes a submission, in any order, while     *)
(* every coin of its payment is at the version given and is the signer's.  *)

Payable(refs) ==
  /\ refs # {}
  /\ \A r \in refs : r.id \in owned /\ r = CurrentRef(r.id)

ChainExecutesUser(t) ==
  LET c == gasCoin[t].id IN
  /\ <<t, "user">> \in inFlight
  /\ Payable({gasCoin[t]})
  /\ version' = [version EXCEPT ![c] = @ + 1]
  /\ owned' \in {owned, owned \ {c}}
  /\ inFlight' = inFlight \ {<<t, "user">>}
  /\ UNCHANGED <<schedulerVars, pc, buildQueue, gasVars, refillVars, minted>>

(* The payment is merged into one coin and `batchSize' coins are split off *)
(* it; an execution that aborts creates none.                              *)
ChainExecutesRefill(t) ==
  LET ids == IdsOf(payment[t])
      gas == Min(ids)
      fresh == {c \in Coin : version[c] = 0} IN
  /\ <<t, "refill">> \in inFlight
  /\ Payable(payment[t])
  /\ \E new \in {{}, {c \in fresh : c < Min(fresh) + batchSize[t]}} :
       /\ minted' = [minted EXCEPT ![t] = new]
       /\ version' = [c \in Coin |-> IF c \in ids \cup new THEN version[c] + 1 ELSE version[c]]
       /\ owned' = (owned \ ids) \cup {gas} \cup new
  /\ inFlight' = inFlight \ {<<t, "refill">>}
  /\ UNCHANGED <<schedulerVars, pc, buildQueue, gasVars, refillVars>>

----------------------------------------------------------------------------
RunsOn(t) ==
  \/ TakeCoin(t)
  \/ StartRefill(t)
  \/ SourceCoinsFetched(t)
  \/ SubmitRefill(t)
  \/ RefillExecuted(t)
  \/ BuildTaskDone(t)
  \/ Submit(t)
  \/ BuildTaskFails(t)
  \/ Catch(t)
  \/ \E ready \in SetToSeqs(Woken(t)) : Finish(t, ready) \/ Rethrow(t, ready)
  \/ SlotFreed(t)

ChainStep(t) == ChainExecutesUser(t) \/ ChainExecutesRefill(t)

Next ==
  \E t \in Tx :
    \/ PrepareFails(t)
    \/ \E ids \in SUBSET Object : ExecuteTransaction(t, ids)
    \/ RunsOn(t)
    \/ ChainStep(t)

Spec == Init /\ [][Next]_vars

(* Every promise a call awaits settles; which way is left open.            *)
Fairness == \A t \in Tx : WF_vars(RunsOn(t))

FairSpec == Spec /\ Fairness

----------------------------------------------------------------------------
(* Type invariant of the gas coins and of the build queue. *)
Refs == [id : Coin, version : Nat]

TypeOK ==
  /\ pc \in [Tx -> Awaits]
  /\ buildQueue \in Seq(Tx)
  /\ gasCoin \in [Tx -> Refs \cup {NoCoin}]
  /\ coinPool \in Seq(Refs)
  /\ sourceCoins = NoMap \/ sourceCoins \subseteq Refs
  /\ pendingTransactions \in Int
  /\ \A t \in Tx : payment[t] = NoMap \/ payment[t] \subseteq Refs
  /\ batchSize \in [Tx -> 0 .. CoinBatchSize]
  /\ version \in [Coin -> Nat]
  /\ owned \subseteq Coin
  /\ inFlight \subseteq Tx \X {"user", "refill"}
  /\ minted \in [Tx -> SUBSET Coin]

(* The calls that have a coin of the pool and have not given it back. *)
Spenders == {t \in Tx : /\ pc[t] \in {"build", "sign", "submit", "failed"}
                       /\ gasCoin[t] # NoCoin}

(* The refill whose payment is out of the source coins. *)
Refilling == {t \in Tx : pc[t] \in {"unpaid", "refill"} /\ payment[t] # NoMap}

PoolIds == {coinPool[i].id : i \in DOMAIN coinPool}

SpentIds == {gasCoin[t].id : t \in Spenders}

SourceIds == IdsOf(sourceCoins \ NoMap)

(* A coin is in one place: in the pool once, or with one call, or among the*)
(* source coins, or in the payment of the refill under way.  Two           *)
(* transactions never hold the same gas coin, which would lock it.         *)
CoinHeldOnce ==
  /\ \A i, j \in DOMAIN coinPool : coinPool[i].id = coinPool[j].id => i = j
  /\ \A t, u \in Spenders : gasCoin[t].id = gasCoin[u].id => t = u
  /\ PoolIds \cap SpentIds = {}
  /\ (PoolIds \cup SpentIds) \cap SourceIds = {}
  /\ \A t \in Refilling : IdsOf(payment[t]) \cap (PoolIds \cup SpentIds) = {}

(* Whatever is in the pool or with a call that has not submitted is a coin *)
(* the signer owns at its current version, although late executions of     *)
(* calls that failed and refills change coins on chain all the time.       *)
GasCoinsCurrent ==
  /\ \A i \in DOMAIN coinPool : Payable({coinPool[i]})
  /\ \A t \in Tx : pc[t] \in {"build", "sign"} => Payable({gasCoin[t]})

(* Calls that ended without a coin: each took one off pendingTransactions  *)
(* that it had never added.                                                *)
FailedEarly == {t \in Tx : phase[t] \in {"released", "done"} /\ gasCoin[t] = NoCoin}

(* The coins in use: waiting in the pool or with a call. *)
CoinsInUse == Len(coinPool) + Cardinality(Spenders)

(* How far the pool can grow: one coin over maxPoolSize, which "determines  *)
(* the maximum number of gas coins that will be created" (parallel.ts:45), *)
(* and one more for every call that failed before it had a coin.           *)
PoolBound == CoinsInUse <= MaxPoolSize + 1 + Cardinality(FailedEarly)

(* "If the gasCoin is below this value, it will be used when refilling the *)
(* gasPool" (parallel.ts:35): no coin that was set aside leaves the source  *)
(* coins but into the payment of a refill.                                 *)
SetAsideCoinsAreUsed ==
  [][\A r \in sourceCoins \ NoMap :
       r.version # Unknown /\ r.id \notin SourceIds' =>
         \E t \in Refilling' : r.id \in IdsOf(payment[t]')]_vars

(* Every call settles, whichever of the steps it goes through fail. *)
EveryCallSettles == \A t \in Tx : Live(t) ~> phase[t] = "done"
=============================================================================
