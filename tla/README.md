# A TLA+ model of the Rtd TypeScript SDK

This directory holds specifications of the parts of the SDK whose correctness
depends on the order in which things happen: TLA+ modules, TLC configurations
that check them on small instances, and TLAPS proofs of the properties that
matter most. `PROJECT.json` is the index: which definition models which lines,
which run checks which property, which theorem is proved.

Contents: [Inventory](#inventory) · [Modules](#modules) ·
[Runs](#runs) · [Proofs](#proofs) · [Disagreements](#disagreements-with-the-documentation) ·
[Not modelled](#not-modelled) · [Plan](#plan)

## Inventory

The SDK is a library for JavaScript. There are no threads: a function runs
without interruption up to its next `await`, so the unit of interleaving is the
synchronous block between two awaits. Failures are rejected promises. What can
go wrong is that state read before an await is used after it, that callbacks
come in an unexpected order, that an answer never comes, or that a remote node
does something after the client has stopped waiting for it.

### Transaction executors (`typescript/src/transactions/executor`)

`ParallelTransactionExecutor` is the most intricate part of the SDK.

| State | What it is | Where |
|---|---|---|
| `#objectIdQueues` | per object id, the callbacks of calls that wait for it | parallel.ts:69 |
| `conflicts` (closure) | the ids one call still waits for | parallel.ts:131 |
| `#executeQueue` | `ParallelQueue`: running tasks and parked ones | queue.ts:27 |
| `#buildQueue` | `SerialQueue`: one build at a time | queue.ts:4 |
| `#coinPool` | coins ready to pay for a transaction | parallel.ts:67 |
| `#sourceCoins` | coins set aside for the next refill; `null` = all owned coins | parallel.ts:66 |
| `#pendingTransactions` | calls that have taken a coin | parallel.ts:74 |
| `#cacheLock` | the promise of the cache update under way | parallel.ts:73 |
| `#gasPrice`, `#lastDigest` | price of the epoch; transaction to wait for | parallel.ts:72, 75 |

Operations: `executeTransaction` (register on objects, wait, run, hand over),
`#execute` (build, sign, submit, give the coin back or set it aside),
`#refillCoinPool` (a transaction of the executor's own), `resetCache`,
`waitForLastTransaction`. It interacts with `CachingTransactionExecutor` (object
versions), the client (remote node), the signer and the chain.

Hard behaviours: a call waits for several objects at once and is woken by
several holders; a task holds a slot and objects while it waits in the serial
build queue; a refill reads `#sourceCoins`, awaits and then replaces it; a
transaction that failed on the client may still execute later; counters are
changed in `finally` blocks reached along different paths.

What makes it correct: calls on a common object run one at a time, in order;
every call settles; slots, queues and objects do not leak; a gas coin is used by
one transaction at a time and at its current version; the pool stays bounded.

`SerialTransactionExecutor` and `CachingTransactionExecutor` keep object
versions and the gas coin of the last transaction in an `ObjectCache`, updated
from transaction effects, and a digest to wait for before the cache is dropped.
What makes them correct: a transaction is built with versions at least as new
as the last effects the executor saw, although full nodes lag behind.

### Transaction builder (`typescript/src/transactions`)

`Transaction` collects inputs and commands, with asynchronous thunks that add
commands later at the place where they were called; `TransactionDataBuilder`
replaces intents by commands, which renumbers every reference after them;
plugins run inside one another. Hard: an index held across a sort or a
replacement is stale, and functions end in any order. Correct: every argument
refers to the same result before and after a replacement, no command uses a later
one, and thunks leave commands in call order.

### JSON-RPC (`typescript/src/jsonRpc`)

`RpcWebsocketClient` keeps request ids, pending requests with timers, one
connection promise, and the set of subscriptions, which it makes again after a
reconnect. Correct: a request settles once, with its own answer; a subscription
that was ended gets no more events; a subscription that was not survives a
reconnect. The resolver (`json-rpc-resolver.ts`) completes a transaction with
price, budget, payment and object versions. The HTTP client is stateless.

### Name resolution and caching (`experimental/mvr.ts`, `experimental/cache.ts`, `utils/src/dataloader.ts`)

`DataLoader` gathers the keys asked for in one turn of the event loop into a
batch and caches promises; a failed batch removes its keys. `ClientCache` caches
values and promises under joined keys. Correct: every load settles with the
value of its own key, batches stay within their size, nothing is answered from
before a `clear`.

### Wallets (`dapp-kit`, `window-wallet-core`, `slush-wallet`, `kiosk`)

The wallet store keeps the connection status, the current wallet and account,
and the last connection for reconnecting (persisted); wallets appear, change and
disappear at any time. Hooks change it at the end of mutations that run
concurrently, an effect reconnects when the page loads, another effect listens to
the current wallet. The Slush wallet keeps a session in `localStorage` and opens one
window channel per request. The channel pairs a request with an answer from a
popup that the user may close; all open channels hear all messages.
A `KioskTransaction` keeps the kiosk, its cap, and a personal cap it has borrowed
with a promise that must be returned; `purchaseAndResolve` awaits the policies and
the rules while other calls go on.
Correct: the store shows what the wallet shares, a request settles exactly once and
with its own answer, a borrowed cap is returned exactly once and a new kiosk shared
once.

### Encodings and keys (`bcs`, `cryptography`, `keypairs`, `multisig`, `zklogin`)

Pure functions. BCS has a growing write buffer and ULEB128; a multisig combines
signatures under a bitmap and checks weights against a threshold.

## Modules

| Module | Models | Extends / uses |
|---|---|---|
| `SerializedExecution` | the promise made to callers: order and bounded parallelism, no queues | |
| `ObjectScheduler` | `objectIdQueues`, `conflicts`, `ParallelQueue` | refines `SerializedExecution` |
| `CacheLock` | `#updateCache` and `#cacheLock` | |
| `ParallelExecutor` | the whole life of a call: slots, build queue, coins, refills, failures, node | extends `ObjectScheduler` |
| `SerialExecutor` | `SerialTransactionExecutor`, `CachingTransactionExecutor`, `ObjectCache`, payment and object resolution, chain and node | |
| `DataLoader` | `DataLoader` of `utils` | |
| `WebsocketClient` | `WebsocketClient`, `RpcSubscription`, the transport's `subscribe`, network and server | |
| `TransactionData` | operators on lists of commands: `replaceCommand`, `insertTransaction`, `replaceCommandWithTransaction`, `remapCommandArguments` | |
| `TransactionBuilder` | `Transaction`: adding, functions and asynchronous functions, preparing, sorting, plugins, coin intents | extends `TransactionData` |
| `WindowChannel` | the dapp's and the wallet's end of the popup channel | |
| `SlushWallet` | the web wallet: session, accounts, requests | extends `WindowChannel` |
| `WalletStore` | the zustand store, the hooks that change it, a web wallet and an extension, page loads | extends `SlushWallet` |
| `KioskTransaction` | the kiosk builder with `purchaseAndResolve` beside it | |
| `ParallelExecutorProofs` | theorems about the scheduler and that it keeps the promise; the executor is the scheduler; the size of the pool; where the coins are and that they are current; the lock | `ParallelExecutor`, `CacheLock` |
| `SerialExecutorProofs`, `DataLoaderProofs`, `WebsocketClientProofs`, `KioskTransactionProofs`, `WalletStoreProofs` | theorems about one module each | the module named |
| `TransactionBuilderInvariant` | the inductive invariant of the builder, definitions only | `TransactionBuilder` |
| `TransactionAddingProofs` | what the operators on commands, inputs and sections do; adding keeps the invariant | `TransactionBuilderInvariant` |
| `TransactionBuilderProofs` | sorting, late commands, plugins and intents keep it; the theorems | `TransactionAddingProofs` |
| `MC*` | the instances TLC checks | |

Operators whose comment begins with `mutant` are wrong variants of the operator
that follows; each property is known to fail when one of them takes its place.

### ObjectScheduler

| Action | Code |
|---|---|
| `RejectPrepare` | `await this.#getUsedObjects(...)` throws; nothing was registered |
| `Register` | parallel.ts:123–150, one synchronous block: join the queue of every held object, open a queue for the others, run if there is no conflict |
| `Release` | the `finally` of `#execute`, parallel.ts:296–303: hand every object to the head of its queue or delete the queue |
| `TaskDone` | the `finally` handlers in queue.ts: the slot goes to the next parked task or is given back |

`arrival` and `arrivals` record the order in which calls registered, which is
the order in which their `#getUsedObjects` finished. It is the order in which
`executeTransaction` was called when preparing takes the same number of steps,
and may differ from it otherwise; that is what the code does. `Release` hands
over the objects in the order of the transaction's inputs, which decides the
order in which several calls wake; the model allows every order.

### ParallelExecutor

`pc[t]` names the await at which a running call is. The build task is `start`
(gas price and lock), `fetch`, `unpaid`, `refill`, `index` (the refill), `build`;
then `sign` and `submit`; `failed` and `catch` on the error path. Every await may
reject (`BuildTaskFails`, `Catch`). When a build task rejects, the serial queue
starts the next build before the `catch` block of the failed call runs, hence the separate
`failed`.

A coin is a number and a reference to it is its id and version. Balances are
abstracted: `GiveBack` returns the coin to the pool or sets it aside, whichever
the balance would decide, and forgets it if somebody else owns it now. The node
is external: `ChainExecutesUser` and `ChainExecutesRefill` execute a submission
at any time after it was sent, also after the client gave up, as long as every
coin it pays with is still at the version it names. A user transaction is
assumed not to name coins of the pool among its own inputs, which would lock
them outside the executor's control.

`#getGasPrice` is an await that may fail. `#updateCache` inside the build task
and the `catch` block is an await of unknown length; `CacheLock` describes what
it really waits for.

### CacheLock

A call of `#updateCache` either waits for the lock it found or goes ahead at
once; it then installs the promise of its own update, without a second look at
the lock. An update that succeeds clears the lock whoever set it; one that fails
leaves it in place as a settled promise.

### SerialExecutor

The task of a transaction is at one of the awaits listed in the module. The
version of an object is the height of the transaction that touched it last, so
"what the node shows" is a prefix of the chain. The cache is as in `ObjectCache`:
owned objects, shared or immutable ones, and the gas coin.

| Action | Code |
|---|---|
| `ExecuteTransaction` | serial.ts:86, the task joins the `SerialQueue` |
| `ReadCache` | `getCustom('gasCoin')` in serial.ts:62–76 and the plugin of ObjectCache.ts:163 |
| `ResolveObjects`, `SetGasPayment` | json-rpc-resolver.ts, `multiGetObjects` and `getCoins` |
| `PrepareFails` | one of these, or signing, rejects: no reset (serial.ts:91–96) |
| `Submit`, `EffectsArrive` | caching.ts:51–103, serial.ts:39–54 |
| `SubmitFails`, `ResetEnds` | serial.ts:97–106, caching.ts:32–38 and 105–110 |
| `WaitForLastTransaction`, `ResetCache`, `UserCallEnds` | the user's calls outside the queue |
| `ChainExecutes`, `OthersExecute`, `NodeIndexes` | external |

The cache is the default `InMemoryCache`, whose writes are done when the call
returns. The user calls `resetCache` between tasks and awaits it;
`waitForLastTransaction` may be called at any time, also while a task runs.
`answered`, `gaveUp` and `clearedAt` are history: which effects were received, up
to which height a wait timed out (or was cut short by an older wait, which sets
`#lastDigest` to `null`), and what the node showed at the last reset. Two
properties are conditional on them because the code is: after a wait that timed
out the executor does read old versions, and an object that becomes immutable
keeps its entry among the owned ones until the next reset.

### DataLoader

A load is a number; the promise it creates is named by that number, so
`follows[c] = c` for a load that created one and the earlier load's number for a
cache hit. `batches` keeps every batch; the last one is `_batch`. A batch is
dispatched some time after it was scheduled and then loads or fails, each as a
whole (`DispatchBatch`, `BatchLoaded`, `BatchFailed`). `released` are the cache
hits that `resolveCacheHits` has let go. The data behind the loader have a
version which may change at any time, and a fetch reads some version between its
dispatch and its answer.

### WebsocketClient

`calls` lists the calls of `makeRequest`: each waits for its connection, is sent
(its id is then the count of requests sent so far, and its timer runs), and is
settled by an answer, its timer or its signal. `pending` is the set of ids that
have an entry in `#pendingRequests`; an entry and the state of its promise are
separate because the code lets them diverge: a timeout or a signal deletes the
entry of the latest request, whoever it belongs to. Timers all run for
`callTimeout`, so they fire in the order of sending.

| Action | Code |
|---|---|
| `Open`, `Close`, `Reconnect` | rpc-websocket-client.ts:144–156, 187–194 |
| `Timeout` | line 114 |
| `Answers` | the server handles a request and the message arrives (158–172, 228–240) |
| `Subscribe`, `Unsubscribe`, `Abort` | http-transport.ts:131–142, rpc-websocket-client.ts:196–226 |

A connection that closes loses the requests the server has not answered and the
subscriptions it served. Subscription ids start again on every connection, so an
id kept too long would be another's. That the server handles a request and its
answer arrives is one step: what happens in between cannot be told from the
server being slow, or from the connection closing before. The transport creates
the client lazily, and only subscriptions use it.

### TransactionBuilder

A command is a record of its name, its kind and its arguments; an argument that
refers to a result has the index the code would have there (`at`) and, as history, the name
of the command meant (`of`). A name is the place in the program: the k-th addition made by
the code at path `p` is `Append(p, k)`, so the order of the program is the
lexicographic order of names and does not depend on when things ran.
`standsFor` records, for a name that has been replaced or is a function, the name
its result is found under now, at once and not by steps: what stood for a name stands for
its successor when the name is replaced (`TakesThePlaceOf`), so that `Meaning` is one look-up. `handles` are the results that the
program outside holds, with the index fixed in each; `thunks` are the
placeholders of asynchronous functions (`#pendingPromises`, `__resolvedIndex`).

| Action | Code |
|---|---|
| `AddCommand`, `AddWithObject` | `add`, `object`, Transaction.ts:383–407, 495–530 |
| `AddRefused` | an argument is out of the section's reach: the command is pushed before the arguments are checked, and stays |
| `AddFunction`, `ReturnValue`, `ReturnPromise`, `Resolve`, `Reject` | `#fork` and `add` of a function: a synchronous one gives its result, an asynchronous one a placeholder after what it added so far. Its promise may give any result the program holds (Transaction.ts:489 has no check) |
| `Prepare`, `PrepareFails` | `prepareForSerialization`, `#waitForPendingTasks`; a rejected function makes every later prepare reject |
| `Sort`, `SortThrows` | `#sortCommandsAndInputs`: sections flattened, placeholders dropped, every index mapped; it throws when an argument leads nowhere |
| `AddLate` | an addition between the sort and the end of the plugins: the command is in the transaction twice |
| `ResolveIntents`, `ResolveFails`, `PluginInserts`, `PluginReplacesIntent`, `PluginReplacesCommand`, `PluginThrows` | the intent resolver and any other serialization plugin, with the operations of `TransactionDataBuilder` in every form: `resultIndex` as a result, as the default number and as another number, and the error for a nested element other than 0 |
| `Finish`, `Reset` | the end of `#runPlugins`, whether reached or thrown to |

Code may refer only to what JavaScript lets it hold: a nested function uses the
results of those around it that exist already. A plain command's handle has
its index fixed when it is made; a prepare that moves commands does not update it, so
`Sort` drops such handles and nothing refers through them later. The placeholder of an
asynchronous function is told its index by the sort only: when intents or plugins then put
commands before it, its handle goes stale in the program's hands (`stale`,
`HandlesLeftBehind`). `PlaceholdersFollow`, which states what the changelog promises, speaks of these handles
too; `ReferencesKeepMeaning` speaks of the handles that are still good, and the model does not
go on to add commands through one that is not. Between sorting and the end of the
plugins only a command without arguments is added (`AddLate`); what an asynchronous
function does if it is called then is not modelled.

Two things the code does not check lead references elsewhere, or forward, and the names they happen
to are kept in `astray`. An asynchronous function may return, from its closure, a result that was
added outside it after it was called (`ReturnsForeign`): `add` would refuse it as an argument
there, but nothing looks at what a promise gives, nor does the sort; the users of the
placeholder then refer to a later command. And `replaceCommand` given a later index as a number
sets a `Result` to it and then moves it as if it had been there before
(TransactionData.ts:315–319; a `NestedResult` is not moved again). Whatever stands for such a name is
astray with it. `ReferencesKeepMeaning` and `NoForwardReference` leave out
arguments that mean a name in `astray`, and only those: that the damage does not spread to
others is part of what the run checks.

`SortThrows` and `PluginThrows` are errors thrown halfway through `mapArguments`: an argument
leads to no command (one that `add` refused, whose exception the program caught, or one
astray), or a nested element other than 0 of a replaced command is in use. The build fails,
and the transaction is `broken`: what it then holds, half renumbered, and what a program does with it
is not modelled. An index of a refused argument may lie outside the transaction,
so that `TypeOK` does not bound it.

`ReferencesKeepMeaning` has one exception, `NestedInMerged`: a nested reference to a
coin intent stays with the `MergeCoins` that comes first when the intent becomes several
commands (CoinWithBalance.ts:162).

### WindowChannel, SlushWallet, WalletStore

A step is one task of the page's event loop with its microtasks and the render that
follows. The effect of a render that reconnects (`AutoConnect`) is a step of its
own, and other tasks wait for it (`Quiet`), as React runs effects before the next event.

A channel has a popup (open, closed), an interval that looks whether it was closed
(`watching`), a listener, and the promise of `send`. `mail` are the message events
that have been posted and not dispatched; `Deliver` shows one to every listener.
A channel of the model is used again once it is `Free`: nothing of the code can
still reach it.

| Action | Code |
|---|---|
| `Connect`, `Continue`, `ExtAccepts`, `ExtFinishes` | useConnectWallet.ts:48–69 at its awaits; `#connect` of Slush |
| `Disconnect`, `ExtDisconnects` | useDisconnectWallet.ts:35–50 |
| `Switch`, `Sign`, `Serialized` | useSwitchAccount.ts, useSignTransaction.ts, Slush's `#sign…` |
| `ConnectBlocked` | dapp-post-message-channel.ts:40–44, then useConnectWallet.ts:67 |
| `AutoConnect` | useAutoConnectWallet.ts:26–59, the query under its key |
| `ExtChanges`, `ExtAppears`, `ExtLeaves`, `SlushChecked` | useWalletPropertiesChanged.ts, useWalletsChanged.ts, `registerSlushWallet` |
| `Deliver`, `Tick`, `Popup` | message events, the interval, and what user and wallet do in the popup |
| `Reload`, `OtherTab` | a page load, which loses all but `saved` and the session; the same dapp in another tab, which shares them |

The extension is external: it answers or refuses whenever it likes, and changes its
accounts. It may be a wallet of several chains: `OtherChains` are its accounts
of none that is an rtd chain. `useConnectWallet` leaves them out before it stores the
accounts (useConnectWallet.ts:58–60); `updateWalletAccounts`, on a `change` event, stores
all of them (walletStore.ts:122), and one of them may become the current account.
`ShownAccounts` says what the store then has, by a ghost variable: `source` tells whether
the accounts are of a connect, of a change, or (`stale`) of a connect that had them
before they changed, during its `getCapabilities`. `orphan` marks a wallet that
became current although it was unregistered while its connect was pending. `stale` and
`orphan` are two races the code has; `ShownAccounts` and `GoneWalletsNotCurrent` name them as
exceptions and say nothing of them. `ConnectBlocked` is a connect whose `window.open`
returned null. `AutoConnectEnabled` is the prop `autoConnect`; the run has it on (with it
off, as it is by default, `AutoConnect` does nothing), and the theorems hold for both.

### KioskTransaction

The transaction is the list of its Move calls, each named by its position, with the
kiosk, cap and promise it uses. The builder's fields are variables. `Use` is any
operation that uses the kiosk and its cap and changes no field (`borrow`, `place`, `list`,
`lock`, …). `purchaseAndResolve` takes one step per await (`BuyStarts`,
`BuyPurchases`, `BuyResumes`; `BuyFails`) while other calls go on. `replaced` and
`sharedAgain` are history: how often the program pointed the builder, which was set up already, at another
kiosk or cap, and that it called `share` for a kiosk that was shared, or set such a kiosk
while a share was pending. The builder keeps one kiosk, one cap and one promise, so
`PersonalCapGivenBack` speaks of programs that set it up once (`replaced = 0`). It looks
at every command that takes a borrowed cap, and finds it between the borrowing and the
return, but in one case it has to name: `overtaken` remembers that `finalize()` came while a
`purchaseAndResolve` was under way, and the lock rule of that purchase then takes the cap
that was returned (kiosk-transaction.ts:378, 390), which nothing prevents although line 453 wants "no
other functions" to be called.
`#pendingShare` says that a kiosk is to be shared and not which one: after
`create()`, a `setCap()` or `setKiosk()` to a shared kiosk makes `finalize()` share that kiosk
again. `KioskSharedOnce` excuses a second `share` of the caller's and this
sequence, and nothing else. `setKiosk` and `setKioskCap` take what the caller owns or what
the transaction made before.

## Runs

| Run | Instance | Shows |
|---|---|---|
| `scheduler` | 4 calls, 2 objects, 2 slots | types, `ConflictOrder`, `QueueInvariant`, `SlotsAccounted`; refinement of `SerializedExecution`; every call settles |
| `cache_lock` | 4 invocations | overlap is owed to waiters; nobody is forgotten |
| `executor` | 3 calls, 1 object, 2 slots, batch 2, 1 coin | a coin is in one place; coins handed out are usable |
| `executor_live` | 3 calls in one order of arrival, 1 object, 2 slots, batch 4, 1 coin | every call settles; `PoolBound`, which this instance reaches |
| `set_aside` | 3 calls, 2 slots, batch 1, 2 coins | expected violation: a coin set aside during `multiGetObjects` is lost |
| `serial_executor` | 3 transactions, 2 coins, 1 object, 2 transactions on chain | nothing is built from versions older than those the executor was told of or saw at a reset; alone, it is not refused |
| `data_loader` | 3 loads, 2 keys, batches of 2, 1 change, 2 edits | a key is fetched once; clears and failures are final; every load settles |
| `websocket` | 2 subscriptions, one with a signal; 3 closes, 1 of an open connection; 1 retry | events reach their owner; no subscription is forgotten; answers are lost one per timeout or signal; requests sent settle |
| `transaction` | 4 commands and functions, 2 prepares, 2 objects, 2 coins | references keep their meaning and none is forward but what went astray; order of the program |
| `transaction_handles` | 4 commands and functions, 1 prepare | expected violation: the handle of a function that returned another's result |
| `wallet` | 2 concurrent requests, 2 accounts (one, at the extension, of another chain) in 3 lists, 5 events | an answer reaches its request, every request ends, the store shows the wallet's accounts |
| `kiosk` | 7 commands, 2 replacements | caps given back once, to the right personal cap, behind what takes them and before that is transferred; kiosks shared once |

Why the bounds are enough to be interesting. Four calls over two objects give a
call with two conflicts held by two different calls, a queue of three, and more
ready calls than slots. Four lock invocations give a holder, two calls that wait
on the same lock, and a late one that finds the lock the first waiter installed.
Three executor calls let one call refill while another finishes or fails and a
third waits behind it; batch 2 makes refills happen again after coins were set
aside; one initial coin makes late executions and refills compete for it.
In `executor_live` two slots let the build queue hold two calls, one of
which waits there with its slot and its object while the third call waits for the
object, for a slot or for neither; the calls arrive in one order (`InTurn`), which loses
nothing, as nothing tells them apart, and keeps the run short (symmetry would not
be sound for liveness). `CoinBatchSize` is 4 there so that the cap of the batch does not
hide the bound on the pool. The set of coin ids is just large enough for every
call to make one full refill, which is all it can do.
Two transactions on chain are the executor's own followed by another's, or
two of its own, with a third transaction to be built from what it then believes;
the node may be behind by none, one or both. The two coins are interchangeable
(symmetry); the object is used or not. Three loads of two keys fill a batch of two and
open the next one, which may be empty but for a cache hit; two subscriptions
share ids and steal each other's entries, one connection is lost and resubscribed to, and
failures in a row reach `maxReconnects`. In `data_loader` two edits are a clear
and a load again, or a prime and a clear.

In `transaction` four names are enough for a function that adds and waits while the code
after it adds, one inside another, and a reference across each border; `MaxSpecial`
is the weight of what is rare: a refused argument, a late addition, a function without result
and a rejection weigh 2; an object, an intent, a nested reference, a plugin's
change or error, a result that was not the function's to return and the second prepare weigh 1, so any two of these meet. In `wallet` two channels are two popups at once,
and five events of the user, the dapp and the wallets' own accord are enough for a
connect during another, a change of accounts during `getCapabilities`, an
unregistration during a connect, and each of them followed by a page load or another tab; answers, timers
and effects are not counted. In `kiosk` seven commands are creating a personal kiosk
with a borrowed cap (four), one use and finalize; pointing the builder at another kiosk costs two
and happens twice: once after `create()`, with the share pending, and once back to
a kiosk shared before.

`CHECK_DEADLOCK FALSE` everywhere: the system stops when every call has settled.

### Fairness

`SchedulerFairness`: a running task reaches its `finally` block and promise
handlers run, because the executor's tasks end when their awaits settle.
`Fairness` of `ParallelExecutor`: weak fairness of the next step of each call,
which is to say that every promise a call awaits settles, one way or the other;
no fairness is assumed for success, for the node executing anything, nor for the
order. `LockFairSpec`: a settled promise runs its continuations and an update ends
(the cache answers and `waitForTransaction` has a timeout). `FairSpec` of
`DataLoader`: a scheduled dispatch runs and what `batchLoadFn` returns settles. Of
`WebsocketClient`: timers fire; nothing is assumed of the network and the server.
Of `WalletStore`: the effects of a render run and intervals fire; nothing is assumed of users
and wallets, so `RequestsSettle` speaks of requests whose popup was closed.

## Proofs

The theorems hold for every value of the constants: any finite set of calls,
any objects, coins, keys, subscriptions, kiosks and popups, any number of slots and any
batch size, and any value of the bounds that keep TLC's instances finite. What is assumed
of the constants is stated in the modules (`SchedulerAssumption`, `ExecutorAssumption`,
`CacheLockAssumption`, `SerialAssumption`, `LoaderAssumption`,
`WebsocketAssumption`, `BuilderAssumption`, `KioskAssumption`, `ChannelAssumption`,
`WalletStoreAssumption`):
where a proof counts, sets are finite, bounds are naturals, and the
model values that stand for `undefined` are none of the values a variable may have instead;
the coins a node lists are distinct objects, none of which the program names itself.

Every proof has the same shape. The inductive invariant is a conjunction of
named parts. Where several actions leave a part alone for the same reason, one
lemma says what such a step may do (`HarmlessKeeps`, `CurrentKept`,
`SetUpKeeps`, `OneChannel`); each action then has a lemma of its own.

### Executors

`ParallelExecutorProofs` has three parts. The first proves `SchedulerSpec => []IInv` where `IInv` is
`SchedulerTypeOK /\ ConflictOrder /\ QueueInvariant /\ SlotsAccounted`.
`ConflictOrder` is not inductive alone: that the head of a queue is the next in
order needs the queues to be sorted by arrival (`QueuesInOrder`), that the woken
call has no other conflict needs `WaitsForConflicts`, that nobody else runs with
the object needs `OneHolder`, and that a parked call starts once needs
`ParkedOnce`. Each action is treated separately, conjunct by conjunct, and the
lemmas about `Append`, `Tail` and injective sequences are stated once.

`KeepsPromise` is the refinement of `SerializedExecution`: every step of the scheduler
is a step of the promise or a stutter, under the mapping that forgets queues and
conflicts (`Status`). A registration takes the next place in line because
`arrivals` counts the calls that registered (`PositionsCounted`). That calls may
start is not argued action by action: one step may wake several, and the state after it
shows that they could, `ConflictOrder'` that no earlier call on a common object is
alive, `SlotsAccounted'` that the slots suffice (`StartsAllowed`).

The second shows first that every step of the executor is a step of the
scheduler or a stutter (`ImplementsScheduler`), so that its theorems carry over
(`ExecutorKeepsOrder`), and with them the promise (`ExecutorKeepsPromise`).

It then proves `PoolBound`. That a pool which fits still fits after a refill
is a matter of timing: the batch is sized when the refill starts and arrives
several awaits later. The inductive invariant `PoolInv` therefore says that one
build task is past its start (`OneBuild`), so nobody takes a coin meanwhile; that
a refill under way fits in what is in use by now (`RefillFits`); that it has made no
more coins than it asked for (`RefillsFollow`); where each call is and whether it has
a coin (`Stages`); and what `#pendingTransactions` counts, which after early
failures is less than the calls that hold a coin (`PendingCounts`).

It also proves `CoinHeldOnce`. A coin moves from the pool to a call and back,
or to the source coins, to the payment of a refill, and into the pool as
several new ones. `HeldInv` adds the places `CoinHeldOnce` does not name: a payment
while it is being fetched, and the coins a refill has minted on chain whose
response has not arrived (`RefillApart`); that every coin in any of these places
exists (`HeldExist`), so that a minted coin is new; and that while `#sourceCoins`
is still `null` nothing was taken (`NothingHeldYet`), so that a refill
that pays with whatever the signer owns takes from nobody.

`GasCoinsCurrent` is proved there too (`CurrentInv`). The chain may execute at any
time what a call submitted and gave up on, and every coin it pays with then has a new version.
So a submission in flight must name no coin that is in the pool, with another call, or
minted and on its way (`InPlay`). It does not, because coins come into play only
when they are minted and then circulate between pool and calls; a coin that is
set aside, or kept by a call that failed, never returns to the pool under its old id
(`LateCall`, `LateRefill`).

The third, about `CacheLock`, proves `OverlapsNeedWaiters` by counting: each step that adds
a running update, or frees the lock while one runs, adds a call that has waited.

`SerialExecutorProofs` proves `NeverBehindAnswers`, `ResetHeals` and
`AloneNeverRefused` from one invariant (`SerialInv`). What a task builds with comes from the
cache or from the node, so both must be at least as new as the answers:
what is cached is the last answer or final (`OwnedCacheFresh`, `FixedCacheFinal`,
`GasCoinFresh`); about what is not cached, the node is up to date, or a
wait for it is due or was given up (`MissesShown`, with `DigestsAnswered` and `WaitsCover`
for `#lastDigest` and the waits under way); and what the running task has read so far
is fit to build with (`BuiltFit`, `Fit`). The chain's part is that an object that became
fixed is not touched again and that a task's transaction is executed after all
that was answered before it was built (`ChainRules`, `SubmittedOnce`).

### Clients

`DataLoaderProofs` proves `FetchOnce`, `ClearForgets` and `FailuresForgotten` from
`LoaderInv`. A load waits for its own promise, for an earlier load of its key that was not
cleared since, or for a prime (`FollowsOwn`); each promise is in one batch
(`BatchesApart`) and pending until the batch settles; what is cached is of the key, not older
than its last clear and did not fail (`CacheFresh`). `FetchOnce` is a count: the loads of a
key with a promise of their own exceed its clears and failures by one only while the key is cached
(`OwnCounted`).

`WebsocketClientProofs` proves `EventsReachTheirOwner`, `NoSubscriptionForgotten` and
`EachTimeoutRobsOne` from `ClientInv`. The server numbers subscriptions anew on every
connection, so an event could reach another's listener through an id kept too long: ids are
dropped with the connection (`IdsOfConnection`), and a request to unsubscribe names an
id of this connection that nobody else has (`UnsubscribesOwn`). A subscription that was made stays
where a reconnect finds it (`SubscriptionsKept`), and while it has no id a request for
one is under way (`Asked`).

### Transaction builder

The theorems say that `ReferencesKeepMeaning`, `NoForwardReference`, `CommandsInCallOrder` and
`TypeOK` hold as long as `astray` is empty: no function returned a result that was not its own
to use, no plugin gave `replaceCommand` a later index as a number. That is narrower than what the run
checks, where after such a step the other references still fit; the invariant
speaks of a transaction in which no reference is forward, because `replaceCommand` renumbers only the
commands after the one it replaces. `BuilderSound` puts it together: nothing astray implies `BuilderInv`, or the
transaction is `Broken`, where nothing changes any more and the properties hold as before the error
(`ThrowsBreaks`, `BrokenStays`). What went astray is never forgotten (`AstrayGrows`), so a step
that ends with nothing astray began so.

The properties follow from `BuilderInv`. Its first nine parts hold at all times: types; that every name in use was given
out by the counter of its path, so that a new one is new (`NamesKnown`); that a name is there twice
only if it was added late (`Twins`); which commands a merge, a split and a placeholder are
(`KindsNamed`); that a name that has been replaced is gone, and what stands for it is not
replaced itself (`ReplacedGone`); that an object is one input (`InputsApart`); that every
argument leads where it should (`ArgsFit`), and every handle too (`HandlesPoint`); and what
a function that has returned stands for (`ThunksStand`).

Two more depend on the phase. While commands are added (`Gathering`), there is a
number of commands that the last prepare left at the head of the root's section (`Base`); every later
command is named once in the section of the code that added it, in the order of
its additions (`Placed`, `InputsPlaced`); it uses only commands with earlier names
(`LessArgs`, from `AvailableLess`); and the functions that run have called one another
(`Running`). From the sort to the end of preparing (`Settled`) there is one section, no placeholder, and the
commands are in order.

The main steps are these.
* Sorting. `Flatten` lists every command once and, because each section is in order and a
  function's section stands before its placeholder, in the order `Post` of
  the names. An argument led to a command with an earlier name, or to the placeholder of a function
  whose result is earlier, so its new index is smaller. `OriginalIndex` walks from
  placeholder to placeholder; it ends because each returned something complete before itself
  (`ReturnFits`), and where it ends is what the name means.
* Functions. A function that resolves takes the place of its placeholder. What was a placeholder's
  handle must still lead to the result after the sort, unless the result was itself a placeholder's: the
  case `PlaceholdersFollow` fails in, and the exception of `HandlesPoint`.
* Plugins and intents. Every change of the list is described alike: which command came from
  which (`Carried`), which are new (`Created`), where an argument leads now (`Follows`); and one lemma
  shows that data rewritten so fit again (`Rewritten`, `DataFits`). Inserting, replacing a command by two,
  replacing it by a transaction, and resolving an intent are instances, the last of which is
  repeated for every intent.

Nothing is assumed about how `Flatten`, `OriginalIndex`, `UpdatedPlaceholders`, `InsertTransaction` and
`ResolveIntents` recur. The induction rules of the libraries take predicates; the proofs use
sets: the inputs for which a claim holds are a set, and a set of naturals that contains 0 and
the successor of each of its members contains all (`NatInduct`, from the well-foundedness of `<`).
That the equations of a recursive function have a solution, so that the function has them, is
shown from this too (`IterateExists`). So what these functions return is proved for lists of any length.

### Kiosk

`KioskTransactionProofs` proves `PersonalCapGivenBack` and `KioskSharedOnce` from
`KioskInv`. What `finalize()` adds depends only on fields of the builder, so the invariant says
what these stand for: a builder that was set up once still has the kiosk it created,
which is shared or pending, the cap and promise it borrowed and the personal cap it borrowed them
from, pending to be transferred if it was made here (`SetUpOnce`); nothing was
given back before (`NotSettled`); every command takes a cap of a command before it
(`UsesFollow`); a purchase that runs on in a finalized builder was under way when it was finalized
(`Overtaken`); a kiosk that is pending was not shared yet, or the caller was told
(`SharedByCaller`). Behind `finalize()` only purchases add commands (`GivenBackStays`).

### Wallets

`WalletStoreProofs` proves `AnswersReachTheirRequest`, `GoneWalletsNotCurrent` and
`ShownAccounts` from `WalletInv`. Every listener sees every message, so that an answer
reaches its own request rests on the comparison of ids: a message carries the answer of the popup
its id names (`Carries`), and a channel that listens has sent its request and is not settled
(`Sound`). A channel is used again only when no message names it, or an old answer would
meet a new request. A connect ends several awaits after it began. What it
writes is still right because a wallet that is being connected is registered, or
was seen to leave, and the accounts an extension gave are those it has, or were seen
to change (`ConnectsFollowed`); and a page that is connected is connected to a
wallet (`ConnectedToWallet`), whose changes the hooks follow.

### What the proofs found

* `KioskSharedOnce` did not follow from any invariant: with two replacements the
  builder shares a kiosk twice although the caller never does (`create()`,
  then `setKiosk()` to a shared kiosk, `finalize()`). The instance allowed one replacement and
  could not show it. It now allows two, and the property names the case.
* `Settled` of `WebsocketClient` chose between overlapping arms of a CASE, whose value
  the semantics leave open; it now distinguishes them.
* In `TransactionBuilder` the index of a refused argument is not in bounds: it may be far out of
  the section's reach, and plugins renumber it further. `TypeOK` said it was, which no
  instance was large enough to refute. It now speaks of the other commands, and where the code throws
  for such an argument, `Sort` gave it index 0; that is `SortThrows` now.
* `BuilderAssumption` did not say that the coins are a list of distinct
  objects, which the merge of an intent's coins takes for granted.
* `SerialAssumption` did not say that `None` is neither a reference to a coin nor a
  call of the user's, which the model takes for granted.

### Model-checked only

Liveness (`EveryTaskSettles`, `EveryCallSettles`, `EveryCallGetsThrough`,
`EveryLoadSettles`, `SentCallsSettle`, `RequestsSettle`), which depends on fairness and on `ENABLED`.
Every safety invariant and action property that a run expects to hold is a theorem, those of the
builder as long as nothing is astray; what holds of the other references afterwards is
model-checked only.

## Disagreements with the documentation

* `set_aside`: parallel.ts:35 says that a coin below the minimum balance "will be
  used when refilling the gasPool"; a coin that is set aside while a refill
  awaits `multiGetObjects` is dropped at line 415.
* `transaction_handles`: async-thunks.test.ts:1033 uses the results of asynchronous
  functions after a build, and CHANGELOG.md:237 says "Update thunk results after build".
  The loop at Transaction.ts:891 updates the placeholders one after another and looks an
  index up through placeholders that it has already updated; the handle of a function that returned
  an earlier function's result then leads to another command. (The run has neither intents nor plugins. With them, any
  placeholder's handle leads elsewhere once commands were put before its result, as nothing after the
  sort tells it.)

More facts that a reader should know, found while modelling and part of the models.

Executors. `maxPoolSize` "determines the maximum number of gas coins that will be
created" (parallel.ts:45), but line 377 adds one to the room that is left, and
`#pendingTransactions--` (line 304) runs also for calls that failed before `++`
(line 207); `PoolBound` is the bound that holds. "Only one update happens at
a time" (parallel.ts:308) is not so when two calls wait on the same lock:
`OverlapsNeedWaiters` is what holds. When a refill fails, the coins of its payment are
in no structure any more. `waitForLastTransaction` returns when its update has
started, not ended.

Websocket. A call made while a connection attempt fails has no timer and never ends,
although the next attempt succeeds and its subscription is made on it. An ended
subscription is made again by a reconnect, and its events are delivered again; one whose
signal was aborted, or whose first request timed out, before it was made is rejected
but stays, and delivers events after a reconnect.

Transaction builder. Until the plugins have finished, a command added after the sort is in
the transaction twice (`#commandSection` and `#data.commands` are one array,
Transaction.ts:838). A command whose arguments are refused stays. A
function that rejected makes every later build reject. The check that a result "is not
available to use in the current transaction" (Transaction.ts:508) is not made of what an
asynchronous function returns, so that a transaction with a forward reference can be built; and
functions that return each other's results end the sort with a stack overflow when one is used. `replaceCommand` moves a
`Result` twice when it is given a later index as a number (TransactionData.ts:315–319); within the
SDK only the default index and results are given.

Wallets. The key of the reconnecting query holds the number of wallets, not which they
are: when the extension registers, the web wallet leaves in the same task, the key
stays the same, and a remembered extension is not connected (useAutoConnectWallet.ts:34).
Disconnecting a slow wallet drops whichever wallet is current when it ends
(useDisconnectWallet.ts:49). Signing without a session leaves the popup open and its
timer running. A connect that was pending when its wallet was unregistered makes it
current; accounts that change during `getCapabilities` are missed. The accounts of
other chains are kept out of the store by `useConnectWallet` only: after a `change` event
the store has them, and may take one as the current account (walletStore.ts:122–131).

Kiosk. `purchaseAndResolve` and `purchase` add commands after `finalize`, although the
comment at kiosk-transaction.ts:453 marks the transaction finalized "so no other
functions can be called"; the lock rule then uses a cap that has been returned, and `place`
throws. `finalize` shares the kiosk and then throws for an untransferred cap; the
`shareAndTransferCap` its message asks for shares it again. A second `setCap` with
a personal cap loses the promise of the first. `#pendingShare` belongs to no kiosk: after
`create()` and `setKiosk()` it is the other kiosk that `finalize()` shares.

## Not modelled

Generated code (`grpc/proto`, `graphql/generated`), build scripts, React views,
cryptography, and wire formats have no ordering or state worth a model.
Inside the executor: balances (`storageCost` is counted twice at line 241, so
coins are set aside earlier than they need be), the epoch clock of
`#getGasPrice`, and the lag of full nodes, which `SerialExecutor` models.
Also not modelled: the client cache and the move registry client, whose batching is
`DataLoader`'s; BCS and multisig, which are algorithms without a life cycle.
Inside the builder: pure inputs and amounts, `applyResolvedData` and the build
plugins, two prepares at once, one function passed to `add` twice, functions that throw, a
function that returns a nested result, what is left of a transaction whose sort or plugin threw
halfway, and commands added through handles that have gone stale. Inside the wallets: `close()` of the dapp's end of
the channel, the wallet's check of its session token, the metadata's name
and icon, and the preferred order of wallets. Inside the kiosk: the callback of `borrowTx`, and
`TransferPolicyTransaction`.
Inside the serial executor: slow caches of the user's own, `applyEffects` called by the
user, and transactions given as bytes.

## Plan

1. `GasPrice` (the epoch window of `#getGasPrice`) and `ClientCache` (`clear` during a
   load, cache.ts:34).
2. ULEB128, `BcsWriter` and `Multisig` as algorithms checked over bounded inputs.

Modules to be proved about use functions and folds, never RECURSIVE operators.
