------------------------ MODULE SerialExecutorProofs ------------------------
(***************************************************************************)
(* SerialExecutor: what is built is never older than the answers, nor than *)
(* what the node showed at the last reset, for any transactions, objects   *)
(* and coins and a chain of any length.                                    *)
(***************************************************************************)
EXTENDS SerialExecutor, SequenceTheorems, FiniteSetTheorems, WellFoundedInduction, TLAPS

(* The refs of gas coins. *)
CoinRefs == [id : Coin, version : Nat]

SerialTypes ==
  /\ TypeOK
  /\ payment \subseteq CoinRefs
  /\ gasCoin \in CoinRefs \cup {None}
  /\ \A tx \in inFlight : tx.payment \subseteq CoinRefs

(* The queue: every task in it is there once, and only its head is past    *)
(* the first await.                                                        *)
Busy == {"resolve", "pay", "sign", "submit", "reset"}

Queued(t) == \E i \in DOMAIN queue : queue[i] = t

OneAtATime ==
  /\ \A i, j \in DOMAIN queue : queue[i] = queue[j] => i = j
  /\ \A t \in Tx : Queued(t) <=> pc[t] \notin {"none", "done"}
  /\ \A t \in Tx : pc[t] \in Busy => queue[1] = t

(* The chain: a transaction pays with a coin it keeps or gives away, and   *)
(* nobody touches an object that became fixed.                             *)
Moved(h, o) == ledger[h].changed[o] \in {"mine", "theirs"}

ChainRules ==
  /\ \A h \in DOMAIN ledger :
       ledger[h].by # None => ledger[h].gas \in Coin /\ Moved(h, ledger[h].gas)
  /\ \A i, j \in DOMAIN ledger, o \in Object :
       i < j /\ ledger[i].changed[o] = "fixed" => ledger[j].changed[o] = "untouched"

(* A task submits once, what it built; and its transaction is executed     *)
(* after all that was answered before, and after the last reset.           *)
SubmittedOnce ==
  /\ \A tx \in inFlight :
       /\ pc[tx.by] \in {"submit", "reset", "done"}
       /\ pc[tx.by] = "submit" =>
            tx.uses = uses[tx.by] /\ tx.inputs = inputs /\ tx.payment = payment
  /\ \A h \in DOMAIN ledger, t \in Tx :
       ledger[h].by = t =>
         /\ pc[t] \in {"submit", "reset", "done"}
         /\ pc[t] = "submit" => h > clearedAt /\ \A a \in answered : a < h

(* The caches: what they hold was answered, or is final. *)
OwnedCacheFresh ==
  \A o \in Object : ownedCache[o] # None =>
    /\ ownedCache[o] \in Touches(o, Height)
    /\ ownedCache[o] > clearedAt
    /\ \A a \in answered : Moved(a, o) => a <= ownedCache[o]

FixedCacheFinal ==
  \A o \in Object : fixedCache[o] # None =>
    fixedCache[o] \in DOMAIN ledger /\ ledger[fixedCache[o]].changed[o] = "fixed"

GasCoinFresh ==
  /\ gasCoin = None => \A o \in Object : ownedCache[o] = None
  /\ gasCoin # None =>
       /\ gasCoin.version \in Touches(gasCoin.id, Height)
       /\ gasCoin.version > clearedAt
       /\ \A a \in answered : a <= gasCoin.version

(* An answer the node is behind on is one a wait is still due for, or was  *)
(* given up for.                                                           *)
Shown(a) == a <= indexed \/ a <= gaveUp

DigestsAnswered ==
  /\ {lastDigest, gaveUp, waitFor} \subseteq answered \cup {0}
  /\ userCall # None => userCall.digest \in answered
  /\ \A a \in answered : IF lastDigest = 0 THEN Shown(a) ELSE a <= lastDigest

WaitsCover ==
  /\ \A t \in Tx : pc[t] = "reset" => \A a \in answered : a <= waitFor \/ Shown(a)
  /\ Resetting => queue = <<>> /\ \A a \in answered : a <= userCall.digest \/ Shown(a)

(* The last answer about an object says it is somebody's. *)
SaysLast(a, o) ==
  /\ a \in answered /\ Moved(a, o)
  /\ \A b \in answered : b > a => ledger[b].changed[o] = "untouched"

(* What is not in the cache, the node knows. *)
MissesShown ==
  (\A t \in Tx : pc[t] # "reset") /\ ~Resetting =>
    \A o \in Object, a \in answered :
      ownedCache[o] = None /\ SaysLast(a, o) => Shown(a)

(* A version fit to build with. *)
Fit(o, v) ==
  /\ v \in Touches(o, Height) \cup {0}
  /\ \A a \in answered : SaysLast(a, o) => a <= gaveUp \/ a <= v
  /\ \A i \in Touches(o, clearedAt) : i <= v

BuiltFit ==
  \A t \in Tx :
    /\ pc[t] \in {"resolve", "pay"} => payment = IF gasCoin = None THEN {} ELSE {gasCoin}
    /\ pc[t] = "resolve" => inputs = [o \in Object |-> IF o \in uses[t] THEN Cached(o) ELSE None]
    /\ pc[t] = "pay" => \A o \in uses[t] : inputs[o] \in Nat /\ Fit(o, inputs[o])
    /\ pc[t] \in {"sign", "submit"} =>
         /\ \A o \in uses[t] : inputs[o] \in Nat /\ Fit(o, inputs[o])
         /\ \A r \in payment : Fit(r.id, r.version)

SerialInv ==
  /\ SerialTypes /\ OneAtATime /\ ChainRules /\ SubmittedOnce
  /\ OwnedCacheFresh /\ FixedCacheFinal /\ GasCoinFresh
  /\ DigestsAnswered /\ WaitsCover /\ MissesShown /\ BuiltFit

----------------------------------------------------------------------------
(* Maxima, versions and sequences.                                         *)

(* Max of a bounded set of naturals is its greatest member. *)
LEMMA MaxOfBounded ==
  ASSUME NEW n \in Nat, NEW S \in SUBSET (0 .. n), S # {}
  PROVE  Max(S) \in S /\ \A y \in S : y <= Max(S)
<1> DEFINE T == {x + 1 .. n : x \in S}
           R == StrictSubsetOrdering(Nat)
<1>1. T \subseteq FiniteSubsetsOf(Nat) /\ T # {}
  <2>1. \A x \in S : x + 1 .. n \subseteq Nat /\ IsFiniteSet(x + 1 .. n)
    BY FS_Interval
  <2> QED
    BY <2>1 DEF FiniteSubsetsOf
<1>2. IsWellFoundedOn(R, FiniteSubsetsOf(Nat))
  BY FS_StrictSubsetOrderingWellFounded
<1>3. \E I \in T : \A J \in T : <<J, I>> \notin R
  BY <1>1, <1>2, WFMin
<1>4. PICK x \in S : \A y \in S : <<y + 1 .. n, x + 1 .. n>> \notin R
  BY <1>3
<1>5. ASSUME NEW y \in S, x < y  PROVE FALSE
  <2>1. y + 1 .. n \subseteq x + 1 .. n /\ y \in x + 1 .. n /\ y \notin y + 1 .. n
    BY <1>5
  <2>2. y + 1 .. n \in SUBSET Nat /\ x + 1 .. n \in SUBSET Nat
    BY <1>1
  <2> QED
    BY <1>4, <2>1, <2>2 DEF StrictSubsetOrdering
<1>6. \A y \in S : x >= y
  BY <1>5
<1>7. Max(S) \in S /\ \A y \in S : Max(S) >= y
  BY <1>6 DEF Max
<1> QED
  BY <1>7

(* The greater of two heights. *)
LEMMA MaxOfTwo ==
  ASSUME NEW a \in Nat, NEW b \in Nat
  PROVE  Max({a, b}) \in {a, b} /\ a <= Max({a, b}) /\ b <= Max({a, b})
<1>1. CASE a <= b
  <2>1. {a, b} \in SUBSET (0 .. b)
    BY <1>1
  <2> QED
    BY <2>1, MaxOfBounded
<1>2. CASE b <= a
  <2>1. {a, b} \in SUBSET (0 .. a)
    BY <1>2
  <2> QED
    BY <2>1, MaxOfBounded
<1> QED
  BY <1>1, <1>2

(* The version at a height is the last time the object was touched. *)
LEMMA VersionIsLast ==
  ASSUME NEW o, NEW h \in Nat
  PROVE  /\ VersionAt(o, h) \in Touches(o, h) \cup {0}
         /\ VersionAt(o, h) \in 0 .. h
         /\ \A i \in Touches(o, h) : i <= VersionAt(o, h)
<1>1. Touches(o, h) \cup {0} \in SUBSET (0 .. h)
  BY DEF Touches
<1> QED
  BY <1>1, MaxOfBounded DEF VersionAt

(* Types the other lemmas need. *)
LEMMA Bounds ==
  ASSUME TypeOK
  PROVE  /\ Height \in Nat /\ DOMAIN ledger = 1 .. Height
         /\ \A h \in 1 .. Height : ledger[h] \in Executions
         /\ {waitFor, lastDigest, indexed, gaveUp, clearedAt} \subseteq 0 .. Height
         /\ answered \subseteq 1 .. Height
         /\ clearedAt <= indexed
         /\ Len(queue) \in Nat /\ DOMAIN queue = 1 .. Len(queue)
<1>1. Height \in Nat /\ DOMAIN ledger = 1 .. Height
  BY LenProperties DEF TypeOK, Height
<1>2. Len(queue) \in Nat /\ DOMAIN queue = 1 .. Len(queue)
  BY LenProperties DEF TypeOK
<1>3. \A h \in 1 .. Height : ledger[h] \in Executions
  BY <1>1, ElementOfSeq DEF TypeOK, Height
<1> QED
  BY <1>1, <1>2, <1>3 DEF TypeOK

(* A task that is in the queue finds it with a head, and nobody else is    *)
(* past the first await while it is that head.                             *)
LEMMA HeadOfQueue ==
  ASSUME SerialTypes, OneAtATime, NEW t \in Tx, pc[t] \notin {"none", "done"}
  PROVE  /\ queue # <<>> /\ 1 \in DOMAIN queue /\ Head(queue) = queue[1]
         /\ Head(queue) = t => \A u \in Tx : u # t => pc[u] \notin Busy
<1>1. Len(queue) \in Nat /\ DOMAIN queue = 1 .. Len(queue) /\ queue \in Seq(Tx)
  BY Bounds DEF SerialTypes, TypeOK
<1>2. PICK i \in DOMAIN queue : queue[i] = t
  BY DEF OneAtATime, Queued
<1>3. 1 \in DOMAIN queue
  BY <1>1, <1>2
<1>4. queue # <<>> /\ Head(queue) = queue[1]
  BY <1>1, <1>3, EmptySeq
<1> QED
  BY <1>3, <1>4 DEF OneAtATime

----------------------------------------------------------------------------
(* The initial state. *)
LEMMA InitSerial == Init => SerialInv
<1> SUFFICES ASSUME Init PROVE SerialInv
  OBVIOUS
<1> USE DEF Init
<1>1. TypeOK
  BY SerialAssumption, EmptySeq DEF TypeOK, Awaits, Height
<1>2. SerialTypes
  BY <1>1 DEF SerialTypes
<1>3. OneAtATime
  BY DEF OneAtATime, Queued, Busy
<1>4. ChainRules /\ SubmittedOnce
  BY DEF ChainRules, SubmittedOnce
<1>5. OwnedCacheFresh /\ FixedCacheFinal /\ GasCoinFresh
  BY DEF OwnedCacheFresh, FixedCacheFinal, GasCoinFresh
<1>6. DigestsAnswered /\ WaitsCover /\ MissesShown /\ BuiltFit
  BY DEF DigestsAnswered, WaitsCover, MissesShown, BuiltFit, Resetting
<1> QED
  BY <1>2, <1>3, <1>4, <1>5, <1>6 DEF SerialInv

----------------------------------------------------------------------------
(* The queue, and what a step keeps. *)

(* The task at the head leaves: the others stay queued once, and nobody is *)
(* past the first await.                                                   *)
LEMMA LeaveOne ==
  ASSUME SerialTypes, OneAtATime, NEW t \in Tx, pc[t] \notin {"none", "done"},
         Head(queue) = t, Leave(t)
  PROVE  /\ OneAtATime'
         /\ queue' \in Seq(Tx) /\ pc' \in [Tx -> Awaits] /\ uses' \in [Tx -> SUBSET Object]
         /\ inputs' \in [Object -> Nat \cup {None}] /\ payment' = {} /\ waitFor' = 0
         /\ pc'[t] = "done" /\ \A u \in Tx : u # t => pc'[u] = pc[u] /\ uses'[u] = uses[u]
         /\ \A u \in Tx : pc'[u] \notin Busy /\ ~Built(u)'
<1> DEFINE n == Len(queue)
<1>1. /\ queue \in Seq(Tx) /\ n \in Nat /\ DOMAIN queue = 1 .. n
      /\ pc \in [Tx -> Awaits] /\ uses \in [Tx -> SUBSET Object]
  BY Bounds DEF SerialTypes, TypeOK
<1>2. /\ queue # <<>> /\ 1 \in DOMAIN queue /\ Head(queue) = queue[1]
      /\ \A u \in Tx : u # t => pc[u] \notin Busy
  BY HeadOfQueue
<1>3. /\ queue' = Tail(queue) /\ pc' = [pc EXCEPT ![t] = "done"]
      /\ uses' = [uses EXCEPT ![t] = {}] /\ inputs' = [o \in Object |-> None]
      /\ payment' = {} /\ waitFor' = 0
  BY DEF Leave
<1>4. /\ Tail(queue) \in Seq(Tx) /\ DOMAIN Tail(queue) = 1 .. n - 1
      /\ \A i \in 1 .. n - 1 : Tail(queue)[i] = queue[i + 1]
  BY <1>1, <1>2, HeadTailProperties, LenProperties
<1> HIDE DEF n
<1>5. \A i \in 1 .. n - 1 : i + 1 \in DOMAIN queue
  BY <1>1
<1>6. /\ pc'[t] = "done" /\ \A u \in Tx : u # t => pc'[u] = pc[u] /\ uses'[u] = uses[u]
      /\ pc' \in [Tx -> Awaits]
  BY <1>1, <1>3 DEF Awaits
<1>7. \A u \in Tx : pc'[u] \notin Busy
  BY <1>2, <1>6 DEF Busy
<1>8. ASSUME NEW u \in Tx  PROVE Queued(u)' <=> Queued(u) /\ u # t
  <2>1. ASSUME NEW i \in 1 .. n - 1, queue'[i] = u  PROVE Queued(u) /\ u # t
    <3>1. queue[i + 1] = u /\ i + 1 \in DOMAIN queue /\ i + 1 # 1
      BY <2>1, <1>1, <1>3, <1>4, <1>5
    <3> QED
      BY <3>1, <1>2 DEF OneAtATime, Queued
  <2>2. ASSUME NEW i \in DOMAIN queue, queue[i] = u, u # t  PROVE Queued(u)'
    <3>1. i - 1 \in 1 .. n - 1 /\ (i - 1) + 1 = i
      BY <2>2, <1>1, <1>2
    <3>2. queue'[i - 1] = u
      BY <2>2, <3>1, <1>3, <1>4
    <3> QED
      BY <3>1, <3>2, <1>3, <1>4 DEF Queued
  <2> QED
    BY <2>1, <2>2, <1>3, <1>4 DEF Queued
<1>9. OneAtATime'
  <2>1. ASSUME NEW i \in DOMAIN queue', NEW j \in DOMAIN queue', queue'[i] = queue'[j]
        PROVE  i = j
    <3>1. i \in 1 .. n - 1 /\ j \in 1 .. n - 1 /\ queue[i + 1] = queue[j + 1]
      BY <2>1, <1>3, <1>4
    <3>2. i + 1 = j + 1
      BY <3>1, <1>5 DEF OneAtATime
    <3> QED
      BY <3>1, <3>2, <1>1
  <2>2. \A u \in Tx : Queued(u)' <=> pc'[u] \notin {"none", "done"}
    BY <1>6, <1>8 DEF OneAtATime
  <2> QED
    BY <2>1, <2>2, <1>7 DEF OneAtATime
<1>10. \A u \in Tx : ~Built(u)'
  BY <1>7 DEF Built, Busy
<1> QED
  BY <1>1, <1>3, <1>4, <1>6, <1>7, <1>9, <1>10

(* The task at the head goes on to another await. *)
LEMMA GoToOne ==
  ASSUME SerialTypes, OneAtATime, NEW t \in Tx, pc[t] \notin {"none", "done"},
         Head(queue) = t, NEW await \in Busy, GoTo(t, await)
  PROVE  /\ OneAtATime'
         /\ queue' \in Seq(Tx) /\ pc' \in [Tx -> Awaits] /\ uses' \in [Tx -> SUBSET Object]
         /\ queue' # <<>> /\ uses' = uses /\ pc'[t] = await
         /\ \A u \in Tx : u # t => pc'[u] = pc[u] /\ pc[u] \notin Busy
<1>1. queue \in Seq(Tx) /\ pc \in [Tx -> Awaits] /\ uses \in [Tx -> SUBSET Object]
  BY DEF SerialTypes, TypeOK
<1>2. /\ queue # <<>> /\ 1 \in DOMAIN queue /\ Head(queue) = queue[1]
      /\ \A u \in Tx : u # t => pc[u] \notin Busy
  BY HeadOfQueue
<1>3. pc' = [pc EXCEPT ![t] = await] /\ queue' = queue /\ uses' = uses
  BY DEF GoTo
<1>4. OneAtATime'
  BY <1>1, <1>2, <1>3 DEF OneAtATime, Queued, Busy
<1> QED
  BY <1>1, <1>2, <1>3, <1>4 DEF Busy, Awaits

(* Nothing happens to the chain, the caches and the answers. *)
LEMMA CachesKept ==
  ASSUME ChainRules, OwnedCacheFresh, FixedCacheFinal, GasCoinFresh,
         UNCHANGED <<ledger, cache, answered, clearedAt>>
  PROVE  ChainRules' /\ OwnedCacheFresh' /\ FixedCacheFinal' /\ GasCoinFresh'
<1> USE DEF cache
<1>1. ChainRules'
  BY DEF ChainRules, Moved
<1>2. OwnedCacheFresh'
  BY DEF OwnedCacheFresh, Touches, Moved, Height
<1>3. FixedCacheFinal'
  BY DEF FixedCacheFinal
<1>4. GasCoinFresh'
  BY DEF GasCoinFresh, Touches, Height
<1> QED
  BY <1>1, <1>2, <1>3, <1>4

(* BuiltFit after a step, spelled out. *)
FitNext(o, v) ==
  /\ v \in {i \in 1 .. Len(ledger') : ledger'[i].changed[o] # "untouched"} \cup {0}
  /\ \A a \in answered' :
       /\ ledger'[a].changed[o] \in {"mine", "theirs"}
       /\ \A b \in answered' : b > a => ledger'[b].changed[o] = "untouched"
       => a <= gaveUp' \/ a <= v
  /\ \A i \in 1 .. clearedAt' : ledger'[i].changed[o] # "untouched" => i <= v

(* At most one task builds, so its versions are all there is to show.      *)
LEMMA BuiltFitAfter ==
  ASSUME NEW t \in Tx,
         \A u \in Tx : u # t => pc'[u] \notin {"resolve", "pay", "sign", "submit"},
         pc'[t] \in {"resolve", "pay"} => payment' = IF gasCoin' = None THEN {} ELSE {gasCoin'},
         pc'[t] = "resolve" =>
           inputs' = [o \in Object |-> IF o \in uses'[t]
                        THEN IF ownedCache'[o] # None THEN ownedCache'[o] ELSE fixedCache'[o]
                        ELSE None],
         pc'[t] \in {"pay", "sign", "submit"} =>
           \A o \in uses'[t] : inputs'[o] \in Nat /\ FitNext(o, inputs'[o]),
         pc'[t] \in {"sign", "submit"} => \A r \in payment' : FitNext(r.id, r.version)
  PROVE  BuiltFit'
BY DEF BuiltFit, Cached, Fit, FitNext, SaysLast, Moved, Touches, Height

(* Versions stay fit while the answers and the last reset stay the same,   *)
(* the chain only grows, and waits are only given up.                      *)
LEMMA FitKept ==
  ASSUME TypeOK, UNCHANGED <<answered, clearedAt>>,
         gaveUp' \in Nat, gaveUp <= gaveUp',
         Len(ledger') \in Nat, Height <= Len(ledger'), \A i \in 1 .. Height : ledger'[i] = ledger[i],
         NEW o, NEW v \in Nat, Fit(o, v)
  PROVE  FitNext(o, v)
<1>1. /\ Height \in Nat /\ {gaveUp, clearedAt} \subseteq 0 .. Height /\ answered \subseteq 1 .. Height
  BY Bounds
<1>2. v \in {i \in 1 .. Len(ledger') : ledger'[i].changed[o] # "untouched"} \cup {0}
  BY <1>1 DEF Fit, Touches
<1>3. \A a \in answered' : ledger'[a] = ledger[a] /\ a \in answered /\ a \in Nat
  BY <1>1
<1>4. \A a \in answered' :
       /\ ledger'[a].changed[o] \in {"mine", "theirs"}
       /\ \A b \in answered' : b > a => ledger'[b].changed[o] = "untouched"
       => a <= gaveUp' \/ a <= v
  <2> SUFFICES ASSUME NEW a \in answered', ledger'[a].changed[o] \in {"mine", "theirs"},
                      \A b \in answered' : b > a => ledger'[b].changed[o] = "untouched"
               PROVE  a <= gaveUp' \/ a <= v
    OBVIOUS
  <2>1. SaysLast(a, o)
    BY <1>3 DEF SaysLast, Moved
  <2>2. a <= gaveUp \/ a <= v
    BY <2>1, <1>3 DEF Fit
  <2> QED
    BY <2>2, <1>1, <1>3
<1>5. \A i \in 1 .. clearedAt' : ledger'[i].changed[o] # "untouched" => i <= v
  BY <1>1 DEF Fit, Touches
<1> QED
  BY <1>2, <1>4, <1>5 DEF FitNext

(* And while nothing they depend on changes at all. *)
LEMMA FitSame ==
  ASSUME TypeOK, UNCHANGED <<ledger, answered, clearedAt, gaveUp>>, NEW o, NEW v \in Nat, Fit(o, v)
  PROVE  FitNext(o, v)
<1>1. /\ Height \in Nat /\ gaveUp \in Nat /\ Len(ledger') = Height
      /\ \A i \in 1 .. Height : ledger'[i] = ledger[i]
  BY Bounds DEF Height
<1>2. gaveUp' \in Nat /\ gaveUp <= gaveUp' /\ Height <= Len(ledger') /\ Len(ledger') \in Nat
  BY <1>1
<1> QED
  BY <1>1, <1>2, FitKept

(* Nothing is answered, cleared or given up.                               *)
LEMMA QuietSerial ==
  ASSUME SerialInv, SerialTypes', OneAtATime', SubmittedOnce', BuiltFit',
         UNCHANGED <<ledger, cache, answered, clearedAt, lastDigest, gaveUp>>,
         indexed <= indexed', waitFor' \in {waitFor, 0},
         \A t \in Tx : /\ pc'[t] = "reset" <=> pc[t] = "reset"
                       /\ pc'[t] = "reset" => waitFor' = waitFor,
         \/ userCall' = userCall
         \/ lastDigest # 0 /\ userCall' = [digest |-> lastDigest, reset |-> FALSE],
         Resetting' => Resetting /\ queue' = queue /\ userCall' = userCall,
         Resetting => Resetting'
  PROVE  SerialInv'
<1>1. ChainRules' /\ OwnedCacheFresh' /\ FixedCacheFinal' /\ GasCoinFresh'
  BY CachesKept DEF SerialInv
<1>2. /\ indexed \in Nat /\ indexed' \in Nat /\ answered \subseteq Nat /\ gaveUp \in Nat
      /\ DigestsAnswered /\ WaitsCover /\ MissesShown
  BY Bounds DEF SerialInv, SerialTypes, TypeOK
<1>3. \A a \in answered : Shown(a) => a <= indexed' \/ a <= gaveUp'
  <2>1. indexed <= indexed' /\ gaveUp' = gaveUp
    OBVIOUS
  <2> QED
    BY <1>2, <2>1 DEF Shown
<1>4. DigestsAnswered'
  <2>1. {lastDigest', gaveUp', waitFor'} \subseteq answered' \cup {0}
    BY <1>2 DEF DigestsAnswered
  <2>2. userCall' # None => userCall'.digest \in answered'
    BY <1>2 DEF DigestsAnswered
  <2>3. \A a \in answered' : IF lastDigest' = 0 THEN a <= indexed' \/ a <= gaveUp' ELSE a <= lastDigest'
    BY <1>2, <1>3 DEF DigestsAnswered
  <2> QED
    BY <2>1, <2>2, <2>3 DEF DigestsAnswered, Shown
<1>5. WaitsCover'
  <2>1. \A t \in Tx : pc'[t] = "reset" => \A a \in answered' : a <= waitFor' \/ a <= indexed' \/ a <= gaveUp'
    BY <1>2, <1>3 DEF WaitsCover
  <2>2. Resetting' => queue' = <<>> /\ \A a \in answered' : a <= userCall'.digest \/ a <= indexed' \/ a <= gaveUp'
    BY <1>2, <1>3 DEF WaitsCover
  <2> QED
    BY <2>1, <2>2 DEF WaitsCover, Shown
<1>6. MissesShown'
  <2>1. SUFFICES ASSUME \A t \in Tx : pc'[t] # "reset", ~Resetting', NEW o \in Object,
                        NEW a \in answered', ownedCache'[o] = None, SaysLast(a, o)'
                 PROVE  a <= indexed' \/ a <= gaveUp'
    BY DEF MissesShown, Shown
  <2>2. SaysLast(a, o) /\ ownedCache[o] = None
    BY <2>1 DEF SaysLast, Moved, cache
  <2> QED
    BY <2>1, <2>2, <1>2, <1>3 DEF MissesShown
<1> QED
  BY <1>1, <1>4, <1>5, <1>6 DEF SerialInv

----------------------------------------------------------------------------
(* Building. *)

(* A task queues behind the others. *)
LEMMA ExecuteTransactionSerial ==
  ASSUME SerialInv, NEW t \in Tx, NEW ids \in InputSets, ExecuteTransaction(t, ids)
  PROVE  SerialInv'
<1> DEFINE n == Len(queue)
<1>1. /\ queue \in Seq(Tx) /\ n \in Nat /\ DOMAIN queue = 1 .. n
      /\ pc \in [Tx -> Awaits] /\ uses \in [Tx -> SUBSET Object] /\ pc[t] = "none"
      /\ SerialTypes /\ OneAtATime
  BY Bounds DEF SerialInv, SerialTypes, TypeOK, ExecuteTransaction
<1>2. /\ queue' = Append(queue, t) /\ pc' = [pc EXCEPT ![t] = "cache"]
      /\ uses' = [uses EXCEPT ![t] = ids] /\ ~Resetting
      /\ UNCHANGED <<build, cache, lastDigest, userCall, chain, indexed, history>>
  BY DEF ExecuteTransaction
<1>3. /\ Append(queue, t) \in Seq(Tx) /\ DOMAIN Append(queue, t) = 1 .. n + 1
      /\ \A i \in 1 .. n : Append(queue, t)[i] = queue[i]
      /\ Append(queue, t)[n + 1] = t
  BY <1>1, AppendProperties, LenProperties
<1> HIDE DEF n
<1>4. ids \subseteq Object
  BY SerialAssumption
<1>5. /\ pc' \in [Tx -> Awaits] /\ pc'[t] = "cache" /\ \A u \in Tx : u # t => pc'[u] = pc[u] /\ uses'[u] = uses[u]
      /\ uses' \in [Tx -> SUBSET Object]
  BY <1>1, <1>2, <1>4 DEF Awaits
<1>6. SerialTypes'
  <2>1. TypeOK'
    BY <1>1, <1>2, <1>3, <1>5 DEF SerialTypes, TypeOK, build, cache, chain, history, Height
  <2> QED
    BY <2>1, <1>1, <1>2 DEF SerialTypes, build, cache, chain
<1>7. \A i \in DOMAIN queue : queue[i] # t
  BY <1>1 DEF OneAtATime, Queued
<1>8. \A u \in Tx : Queued(u)' <=> Queued(u) \/ u = t
  <2> TAKE u \in Tx
  <2>1. ASSUME NEW i \in 1 .. n + 1, queue'[i] = u  PROVE Queued(u) \/ u = t
    <3>1. i \in 1 .. n \/ i = n + 1
      BY <1>1
    <3> QED
      BY <2>1, <3>1, <1>1, <1>2, <1>3 DEF Queued
  <2>2. ASSUME NEW i \in DOMAIN queue, queue[i] = u  PROVE i \in DOMAIN queue' /\ queue'[i] = u
    BY <2>2, <1>1, <1>2, <1>3
  <2>3. n + 1 \in DOMAIN queue' /\ queue'[n + 1] = t
    BY <1>1, <1>2, <1>3
  <2> QED
    BY <2>1, <2>2, <2>3, <1>2, <1>3 DEF Queued
<1>9. OneAtATime'
  <2>1. ASSUME NEW i \in 1 .. n + 1, NEW j \in 1 .. n + 1, queue'[i] = queue'[j]  PROVE i = j
    <3>1. /\ i \in 1 .. n => i \in DOMAIN queue /\ queue'[i] = queue[i]
          /\ j \in 1 .. n => j \in DOMAIN queue /\ queue'[j] = queue[j]
          /\ i = n + 1 => queue'[i] = t
          /\ j = n + 1 => queue'[j] = t
          /\ i \in 1 .. n \/ i = n + 1
          /\ j \in 1 .. n \/ j = n + 1
      BY <1>1, <1>2, <1>3
    <3>2. CASE i \in 1 .. n /\ j \in 1 .. n
      BY <1>1, <2>1, <3>1, <3>2 DEF OneAtATime
    <3>3. CASE i = n + 1 \/ j = n + 1
      BY <2>1, <3>1, <3>3, <1>7
    <3> QED
      BY <3>1, <3>2, <3>3
  <2>2. \A u \in Tx : Queued(u)' <=> pc'[u] \notin {"none", "done"}
    BY <1>5, <1>8 DEF OneAtATime, SerialInv
  <2>3. ASSUME NEW u \in Tx, pc'[u] \in Busy  PROVE queue'[1] = u
    <3>1. u # t /\ pc[u] \in Busy
      BY <2>3, <1>5 DEF Busy
    <3>2. queue[1] = u /\ 1 \in DOMAIN queue
      BY <3>1, <1>1, HeadOfQueue DEF OneAtATime, Busy
    <3> QED
      BY <3>2, <1>1, <1>2, <1>3
  <2> QED
    BY <2>1, <2>2, <2>3, <1>2, <1>3 DEF OneAtATime
<1>10. SubmittedOnce'
  <2>1. UNCHANGED <<inFlight, ledger, clearedAt, answered, inputs, payment>>
    BY <1>2 DEF build, chain, history
  <2>2. SubmittedOnce /\ \A tx \in inFlight : tx.by \in Tx
    BY <1>1 DEF SerialInv, SerialTypes, TypeOK, Submissions
  <2>3. \A tx \in inFlight : tx.by # t
    BY <2>2, <1>1 DEF SubmittedOnce
  <2>4. \A h \in DOMAIN ledger : ledger[h].by # t
    BY <2>2, <1>1 DEF SubmittedOnce
  <2> QED
    BY <2>1, <2>2, <2>3, <2>4, <1>5 DEF SubmittedOnce
<1>11. BuiltFit'
  <2>1. UNCHANGED <<ledger, cache, clearedAt, answered, gaveUp, inputs, payment>>
    BY <1>2 DEF build, chain, history
  <2>2. pc'[t] = "cache" /\ \A u \in Tx : u # t => pc'[u] = pc[u] /\ uses'[u] = uses[u]
    BY <1>5
  <2>3. BuiltFit
    BY DEF SerialInv
  <2> QED
    BY <2>1, <2>2, <2>3 DEF BuiltFit, Cached, Fit, SaysLast, Moved, Touches, Height, cache
<1>12. /\ UNCHANGED <<ledger, cache, answered, clearedAt, lastDigest, gaveUp, indexed, waitFor, userCall>>
       /\ ~Resetting'
  BY <1>2 DEF chain, history, build, Resetting
<1>13. \A u \in Tx : pc'[u] = "reset" <=> pc[u] = "reset"
  BY <1>1, <1>5
<1>14. indexed <= indexed'
  BY <1>1, <1>12, Bounds DEF SerialTypes
<1>15. \A u \in Tx : /\ pc'[u] = "reset" <=> pc[u] = "reset"
                     /\ pc'[u] = "reset" => waitFor' = waitFor
  BY <1>12, <1>13
<1>16. UNCHANGED <<ledger, cache, answered, clearedAt, lastDigest, gaveUp>> /\ waitFor' \in {waitFor, 0}
  BY <1>12
<1>17. ~Resetting /\ ~Resetting' /\ userCall' = userCall
  BY <1>2, <1>12
<1> QED
  BY <1>6, <1>9, <1>10, <1>11, <1>14, <1>15, <1>16, <1>17, QuietSerial

(* The task at the head prepares its transaction further. *)
LEMMA PreparesFurther ==
  ASSUME SerialInv, NEW t \in Tx, pc[t] \in Preparing, Head(queue) = t,
         NEW await \in {"resolve", "pay", "sign", "submit"}, GoTo(t, await),
         UNCHANGED <<waitFor, cache, lastDigest, userCall, ledger, answered, gaveUp, clearedAt, indexed>>,
         inputs' \in [Object -> Nat \cup {None}], payment' \subseteq CoinRefs,
         inFlight' \subseteq Submissions, \A tx \in inFlight' : tx.payment \subseteq CoinRefs,
         \A tx \in inFlight' :
           \/ tx \in inFlight
           \/ /\ await = "submit" /\ tx.by = t
              /\ tx.uses = uses[t] /\ tx.inputs = inputs' /\ tx.payment = payment',
         await \in {"resolve", "pay"} => payment' = IF gasCoin = None THEN {} ELSE {gasCoin},
         await = "resolve" =>
           inputs' = [o \in Object |-> IF o \in uses[t] THEN Cached(o) ELSE None],
         await \in {"pay", "sign", "submit"} =>
           \A o \in uses[t] : inputs'[o] \in Nat /\ FitNext(o, inputs'[o]),
         await \in {"sign", "submit"} => \A r \in payment' : FitNext(r.id, r.version)
  PROVE  SerialInv'
<1>1. /\ SerialTypes /\ OneAtATime /\ SubmittedOnce /\ WaitsCover
      /\ pc \in [Tx -> Awaits] /\ uses \in [Tx -> SUBSET Object]
      /\ \A tx \in inFlight : tx.by \in Tx
  BY DEF SerialInv, SerialTypes, TypeOK, Submissions
<1>2. pc[t] \notin {"none", "done"} /\ await \in Busy /\ pc[t] \notin {"submit", "reset", "done"}
  BY DEF Preparing, Busy
<1>3. /\ OneAtATime'
      /\ queue' \in Seq(Tx) /\ pc' \in [Tx -> Awaits] /\ uses' \in [Tx -> SUBSET Object]
      /\ queue' # <<>> /\ uses' = uses /\ pc'[t] = await
      /\ \A u \in Tx : u # t => pc'[u] = pc[u] /\ pc[u] \notin Busy
  BY <1>1, <1>2, GoToOne
<1>4. queue' = queue
  BY DEF GoTo
<1>5. SerialTypes'
  <2>1. CoinRefs \subseteq Refs
    BY SerialAssumption DEF CoinRefs, Refs
  <2>2. TypeOK'
    BY <2>1, <1>1, <1>3, SerialAssumption DEF SerialTypes, TypeOK, cache, Height
  <2>3. gasCoin' = gasCoin /\ gasCoin \in CoinRefs \cup {None}
    BY <1>1 DEF SerialTypes, cache
  <2> QED
    BY <2>2, <2>3 DEF SerialTypes
<1>6. SubmittedOnce'
  <2>1. ASSUME NEW tx \in inFlight'
        PROVE  /\ pc'[tx.by] \in {"submit", "reset", "done"}
               /\ pc'[tx.by] = "submit" =>
                    tx.uses = uses'[tx.by] /\ tx.inputs = inputs' /\ tx.payment = payment'
    <3>1. CASE tx \in inFlight
      <4>1. tx.by \in Tx /\ tx.by # t
        BY <3>1, <1>1, <1>2 DEF SubmittedOnce
      <4>2. pc'[tx.by] = pc[tx.by] /\ pc[tx.by] # "submit" /\ pc[tx.by] \in {"submit", "reset", "done"}
        BY <3>1, <4>1, <1>1, <1>3 DEF SubmittedOnce, Busy
      <4> QED
        BY <4>2
    <3>2. CASE tx \notin inFlight
      BY <3>2, <1>3
    <3> QED
      BY <3>1, <3>2
  <2>2. \A h \in DOMAIN ledger, u \in Tx : ledger[h].by = u =>
          u # t /\ pc[u] \in {"submit", "reset", "done"}
    BY <1>1, <1>2 DEF SubmittedOnce
  <2>3. \A h \in DOMAIN ledger, u \in Tx : ledger[h].by = u =>
          pc'[u] \in {"submit", "reset", "done"} /\ pc'[u] # "submit"
    BY <2>2, <1>3 DEF Busy
  <2> QED
    BY <2>1, <2>3 DEF SubmittedOnce
<1>7. BuiltFit'
  <2>1. \A u \in Tx : u # t => pc'[u] \notin {"resolve", "pay", "sign", "submit"}
    BY <1>3 DEF Busy
  <2>2. gasCoin' = gasCoin /\ ownedCache' = ownedCache /\ fixedCache' = fixedCache
    BY DEF cache
  <2>3. pc'[t] = "resolve" =>
           inputs' = [o \in Object |-> IF o \in uses'[t]
                        THEN IF ownedCache'[o] # None THEN ownedCache'[o] ELSE fixedCache'[o]
                        ELSE None]
    BY <2>2, <1>3 DEF Cached
  <2> QED
    BY <2>1, <2>2, <2>3, <1>3, BuiltFitAfter
<1>8. ~Resetting /\ ~Resetting'
  BY <1>1, <1>3, <1>4 DEF WaitsCover, Resetting
<1>9. \A u \in Tx : pc'[u] = "reset" <=> pc[u] = "reset"
  BY <1>2, <1>3
<1>10. indexed <= indexed' /\ waitFor' \in {waitFor, 0} /\ userCall' = userCall /\ waitFor' = waitFor
  BY <1>1, Bounds DEF SerialTypes
<1>11. UNCHANGED <<ledger, cache, answered, clearedAt, lastDigest, gaveUp>>
  OBVIOUS
<1> QED
  BY <1>5, <1>3, <1>6, <1>7, <1>8, <1>9, <1>10, <1>11, QuietSerial

(* The versions read are those the caches hold. *)
LEMMA ReadCacheSerial ==
  ASSUME SerialInv, NEW t \in Tx, ReadCache(t)
  PROVE  SerialInv'
<1>1. /\ pc[t] \in Preparing /\ Head(queue) = t /\ GoTo(t, "resolve")
      /\ payment' = IF gasCoin = None THEN {} ELSE {gasCoin}
      /\ inputs' = [o \in Object |-> IF o \in uses[t] THEN Cached(o) ELSE None]
      /\ UNCHANGED <<waitFor, cache, lastDigest, userCall, chain, indexed, history>>
  BY DEF ReadCache, Runs, Preparing
<1>2. UNCHANGED <<waitFor, cache, lastDigest, userCall, ledger, answered, gaveUp, clearedAt, indexed>>
  BY <1>1 DEF chain, history
<1>3. /\ inFlight' = inFlight /\ inFlight \subseteq Submissions
      /\ \A tx \in inFlight' : tx.payment \subseteq CoinRefs
  BY <1>1 DEF chain, SerialInv, SerialTypes, TypeOK
<1>4. inputs' \in [Object -> Nat \cup {None}] /\ payment' \subseteq CoinRefs
  BY <1>1 DEF Cached, SerialInv, SerialTypes, TypeOK
<1> QED
  BY <1>1, <1>2, <1>3, <1>4, PreparesFurther

(* A version the node shows is fit where the cache has none. *)
LEMMA NodeFit ==
  ASSUME SerialInv, NEW t \in Tx, pc[t] \in Preparing, Head(queue) = t, NEW o \in Object,
         ownedCache[o] = None
  PROVE  Fit(o, VersionAt(o, indexed)) /\ VersionAt(o, indexed) \in Nat
<1> DEFINE v == VersionAt(o, indexed)
<1>1. /\ Height \in Nat /\ {indexed, gaveUp, clearedAt} \subseteq 0 .. Height
      /\ clearedAt <= indexed /\ answered \subseteq 1 .. Height
      /\ DOMAIN ledger = 1 .. Height
  BY Bounds DEF SerialInv, SerialTypes
<1>2. v \in Touches(o, indexed) \cup {0} /\ v \in 0 .. indexed /\ \A i \in Touches(o, indexed) : i <= v
  BY <1>1, VersionIsLast
<1> HIDE DEF v
<1>3. v \in Touches(o, Height) \cup {0}
  BY <1>1, <1>2 DEF Touches
<1>4. (\A u \in Tx : pc[u] # "reset") /\ ~Resetting
  <2>1. pc[t] \notin {"none", "done", "reset"} /\ SerialTypes /\ OneAtATime /\ WaitsCover
    BY DEF Preparing, SerialInv
  <2>2. queue # <<>> /\ \A u \in Tx : u # t => pc[u] \notin Busy
    BY <2>1, HeadOfQueue
  <2> QED
    BY <2>1, <2>2 DEF WaitsCover, Busy
<1>5. ASSUME NEW a \in answered, SaysLast(a, o)  PROVE a <= gaveUp \/ a <= v
  <2>1. a <= indexed \/ a <= gaveUp
    BY <1>4, <1>5 DEF SerialInv, MissesShown, Shown
  <2>2. a <= indexed => a \in Touches(o, indexed)
    BY <1>1, <1>5 DEF SaysLast, Moved, Touches
  <2> QED
    BY <2>1, <2>2, <1>2
<1>6. \A i \in Touches(o, clearedAt) : i <= v
  BY <1>1, <1>2 DEF Touches
<1>7. Fit(o, v)
  BY <1>3, <1>5, <1>6 DEF Fit
<1>8. v \in Nat
  BY <1>1, <1>2
<1> QED
  BY <1>7, <1>8 DEF v

(* What is in the cache is fit. *)
LEMMA OwnedFit ==
  ASSUME SerialInv, NEW o \in Object, ownedCache[o] # None
  PROVE  Fit(o, ownedCache[o]) /\ ownedCache[o] \in Nat
<1>1. /\ {gaveUp, clearedAt} \subseteq Nat /\ answered \subseteq Nat
      /\ ownedCache[o] \in Nat
  BY Bounds DEF SerialInv, SerialTypes, TypeOK
<1>2. /\ ownedCache[o] \in Touches(o, Height) /\ ownedCache[o] > clearedAt
      /\ \A a \in answered : Moved(a, o) => a <= ownedCache[o]
  BY DEF SerialInv, OwnedCacheFresh
<1>3. \A a \in answered : SaysLast(a, o) => a <= ownedCache[o]
  BY <1>2 DEF SaysLast
<1>4. \A i \in Touches(o, clearedAt) : i <= ownedCache[o]
  BY <1>1, <1>2 DEF Touches
<1> QED
  BY <1>1, <1>2, <1>3, <1>4 DEF Fit

(* An object that became fixed has the version it became so at. *)
LEMMA FixedFit ==
  ASSUME SerialInv, NEW o \in Object, fixedCache[o] # None
  PROVE  Fit(o, fixedCache[o]) /\ fixedCache[o] \in Nat
<1> DEFINE v == fixedCache[o]
<1>1. /\ Height \in Nat /\ clearedAt \in 0 .. Height
      /\ answered \subseteq 1 .. Height /\ DOMAIN ledger = 1 .. Height /\ ChainRules
  BY Bounds DEF SerialInv, SerialTypes
<1>2. v \in 1 .. Height /\ ledger[v].changed[o] = "fixed"
  BY <1>1 DEF SerialInv, FixedCacheFinal
<1> HIDE DEF v
<1>3. \A i \in 1 .. Height : ledger[i].changed[o] # "untouched" => i <= v
  BY <1>1, <1>2 DEF ChainRules
<1>4. v \in Touches(o, Height)
  BY <1>2 DEF Touches
<1>5. \A a \in answered : SaysLast(a, o) => a <= v
  BY <1>1, <1>3 DEF SaysLast, Moved
<1>6. \A i \in Touches(o, clearedAt) : i <= v
  BY <1>1, <1>3 DEF Touches
<1>7. Fit(o, v) /\ v \in Nat
  BY <1>1, <1>2, <1>4, <1>5, <1>6 DEF Fit
<1> QED
  BY <1>7 DEF v

(* What the caches lack, the node supplies: each version used is fit. *)
LEMMA ResolveObjectsSerial ==
  ASSUME SerialInv, NEW t \in Tx, ResolveObjects(t)
  PROVE  SerialInv'
<1> DEFINE asked == {o \in uses[t] : inputs[o] = None}
<1>1. /\ pc[t] = "resolve" /\ pc[t] \in Preparing /\ Head(queue) = t /\ GoTo(t, "pay")
      /\ inputs' = [o \in Object |-> IF o \in asked THEN VersionAt(o, indexed) ELSE inputs[o]]
      /\ UNCHANGED <<payment, waitFor, cache, lastDigest, userCall, chain, indexed, history>>
  BY DEF ResolveObjects, Runs, Preparing
<1>2. UNCHANGED <<waitFor, cache, lastDigest, userCall, ledger, answered, gaveUp, clearedAt, indexed>>
  BY <1>1 DEF chain, history
<1>3. inFlight' = inFlight /\ inFlight \subseteq Submissions
  BY <1>1 DEF chain, SerialInv, SerialTypes, TypeOK
<1>4. /\ inputs = [o \in Object |-> IF o \in uses[t] THEN Cached(o) ELSE None]
      /\ payment = IF gasCoin = None THEN {} ELSE {gasCoin}
      /\ payment \subseteq CoinRefs /\ uses[t] \subseteq Object /\ TypeOK
  BY <1>1 DEF SerialInv, BuiltFit, SerialTypes, TypeOK
<1>5. ASSUME NEW o \in uses[t]  PROVE inputs'[o] \in Nat /\ Fit(o, inputs'[o])
  <2>1. o \in Object /\ inputs[o] = Cached(o)
    BY <1>4
  <2>2. CASE ownedCache[o] # None
    <3>1. ownedCache[o] \in Nat /\ Fit(o, ownedCache[o])
      BY <2>1, <2>2, OwnedFit
    <3>2. inputs'[o] = ownedCache[o]
      BY <2>1, <2>2, <1>1 DEF Cached
    <3> QED
      BY <3>1, <3>2
  <2>3. CASE ownedCache[o] = None /\ fixedCache[o] # None
    <3>1. fixedCache[o] \in Nat /\ Fit(o, fixedCache[o])
      BY <2>1, <2>3, FixedFit
    <3>2. inputs'[o] = fixedCache[o]
      BY <2>1, <2>3, <1>1 DEF Cached
    <3> QED
      BY <3>1, <3>2
  <2>4. CASE ownedCache[o] = None /\ fixedCache[o] = None
    <3>1. VersionAt(o, indexed) \in Nat /\ Fit(o, VersionAt(o, indexed))
      BY <2>1, <2>4, <1>1, NodeFit
    <3>2. inputs'[o] = VersionAt(o, indexed)
      BY <2>1, <2>4, <1>1 DEF Cached
    <3> QED
      BY <3>1, <3>2
  <2> QED
    BY <2>2, <2>3, <2>4
<1>6. inputs' \in [Object -> Nat \cup {None}]
  <2>1. inputs \in [Object -> Nat \cup {None}]
    BY DEF SerialInv, SerialTypes, TypeOK
  <2>2. \A o \in Object : inputs'[o] \in Nat \cup {None}
    BY <2>1, <1>1, <1>5
  <2> QED
    BY <2>2, <1>1
<1>7. \A o \in uses[t] : inputs'[o] \in Nat /\ FitNext(o, inputs'[o])
  BY <1>2, <1>4, <1>5, FitSame
<1> QED
  BY <1>1, <1>2, <1>3, <1>4, <1>6, <1>7, PreparesFurther DEF SerialInv, SerialTypes

(* The cached gas coin is fit. *)
LEMMA GasCoinFit ==
  ASSUME SerialInv, gasCoin # None
  PROVE  Fit(gasCoin.id, gasCoin.version) /\ gasCoin.version \in Nat
<1>1. gasCoin \in CoinRefs /\ {gaveUp, clearedAt} \subseteq Nat /\ answered \subseteq Nat
  BY Bounds DEF SerialInv, SerialTypes, TypeOK
<1>2. /\ gasCoin.version \in Touches(gasCoin.id, Height) /\ gasCoin.version > clearedAt
      /\ \A a \in answered : a <= gasCoin.version
  BY DEF SerialInv, GasCoinFresh
<1>3. gasCoin.version \in Nat
  BY <1>1 DEF CoinRefs
<1>4. \A a \in answered : SaysLast(a, gasCoin.id) => a <= gasCoin.version
  BY <1>2
<1>5. \A i \in Touches(gasCoin.id, clearedAt) : i <= gasCoin.version
  BY <1>1, <1>2, <1>3 DEF Touches
<1> QED
  BY <1>2, <1>3, <1>4, <1>5 DEF Fit

(* The cached coin, or all the node shows: each coin paid with is fit. *)
LEMMA SetGasPaymentSerial ==
  ASSUME SerialInv, NEW t \in Tx, SetGasPayment(t)
  PROVE  SerialInv'
<1> DEFINE coins == {c \in Coin \ uses[t] : OwnerAt(c, indexed) = "mine"}
<1>1. /\ pc[t] = "pay" /\ pc[t] \in Preparing /\ Head(queue) = t /\ GoTo(t, "sign")
      /\ IF payment # {} THEN payment' = payment
         ELSE payment' = {Ref(c, VersionAt(c, indexed)) : c \in coins}
      /\ UNCHANGED <<inputs, waitFor, cache, lastDigest, userCall, chain, indexed, history>>
  BY DEF SetGasPayment, Runs, Preparing
<1>2. UNCHANGED <<waitFor, cache, lastDigest, userCall, ledger, answered, gaveUp, clearedAt, indexed>>
  BY <1>1 DEF chain, history
<1>3. inFlight' = inFlight /\ inFlight \subseteq Submissions
  BY <1>1 DEF chain, SerialInv, SerialTypes, TypeOK
<1>4. /\ \A o \in uses[t] : inputs[o] \in Nat /\ Fit(o, inputs[o])
      /\ payment = IF gasCoin = None THEN {} ELSE {gasCoin}
      /\ payment \subseteq CoinRefs /\ inputs \in [Object -> Nat \cup {None}] /\ TypeOK
      /\ gasCoin = None => \A o \in Object : ownedCache[o] = None
  BY <1>1 DEF SerialInv, BuiltFit, SerialTypes, TypeOK, GasCoinFresh
<1>5. /\ \A r \in payment' : r.version \in Nat /\ Fit(r.id, r.version)
      /\ payment' \subseteq CoinRefs
  <2>1. CASE payment # {}
    BY <2>1, <1>1, <1>4, GasCoinFit
  <2>2. CASE payment = {}
    <3>1. gasCoin = None /\ payment' = {Ref(c, VersionAt(c, indexed)) : c \in coins}
      BY <2>2, <1>1, <1>4
    <3>2. \A c \in coins : c \in Coin /\ VersionAt(c, indexed) \in Nat /\ Fit(c, VersionAt(c, indexed))
      BY <3>1, <1>1, <1>4, SerialAssumption, NodeFit
    <3> HIDE DEF coins
    <3>3. \A c \in coins : /\ Ref(c, VersionAt(c, indexed)) \in CoinRefs
                           /\ Ref(c, VersionAt(c, indexed)).id = c
                           /\ Ref(c, VersionAt(c, indexed)).version = VersionAt(c, indexed)
      BY <3>2 DEF Ref, CoinRefs
    <3>4. ASSUME NEW r \in payment'  PROVE r.version \in Nat /\ Fit(r.id, r.version) /\ r \in CoinRefs
      <4>1. PICK c \in coins : r = Ref(c, VersionAt(c, indexed))
        BY <3>1
      <4>2. r.id = c /\ r.version = VersionAt(c, indexed)
        BY <4>1, <3>3
      <4> QED
        BY <4>1, <4>2, <3>2, <3>3
    <3> QED
      BY <3>4
  <2> QED
    BY <2>1, <2>2
<1>6. \A r \in payment' : FitNext(r.id, r.version)
  BY <1>2, <1>4, <1>5, FitSame
<1>7. \A o \in uses[t] : inputs'[o] \in Nat /\ FitNext(o, inputs'[o])
  <2>1. inputs' = inputs
    BY <1>1
  <2> QED
    BY <2>1, <1>2, <1>4, FitSame
<1>8. inputs' \in [Object -> Nat \cup {None}]
  BY <1>1, <1>4
<1> QED
  BY <1>1, <1>2, <1>3, <1>5, <1>6, <1>7, <1>8, PreparesFurther DEF SerialInv, SerialTypes

(* What is submitted is what was built. *)
LEMMA SubmitSerial ==
  ASSUME SerialInv, NEW t \in Tx, Submit(t)
  PROVE  SerialInv'
<1> DEFINE new == [by |-> t, uses |-> uses[t], inputs |-> inputs, payment |-> payment]
<1>1. /\ pc[t] = "sign" /\ pc[t] \in Preparing /\ Head(queue) = t /\ GoTo(t, "submit")
      /\ inFlight' = inFlight \cup {new}
      /\ UNCHANGED <<build, cache, lastDigest, userCall, ledger, indexed, history>>
  BY DEF Submit, Runs, Preparing
<1>2. /\ UNCHANGED <<waitFor, cache, lastDigest, userCall, ledger, answered, gaveUp, clearedAt, indexed>>
      /\ inputs' = inputs /\ payment' = payment
  BY <1>1 DEF build, history
<1>3. /\ \A o \in uses[t] : inputs[o] \in Nat /\ Fit(o, inputs[o])
      /\ \A r \in payment : Fit(r.id, r.version)
      /\ payment \subseteq CoinRefs /\ inputs \in [Object -> Nat \cup {None}] /\ TypeOK
      /\ inFlight \subseteq Submissions /\ \A tx \in inFlight : tx.payment \subseteq CoinRefs
      /\ uses[t] \in SUBSET Object
  BY <1>1 DEF SerialInv, BuiltFit, SerialTypes, TypeOK
<1>4. payment \subseteq Refs
  BY <1>3, SerialAssumption DEF CoinRefs, Refs
<1>5. new \in Submissions /\ new.by = t /\ new.uses = uses[t] /\ new.inputs = inputs /\ new.payment = payment
  BY <1>3, <1>4 DEF Submissions
<1> HIDE DEF new
<1>6. \A r \in payment' : FitNext(r.id, r.version)
  <2>1. \A r \in payment : r.version \in Nat
    BY <1>3 DEF CoinRefs
  <2> QED
    BY <2>1, <1>2, <1>3, FitSame
<1>7. \A o \in uses[t] : inputs'[o] \in Nat /\ FitNext(o, inputs'[o])
  BY <1>2, <1>3, FitSame
<1>8. /\ inFlight' \subseteq Submissions /\ \A tx \in inFlight' : tx.payment \subseteq CoinRefs
      /\ \A tx \in inFlight' :
           \/ tx \in inFlight
           \/ tx.by = t /\ tx.uses = uses[t] /\ tx.inputs = inputs' /\ tx.payment = payment'
  BY <1>1, <1>2, <1>3, <1>5
<1>9. inputs' \in [Object -> Nat \cup {None}] /\ payment' \subseteq CoinRefs
  BY <1>2, <1>3
<1> QED
  BY <1>1, <1>2, <1>6, <1>7, <1>8, <1>9, PreparesFurther

(* A task that leaves has submitted once, and nothing is being built.      *)
LEMMA LeaveKeeps ==
  ASSUME SerialTypes, OneAtATime, SubmittedOnce, NEW t \in Tx, pc[t] \notin {"none", "done"},
         Head(queue) = t, Leave(t), UNCHANGED <<ledger, inFlight>>
  PROVE  SubmittedOnce' /\ BuiltFit' /\ \A u \in Tx : pc'[u] # "reset"
<1>1. /\ pc'[t] = "done" /\ \A u \in Tx : u # t => pc'[u] = pc[u]
      /\ \A u \in Tx : pc'[u] \notin Busy
  BY LeaveOne
<1>2. \A tx \in inFlight : tx.by \in Tx
  BY DEF SerialTypes, TypeOK, Submissions
<1>3. \A u \in Tx : pc[u] \in {"submit", "reset", "done"} => pc'[u] = "done"
  BY <1>1 DEF Busy
<1>4. SubmittedOnce'
  BY <1>2, <1>3 DEF SubmittedOnce
<1>5. BuiltFit'
  BY <1>1 DEF BuiltFit, Busy
<1> QED
  BY <1>1, <1>4, <1>5 DEF Busy

(* Nobody resets while a task is in the queue. *)
LEMMA NoResetNow ==
  ASSUME SerialInv, NEW t \in Tx, pc[t] \notin {"none", "done"}
  PROVE  ~Resetting
<1>1. queue # <<>>
  BY HeadOfQueue DEF SerialInv
<1> QED
  BY <1>1 DEF SerialInv, WaitsCover

(* A failure before the submission leaves caches and waits alone. *)
LEMMA PrepareFailsSerial ==
  ASSUME SerialInv, NEW t \in Tx, PrepareFails(t)
  PROVE  SerialInv'
<1>1. /\ pc[t] \notin {"none", "done", "reset"} /\ Head(queue) = t /\ Leave(t)
      /\ UNCHANGED <<cache, lastDigest, userCall, chain, indexed, history>>
      /\ SerialTypes /\ OneAtATime /\ SubmittedOnce
  BY DEF PrepareFails, Preparing, SerialInv
<1>2. UNCHANGED <<cache, lastDigest, userCall, ledger, inFlight, answered, gaveUp, clearedAt, indexed>>
  BY <1>1 DEF chain, history
<1>3. /\ OneAtATime'
      /\ queue' \in Seq(Tx) /\ pc' \in [Tx -> Awaits] /\ uses' \in [Tx -> SUBSET Object]
      /\ inputs' \in [Object -> Nat \cup {None}] /\ payment' = {} /\ waitFor' = 0
  BY <1>1, LeaveOne
<1>4. SubmittedOnce' /\ BuiltFit' /\ \A u \in Tx : pc'[u] # "reset"
  BY <1>1, <1>2, LeaveKeeps
<1>5. \A u \in Tx : pc[u] # "reset"
  BY <1>1, HeadOfQueue DEF Busy
<1>6. SerialTypes'
  <2>1. TypeOK'
    BY <1>1, <1>2, <1>3, Bounds DEF SerialTypes, TypeOK, cache, Height
  <2> QED
    BY <2>1, <1>1, <1>2, <1>3 DEF SerialTypes, cache
<1>7. ~Resetting /\ ~Resetting'
  BY <1>1, <1>2, NoResetNow DEF Resetting
<1>8. indexed <= indexed' /\ waitFor' \in {waitFor, 0} /\ userCall' = userCall
  BY <1>1, <1>2, <1>3, Bounds DEF SerialTypes
<1>9. UNCHANGED <<ledger, cache, answered, clearedAt, lastDigest, gaveUp>>
  BY <1>2
<1> QED
  BY <1>3, <1>4, <1>5, <1>6, <1>7, <1>8, <1>9, QuietSerial

(* What is being built stays fit while the chain grows and waits are given *)
(* up.                                                                     *)
LEMMA BuiltStays ==
  ASSUME SerialInv, UNCHANGED <<pc, uses, inputs, payment, cache, answered, clearedAt>>,
         gaveUp' \in Nat, gaveUp <= gaveUp',
         Len(ledger') \in Nat, Height <= Len(ledger'), \A i \in 1 .. Height : ledger'[i] = ledger[i]
  PROVE  BuiltFit'
<1>1. TypeOK /\ BuiltFit /\ payment \subseteq CoinRefs
  BY DEF SerialInv, SerialTypes
<1>2. ASSUME NEW u \in Tx, pc[u] \in {"pay", "sign", "submit"}, NEW o \in uses[u]
      PROVE  inputs[o] \in Nat /\ FitNext(o, inputs[o])
  <2>1. inputs[o] \in Nat /\ Fit(o, inputs[o])
    BY <1>1, <1>2 DEF BuiltFit
  <2> QED
    BY <2>1, <1>1, FitKept
<1>3. ASSUME NEW u \in Tx, pc[u] \in {"sign", "submit"}, NEW r \in payment
      PROVE  FitNext(r.id, r.version)
  <2>1. r.version \in Nat /\ Fit(r.id, r.version)
    BY <1>1, <1>3 DEF BuiltFit, CoinRefs
  <2> QED
    BY <2>1, <1>1, FitKept
<1>4. \A u \in Tx :
        /\ pc'[u] \in {"resolve", "pay"} => payment' = IF gasCoin' = None THEN {} ELSE {gasCoin'}
        /\ pc'[u] = "resolve" =>
             inputs' = [o \in Object |-> IF o \in uses'[u]
                          THEN IF ownedCache'[o] # None THEN ownedCache'[o] ELSE fixedCache'[o]
                          ELSE None]
  BY <1>1 DEF BuiltFit, Cached, cache
<1>5. \A u \in Tx :
        /\ pc'[u] = "pay" => \A o \in uses'[u] : inputs'[o] \in Nat /\ FitNext(o, inputs'[o])
        /\ pc'[u] \in {"sign", "submit"} =>
             /\ \A o \in uses'[u] : inputs'[o] \in Nat /\ FitNext(o, inputs'[o])
             /\ \A r \in payment' : FitNext(r.id, r.version)
  BY <1>2, <1>3
<1> QED
  BY <1>4, <1>5 DEF BuiltFit, Cached, Fit, FitNext, SaysLast, Moved, Touches, Height

(* A waitForLastTransaction begins. *)
LEMMA WaitForLastTransactionSerial ==
  ASSUME SerialInv, WaitForLastTransaction
  PROVE  SerialInv'
<1>1. /\ userCall = None /\ lastDigest # 0 /\ userCall' = [digest |-> lastDigest, reset |-> FALSE]
      /\ UNCHANGED <<queue, pc, uses, inputs, payment, waitFor, cache, lastDigest, ledger, inFlight,
                     indexed, answered, gaveUp, clearedAt>>
  BY DEF WaitForLastTransaction, task, build, chain, history
<1>2. /\ TypeOK /\ SerialTypes /\ OneAtATime /\ SubmittedOnce
      /\ Height \in Nat /\ gaveUp \in Nat /\ indexed \in Nat /\ lastDigest \in 1 .. Height
  BY <1>1, Bounds DEF SerialInv, SerialTypes
<1>3. SerialTypes'
  <2>1. userCall' \in [digest : 1 .. Height', reset : BOOLEAN]
    BY <1>1, <1>2 DEF Height
  <2>2. TypeOK'
    BY <2>1, <1>1, <1>2 DEF TypeOK, cache, Height
  <2> QED
    BY <2>2, <1>1, <1>2 DEF SerialTypes, cache
<1>4. OneAtATime' /\ SubmittedOnce'
  BY <1>1, <1>2 DEF OneAtATime, Queued, SubmittedOnce
<1>5. BuiltFit'
  <2>1. /\ gaveUp' \in Nat /\ gaveUp <= gaveUp' /\ Len(ledger') \in Nat /\ Height <= Len(ledger')
        /\ \A i \in 1 .. Height : ledger'[i] = ledger[i]
    BY <1>1, <1>2 DEF Height
  <2> QED
    BY <2>1, <1>1, BuiltStays
<1>6. ~Resetting /\ ~Resetting'
  BY <1>1 DEF Resetting
<1>7. indexed <= indexed' /\ waitFor' = waitFor /\ pc' = pc
  BY <1>1, <1>2
<1> QED
  BY <1>1, <1>3, <1>4, <1>5, <1>6, <1>7, QuietSerial

(* The node catches up by one: what it had shown, it still shows. *)
LEMMA NodeIndexesSerial ==
  ASSUME SerialInv, NodeIndexes
  PROVE  SerialInv'
<1>1. /\ indexed < Height /\ indexed' = indexed + 1
      /\ UNCHANGED <<queue, pc, uses, inputs, payment, waitFor, cache, lastDigest, userCall, ledger,
                     inFlight, answered, gaveUp, clearedAt>>
  BY DEF NodeIndexes, task, build, chain, history
<1>2. /\ TypeOK /\ SerialTypes /\ OneAtATime /\ SubmittedOnce
      /\ Height \in Nat /\ gaveUp \in Nat /\ indexed \in Nat /\ clearedAt \in 0 .. indexed
  BY <1>1, Bounds DEF SerialInv, SerialTypes, TypeOK
<1>3. SerialTypes'
  <2>1. indexed' \in 0 .. Height /\ clearedAt \in 0 .. indexed'
    BY <1>1, <1>2
  <2>2. TypeOK'
    BY <2>1, <1>1, <1>2 DEF TypeOK, cache, Height
  <2> QED
    BY <2>2, <1>1, <1>2 DEF SerialTypes, cache
<1>4. OneAtATime' /\ SubmittedOnce'
  BY <1>1, <1>2 DEF OneAtATime, Queued, SubmittedOnce
<1>5. BuiltFit'
  <2>1. /\ gaveUp' \in Nat /\ gaveUp <= gaveUp' /\ Len(ledger') \in Nat /\ Height <= Len(ledger')
        /\ \A i \in 1 .. Height : ledger'[i] = ledger[i]
    BY <1>1, <1>2 DEF Height
  <2> QED
    BY <2>1, <1>1, BuiltStays
<1>6. Resetting' <=> Resetting
  BY <1>1 DEF Resetting
<1>7. indexed <= indexed' /\ waitFor' = waitFor /\ pc' = pc /\ queue' = queue /\ userCall' = userCall
  BY <1>1, <1>2
<1> QED
  BY <1>1, <1>3, <1>4, <1>5, <1>6, <1>7, QuietSerial

----------------------------------------------------------------------------
(* Effects and failures. *)

(* The effects of the newest transaction of the executor enter the caches. *)
LEMMA EffectsArriveSerial ==
  ASSUME SerialInv, NEW t \in Tx, EffectsArrive(t)
  PROVE  SerialInv'
<1>1. PICK h \in 1 .. Height :
        ledger[h].by = t /\ Remember(h) /\ answered' = answered \cup {h}
  BY DEF EffectsArrive
<1>2. /\ pc[t] = "submit" /\ Head(queue) = t /\ Leave(t)
      /\ UNCHANGED <<userCall, ledger, inFlight, indexed, gaveUp, clearedAt>>
  BY DEF EffectsArrive, Runs, chain
<1>3. /\ ownedCache' = [o \in Object |-> IF Moved(h, o) THEN h
                          ELSE IF ledger[h].changed[o] = "gone" THEN None ELSE ownedCache[o]]
      /\ fixedCache' = [o \in Object |-> IF ledger[h].changed[o] = "fixed" THEN h
                          ELSE IF ledger[h].changed[o] = "gone" THEN None ELSE fixedCache[o]]
      /\ gasCoin' = Ref(ledger[h].gas, h)
      /\ lastDigest' = h
  BY <1>1 DEF Remember, ApplyChanges, Moved
<1>4. /\ SerialTypes /\ OneAtATime /\ ChainRules /\ SubmittedOnce /\ OwnedCacheFresh
      /\ FixedCacheFinal /\ DigestsAnswered /\ MissesShown
      /\ Height \in Nat /\ DOMAIN ledger = 1 .. Height /\ answered \subseteq 1 .. Height
      /\ clearedAt \in Nat /\ TypeOK
  BY Bounds DEF SerialInv, SerialTypes
<1>5. h > clearedAt /\ \A a \in answered : a < h
  BY <1>1, <1>2, <1>4 DEF SubmittedOnce
<1>19. answered' \subseteq 1 .. Height /\ \A a \in answered' : a <= h
  BY <1>1, <1>4, <1>5
<1>6. ledger[h].gas \in Coin /\ Moved(h, ledger[h].gas)
  BY <1>1, <1>4, SerialAssumption DEF ChainRules
<1>7. /\ OneAtATime'
      /\ queue' \in Seq(Tx) /\ pc' \in [Tx -> Awaits] /\ uses' \in [Tx -> SUBSET Object]
      /\ inputs' \in [Object -> Nat \cup {None}] /\ payment' = {} /\ waitFor' = 0
      /\ SubmittedOnce' /\ BuiltFit' /\ \A u \in Tx : pc'[u] # "reset"
  BY <1>2, <1>4, LeaveOne, LeaveKeeps
<1>8. gasCoin' \in CoinRefs /\ gasCoin'.id = ledger[h].gas /\ gasCoin'.version = h /\ gasCoin' # None
  BY <1>3, <1>6, SerialAssumption DEF Ref, CoinRefs
<1>9. Height' = Height
  BY <1>2 DEF Height
<1>10. SerialTypes'
  <2>1. ownedCache' \in [Object -> Nat \cup {None}] /\ fixedCache' \in [Object -> Nat \cup {None}]
    BY <1>3, <1>4 DEF TypeOK
  <2>2. gasCoin' \in Refs
    BY <1>8, SerialAssumption DEF CoinRefs, Refs
  <2>3. answered' \subseteq 1 .. Height' /\ lastDigest' \in 0 .. Height' /\ waitFor' \in 0 .. Height'
    BY <1>3, <1>4, <1>7, <1>9, <1>19
  <2>4. TypeOK'
    BY <2>1, <2>2, <2>3, <1>2, <1>4, <1>7, <1>9 DEF TypeOK
  <2> QED
    BY <2>4, <1>2, <1>4, <1>7, <1>8 DEF SerialTypes
<1>11. ChainRules'
  BY <1>2, <1>4 DEF ChainRules, Moved
<1>12. OwnedCacheFresh'
  <2> SUFFICES ASSUME NEW o \in Object, ownedCache'[o] # None
               PROVE  /\ ownedCache'[o] \in Touches(o, Height)
                      /\ ownedCache'[o] > clearedAt
                      /\ \A a \in answered' : Moved(a, o) => a <= ownedCache'[o]
    BY <1>2, <1>9 DEF OwnedCacheFresh, Touches, Moved
  <2>1. CASE Moved(h, o)
    <3>1. ownedCache'[o] = h
      BY <2>1, <1>3
    <3>2. h \in Touches(o, Height)
      BY <2>1 DEF Touches, Moved
    <3> QED
      BY <3>1, <3>2, <1>5, <1>19
  <2>2. CASE ~Moved(h, o)
    <3>1. ownedCache'[o] = ownedCache[o]
      BY <2>2, <1>3
    <3> QED
      BY <2>2, <3>1, <1>1, <1>4 DEF OwnedCacheFresh
  <2> QED
    BY <2>1, <2>2
<1>13. FixedCacheFinal'
  BY <1>2, <1>3, <1>4 DEF FixedCacheFinal
<1>14. GasCoinFresh'
  <2>1. gasCoin'.version \in Touches(gasCoin'.id, Height)
    BY <1>6, <1>8 DEF Touches, Moved
  <2>2. \A a \in answered' : a <= gasCoin'.version
    BY <1>8, <1>19
  <2> QED
    BY <2>1, <2>2, <1>2, <1>5, <1>8, <1>9 DEF GasCoinFresh, Touches
<1>15. DigestsAnswered'
  <2>1. {lastDigest', gaveUp', waitFor'} \subseteq answered' \cup {0}
    BY <1>1, <1>2, <1>3, <1>4, <1>7 DEF DigestsAnswered
  <2>2. userCall' # None => userCall'.digest \in answered'
    BY <1>1, <1>2, <1>4 DEF DigestsAnswered
  <2>3. lastDigest' # 0
    <3>1. h # 0
      BY <1>4
    <3> QED
      BY <3>1, <1>3
  <2>4. \A a \in answered' : a <= lastDigest'
    BY <1>3, <1>19
  <2> QED
    BY <2>1, <2>2, <2>3, <2>4 DEF DigestsAnswered
<1>16. ~Resetting /\ ~Resetting'
  BY <1>2, NoResetNow DEF Resetting
<1>17. WaitsCover'
  BY <1>7, <1>16 DEF WaitsCover
<1>18. MissesShown'
  <2> SUFFICES ASSUME NEW o \in Object, NEW a \in answered', ownedCache'[o] = None, SaysLast(a, o)'
               PROVE  Shown(a)
    BY <1>2 DEF MissesShown, Shown
  <2>1. /\ Moved(a, o) /\ \A b \in answered' : b > a => ledger[b].changed[o] = "untouched"
    BY <1>2 DEF SaysLast, Moved
  <2>2. ~Moved(h, o)
    BY <1>3, <1>4, SerialAssumption
  <2>3. a \in answered /\ a < h /\ a # h /\ h > a
    BY <2>1, <2>2, <1>1, <1>4, <1>5
  <2>4. ledger[h].changed[o] = "untouched"
    BY <2>1, <2>3, <1>1
  <2>5. ownedCache[o] = None
    BY <2>2, <2>4, <1>3
  <2>6. SaysLast(a, o)
    BY <2>1, <2>3, <1>1 DEF SaysLast
  <2>7. \A u \in Tx : pc[u] # "reset"
    BY <1>2, <1>4, HeadOfQueue DEF Busy
  <2> QED
    BY <2>3, <2>5, <2>6, <2>7, <1>4, <1>16 DEF MissesShown
<1> QED
  BY <1>7, <1>10, <1>11, <1>12, <1>13, <1>14, <1>15, <1>17, <1>18 DEF SerialInv

(* An empty cache misleads nobody. *)
LEMMA ClearKeeps ==
  ASSUME ChainRules, FixedCacheFinal, ClearCache, UNCHANGED <<ledger, answered>>
  PROVE  /\ ChainRules' /\ OwnedCacheFresh' /\ FixedCacheFinal' /\ GasCoinFresh'
         /\ ownedCache' = [o \in Object |-> None] /\ gasCoin' = None
         /\ fixedCache' = fixedCache /\ clearedAt' = indexed
<1>1. /\ ownedCache' = [o \in Object |-> None] /\ gasCoin' = None
      /\ fixedCache' = fixedCache /\ clearedAt' = indexed
  BY DEF ClearCache
<1>2. ChainRules'
  BY DEF ChainRules, Moved
<1>3. OwnedCacheFresh' /\ FixedCacheFinal' /\ GasCoinFresh'
  BY <1>1 DEF OwnedCacheFresh, FixedCacheFinal, GasCoinFresh
<1> QED
  BY <1>1, <1>2, <1>3

(* The caches are cleared, and the wait for the last digest covers every   *)
(* answer the node may not show.                                           *)
LEMMA SubmitFailsSerial ==
  ASSUME SerialInv, NEW t \in Tx, SubmitFails(t)
  PROVE  SerialInv'
<1>1. /\ pc[t] = "submit" /\ Head(queue) = t /\ ClearCache
      /\ UNCHANGED <<lastDigest, userCall, ledger, inFlight, indexed, answered, gaveUp>>
  BY DEF SubmitFails, Runs, chain
<1>2. /\ SerialTypes /\ OneAtATime /\ ChainRules /\ SubmittedOnce /\ FixedCacheFinal /\ DigestsAnswered
      /\ TypeOK /\ indexed \in 0 .. Height /\ Height \in Nat /\ lastDigest \in 0 .. Height
  BY Bounds DEF SerialInv, SerialTypes
<1>3. /\ ChainRules' /\ OwnedCacheFresh' /\ FixedCacheFinal' /\ GasCoinFresh'
      /\ ownedCache' = [o \in Object |-> None] /\ gasCoin' = None
      /\ fixedCache' = fixedCache /\ clearedAt' = indexed
  BY <1>1, <1>2, ClearKeeps
<1>4. ~Resetting /\ ~Resetting'
  BY <1>1, NoResetNow DEF Resetting
<1>5. Height' = Height /\ clearedAt' \in 0 .. indexed' /\ ownedCache' \in [Object -> Nat \cup {None}]
  BY <1>1, <1>2, <1>3 DEF Height
<1>6. CASE lastDigest = 0
  <2>1. Leave(t)
    BY <1>6 DEF SubmitFails
  <2>2. /\ OneAtATime'
        /\ queue' \in Seq(Tx) /\ pc' \in [Tx -> Awaits] /\ uses' \in [Tx -> SUBSET Object]
        /\ inputs' \in [Object -> Nat \cup {None}] /\ payment' = {} /\ waitFor' = 0
        /\ SubmittedOnce' /\ BuiltFit' /\ \A u \in Tx : pc'[u] # "reset"
    BY <2>1, <1>1, <1>2, LeaveOne, LeaveKeeps
  <2>3. SerialTypes'
    <3>1. TypeOK'
      BY <2>2, <1>1, <1>2, <1>3, <1>5 DEF TypeOK
    <3> QED
      BY <3>1, <2>2, <1>1, <1>2, <1>3 DEF SerialTypes
  <2>4. DigestsAnswered'
    BY <2>2, <1>1, <1>2 DEF DigestsAnswered, Shown
  <2>5. WaitsCover'
    BY <2>2, <1>4 DEF WaitsCover
  <2>6. MissesShown'
    BY <1>1, <1>2, <1>6 DEF MissesShown, DigestsAnswered, Shown
  <2> QED
    BY <2>2, <2>3, <2>4, <2>5, <2>6, <1>3 DEF SerialInv
<1>7. CASE lastDigest # 0
  <2>1. waitFor' = lastDigest /\ GoTo(t, "reset") /\ UNCHANGED <<inputs, payment>>
    BY <1>7 DEF SubmitFails
  <2>2. /\ OneAtATime'
        /\ queue' \in Seq(Tx) /\ pc' \in [Tx -> Awaits] /\ uses' \in [Tx -> SUBSET Object]
        /\ uses' = uses /\ pc'[t] = "reset"
        /\ \A u \in Tx : u # t => pc'[u] = pc[u] /\ pc[u] \notin Busy
    <3>1. "reset" \in Busy /\ pc[t] \notin {"none", "done"}
      BY <1>1 DEF Busy
    <3> QED
      BY <3>1, <2>1, <1>1, <1>2, GoToOne
  <2>3. SerialTypes'
    <3>1. TypeOK'
      BY <2>1, <2>2, <1>1, <1>2, <1>3, <1>5 DEF TypeOK
    <3> QED
      BY <3>1, <2>1, <1>1, <1>2, <1>3 DEF SerialTypes
  <2>4. \A u \in Tx : /\ pc'[u] \notin {"resolve", "pay", "sign", "submit"}
                      /\ pc[u] \in {"submit", "reset", "done"} => pc'[u] \in {"reset", "done"}
    BY <2>2 DEF Busy
  <2>5. BuiltFit'
    BY <2>4 DEF BuiltFit
  <2>6. SubmittedOnce'
    <3>1. \A tx \in inFlight : tx.by \in Tx
      BY <1>2 DEF TypeOK, Submissions
    <3>2. \A u \in Tx : pc[u] \in {"submit", "reset", "done"} => pc'[u] \in {"submit", "reset", "done"} /\ pc'[u] # "submit"
      BY <2>4
    <3> QED
      BY <3>1, <3>2, <1>1, <1>2 DEF SubmittedOnce
  <2>7. DigestsAnswered'
    BY <2>1, <1>1, <1>2 DEF DigestsAnswered, Shown
  <2>8. WaitsCover'
    <3>1. \A a \in answered' : a <= waitFor'
      BY <2>1, <1>1, <1>2, <1>7 DEF DigestsAnswered
    <3> QED
      BY <3>1, <1>4 DEF WaitsCover
  <2>9. MissesShown'
    BY <2>2 DEF MissesShown
  <2> QED
    BY <2>2, <2>3, <2>5, <2>6, <2>7, <2>8, <2>9, <1>3 DEF SerialInv
<1> QED
  BY <1>6, <1>7

----------------------------------------------------------------------------
(* Resets and waits. *)

(* resetCache clears and waits the same way. *)
LEMMA ResetCacheSerial ==
  ASSUME SerialInv, ResetCache
  PROVE  SerialInv'
<1>1. /\ userCall = None /\ queue = <<>> /\ ClearCache
      /\ userCall' = IF lastDigest = 0 THEN None ELSE [digest |-> lastDigest, reset |-> TRUE]
      /\ UNCHANGED <<queue, pc, uses, inputs, payment, waitFor, lastDigest, ledger, inFlight,
                     indexed, answered, gaveUp>>
  BY DEF ResetCache, task, build, chain
<1>2. /\ SerialTypes /\ OneAtATime /\ ChainRules /\ SubmittedOnce /\ FixedCacheFinal /\ DigestsAnswered
      /\ TypeOK /\ indexed \in 0 .. Height /\ Height \in Nat /\ lastDigest \in 0 .. Height
  BY Bounds DEF SerialInv, SerialTypes
<1>3. /\ ChainRules' /\ OwnedCacheFresh' /\ FixedCacheFinal' /\ GasCoinFresh'
      /\ ownedCache' = [o \in Object |-> None] /\ gasCoin' = None
      /\ fixedCache' = fixedCache /\ clearedAt' = indexed
  BY <1>1, <1>2, ClearKeeps
<1>4. \A u \in Tx : pc[u] \in {"none", "done"}
  BY <1>1, <1>2, HeadOfQueue
<1>5. SerialTypes'
  <2>1. userCall' \in [digest : 1 .. Height, reset : BOOLEAN] \cup {None}
    BY <1>1, <1>2
  <2>2. Height' = Height /\ clearedAt' \in 0 .. indexed' /\ ownedCache' \in [Object -> Nat \cup {None}]
    BY <1>1, <1>2, <1>3 DEF Height
  <2>3. TypeOK'
    BY <2>1, <2>2, <1>1, <1>2, <1>3 DEF TypeOK
  <2> QED
    BY <2>3, <1>1, <1>2, <1>3 DEF SerialTypes
<1>6. OneAtATime'
  BY <1>1, <1>2 DEF OneAtATime, Queued
<1>7. SubmittedOnce'
  <2>1. \A tx \in inFlight : tx.by \in Tx
    BY <1>2 DEF TypeOK, Submissions
  <2> QED
    BY <2>1, <1>1, <1>2, <1>4 DEF SubmittedOnce
<1>8. BuiltFit'
  BY <1>1, <1>4 DEF BuiltFit
<1>9. DigestsAnswered'
  BY <1>1, <1>2 DEF DigestsAnswered, Shown
<1>10. \A a \in answered' : IF lastDigest = 0 THEN Shown(a)' ELSE a <= userCall'.digest
  BY <1>1, <1>2 DEF DigestsAnswered, Shown
<1>11. ASSUME lastDigest # 0  PROVE Resetting'
  <2>1. userCall' = [digest |-> lastDigest, reset |-> TRUE] /\ lastDigest \in Nat
    BY <1>11, <1>1, <1>2
  <2>2. userCall' \in [digest : Nat, reset : BOOLEAN]
    BY <2>1
  <2>3. userCall' # None
    BY <2>2, SerialAssumption
  <2>4. userCall'.reset = TRUE
    BY <2>1
  <2> QED
    BY <2>3, <2>4 DEF Resetting
<1>12. lastDigest = 0 => ~Resetting'
  BY <1>1 DEF Resetting
<1>13. WaitsCover'
  BY <1>1, <1>4, <1>10, <1>12 DEF WaitsCover
<1>14. MissesShown'
  BY <1>10, <1>11 DEF MissesShown
<1> QED
  BY <1>3, <1>5, <1>6, <1>7, <1>8, <1>9, <1>13, <1>14 DEF SerialInv

(* A wait that ends covers every answer up to the one it waited for.       *)
LEMMA SeenCovers ==
  ASSUME SerialInv, LastTransactionSeen, UNCHANGED <<answered, indexed>>
  PROVE  /\ gaveUp' \in answered \cup {0} /\ gaveUp' \in Nat /\ gaveUp <= gaveUp' /\ lastDigest' = 0
         /\ \A a \in answered : a <= indexed' \/ a <= gaveUp'
<1>1. /\ Height \in Nat /\ {lastDigest, indexed, gaveUp} \subseteq 0 .. Height
      /\ answered \subseteq 1 .. Height /\ DigestsAnswered
  BY Bounds DEF SerialInv, SerialTypes
<1>2. /\ lastDigest' = 0 /\ gaveUp' = IF lastDigest > indexed THEN lastDigest ELSE gaveUp
  BY DEF LastTransactionSeen
<1>3. gaveUp' \in answered \cup {0} /\ gaveUp' \in Nat
  BY <1>1, <1>2 DEF DigestsAnswered
<1>4. lastDigest # 0 => gaveUp <= lastDigest
  BY <1>1 DEF DigestsAnswered
<1>5. gaveUp <= gaveUp'
  BY <1>1, <1>2, <1>4
<1>6. ASSUME NEW a \in answered  PROVE a <= indexed \/ a <= gaveUp'
  <2>1. IF lastDigest = 0 THEN a <= indexed \/ a <= gaveUp ELSE a <= lastDigest
    BY <1>1 DEF DigestsAnswered, Shown
  <2> QED
    BY <2>1, <1>1, <1>2
<1> QED
  BY <1>2, <1>3, <1>5, <1>6

(* A wait that times out gives up on all it covered. *)
LEMMA GivenUpCovers ==
  ASSUME SerialInv, NEW w \in answered \cup {0}, gaveUp' = Max({gaveUp, w})
  PROVE  gaveUp' \in answered \cup {0} /\ gaveUp' \in Nat /\ gaveUp <= gaveUp' /\ w <= gaveUp'
<1>1. /\ gaveUp \in Nat /\ answered \subseteq Nat /\ DigestsAnswered
  BY Bounds DEF SerialInv, SerialTypes
<1>2. w \in Nat
  BY <1>1
<1>3. gaveUp' \in {gaveUp, w} /\ gaveUp <= gaveUp' /\ w <= gaveUp'
  BY <1>1, <1>2, MaxOfTwo
<1> QED
  BY <1>1, <1>2, <1>3 DEF DigestsAnswered

(* The wait after a failed submission ends, and the next task may build. *)
LEMMA ResetEndsSerial ==
  ASSUME SerialInv, NEW t \in Tx, ResetEnds(t)
  PROVE  SerialInv'
<1>1. /\ pc[t] = "reset" /\ Head(queue) = t /\ Leave(t)
      /\ \/ indexed >= waitFor /\ LastTransactionSeen
         \/ UNCHANGED lastDigest /\ gaveUp' = Max({gaveUp, waitFor})
      /\ UNCHANGED <<cache, userCall, ledger, inFlight, indexed, answered, clearedAt>>
  BY DEF ResetEnds, Runs, chain
<1>2. /\ SerialTypes /\ OneAtATime /\ SubmittedOnce /\ DigestsAnswered /\ WaitsCover /\ TypeOK
      /\ Height \in Nat /\ {lastDigest, indexed, gaveUp, waitFor} \subseteq 0 .. Height
      /\ answered \subseteq 1 .. Height
  BY Bounds DEF SerialInv, SerialTypes
<1>3. /\ OneAtATime'
      /\ queue' \in Seq(Tx) /\ pc' \in [Tx -> Awaits] /\ uses' \in [Tx -> SUBSET Object]
      /\ inputs' \in [Object -> Nat \cup {None}] /\ payment' = {} /\ waitFor' = 0
      /\ SubmittedOnce' /\ BuiltFit' /\ \A u \in Tx : pc'[u] # "reset"
  BY <1>1, <1>2, LeaveOne, LeaveKeeps
<1>4. /\ gaveUp' \in answered \cup {0} /\ lastDigest' \in {lastDigest, 0}
      /\ \A a \in answered : a <= indexed' \/ a <= gaveUp'
  <2>1. CASE LastTransactionSeen
    BY <2>1, <1>1, SeenCovers
  <2>2. CASE UNCHANGED lastDigest /\ gaveUp' = Max({gaveUp, waitFor})
    <3>1. waitFor \in answered \cup {0}
      BY <1>2 DEF DigestsAnswered
    <3>2. gaveUp' \in answered \cup {0} /\ gaveUp' \in Nat /\ gaveUp <= gaveUp' /\ waitFor <= gaveUp'
      BY <2>2, <3>1, GivenUpCovers
    <3>3. ASSUME NEW a \in answered  PROVE a <= indexed' \/ a <= gaveUp'
      <4>1. a <= waitFor \/ a <= indexed \/ a <= gaveUp
        BY <1>1, <1>2 DEF WaitsCover, Shown
      <4>2. a \in Nat /\ waitFor \in Nat /\ gaveUp \in Nat /\ indexed' = indexed
        BY <1>1, <1>2
      <4> QED
        BY <4>1, <4>2, <3>2
    <3> QED
      BY <2>2, <3>2, <3>3
  <2> QED
    BY <2>1, <2>2, <1>1
<1>5. SerialTypes'
  <2>1. Height' = Height /\ gaveUp' \in 0 .. Height /\ lastDigest' \in 0 .. Height /\ waitFor' \in 0 .. Height
    BY <1>1, <1>2, <1>3, <1>4 DEF Height
  <2>2. TypeOK'
    BY <2>1, <1>1, <1>2, <1>3 DEF TypeOK, cache
  <2> QED
    BY <2>2, <1>1, <1>2, <1>3 DEF SerialTypes, cache
<1>6. ChainRules' /\ OwnedCacheFresh' /\ FixedCacheFinal' /\ GasCoinFresh'
  BY <1>1, CachesKept DEF SerialInv
<1>7. DigestsAnswered'
  <2>1. {lastDigest', gaveUp', waitFor'} \subseteq answered' \cup {0}
    BY <1>1, <1>2, <1>3, <1>4 DEF DigestsAnswered
  <2>2. userCall' # None => userCall'.digest \in answered'
    BY <1>1, <1>2 DEF DigestsAnswered
  <2>3. \A a \in answered' : lastDigest' # 0 => a <= lastDigest'
    BY <1>1, <1>2, <1>4 DEF DigestsAnswered
  <2> QED
    BY <2>1, <2>2, <2>3, <1>1, <1>4 DEF DigestsAnswered, Shown
<1>8. ~Resetting'
  BY <1>1, NoResetNow DEF Resetting
<1>9. WaitsCover'
  BY <1>3, <1>8 DEF WaitsCover
<1>10. MissesShown'
  BY <1>1, <1>4 DEF MissesShown, Shown
<1> QED
  BY <1>3, <1>5, <1>6, <1>7, <1>9, <1>10 DEF SerialInv

(* A caller's wait ends, maybe while a task builds or waits itself. *)
LEMMA UserCallEndsSerial ==
  ASSUME SerialInv, UserCallEnds
  PROVE  SerialInv'
<1>1. /\ userCall # None /\ userCall' = None
      /\ \/ indexed >= userCall.digest /\ LastTransactionSeen
         \/ /\ UNCHANGED lastDigest
            /\ gaveUp' = IF userCall.reset THEN Max({gaveUp, userCall.digest}) ELSE gaveUp
      /\ UNCHANGED <<queue, pc, uses, inputs, payment, waitFor, cache, ledger, inFlight, indexed,
                     answered, clearedAt>>
  BY DEF UserCallEnds, task, build, chain
<1>2. /\ SerialTypes /\ OneAtATime /\ SubmittedOnce /\ DigestsAnswered /\ WaitsCover /\ MissesShown
      /\ TypeOK /\ Height \in Nat /\ {lastDigest, indexed, gaveUp, waitFor} \subseteq 0 .. Height
      /\ answered \subseteq 1 .. Height
  BY Bounds DEF SerialInv, SerialTypes
<1>3. userCall.digest \in answered
  BY <1>1, <1>2 DEF DigestsAnswered
<1>4. /\ gaveUp' \in answered \cup {0} /\ gaveUp' \in Nat /\ gaveUp <= gaveUp'
      /\ lastDigest' \in {lastDigest, 0}
      /\ Resetting => \A a \in answered : a <= indexed' \/ a <= gaveUp'
      /\ lastDigest' = 0 => \A a \in answered : a <= indexed' \/ a <= gaveUp'
  <2>1. CASE LastTransactionSeen
    BY <2>1, <1>1, SeenCovers
  <2>2. CASE UNCHANGED lastDigest /\ userCall.reset /\ gaveUp' = Max({gaveUp, userCall.digest})
    <3>1. /\ gaveUp' \in answered \cup {0} /\ gaveUp' \in Nat /\ gaveUp <= gaveUp'
          /\ userCall.digest <= gaveUp'
      BY <2>2, <1>3, GivenUpCovers
    <3>2. ASSUME NEW a \in answered  PROVE a <= indexed' \/ a <= gaveUp'
      <4>1. a <= userCall.digest \/ a <= indexed \/ a <= gaveUp
        BY <2>2, <1>1, <1>2 DEF WaitsCover, Shown, Resetting
      <4>2. answered \subseteq Nat /\ gaveUp \in Nat /\ indexed' = indexed
        BY <1>1, <1>2
      <4>3. a \in Nat /\ userCall.digest \in Nat
        BY <4>2, <1>3
      <4> QED
        BY <4>1, <4>2, <4>3, <3>1
    <3> QED
      BY <2>2, <3>1, <3>2
  <2>3. CASE UNCHANGED lastDigest /\ ~userCall.reset /\ gaveUp' = gaveUp
    <3>1. ~Resetting
      BY <2>3 DEF Resetting
    <3>2. gaveUp \in Nat /\ gaveUp <= gaveUp'
      BY <2>3, <1>2
    <3> QED
      BY <2>3, <3>1, <3>2, <1>1, <1>2 DEF DigestsAnswered, Shown
  <2> QED
    BY <2>1, <2>2, <2>3, <1>1
<1>5. \A a \in answered : Shown(a) => a <= indexed' \/ a <= gaveUp'
  <2>1. \A a \in answered : a \in Nat
    BY <1>2
  <2>2. gaveUp \in Nat /\ indexed' = indexed
    BY <1>1, <1>2
  <2> QED
    BY <2>1, <2>2, <1>4 DEF Shown
<1>6. SerialTypes'
  <2>1. Height' = Height /\ gaveUp' \in 0 .. Height /\ lastDigest' \in 0 .. Height
    BY <1>1, <1>2, <1>4 DEF Height
  <2>2. TypeOK'
    BY <2>1, <1>1, <1>2 DEF TypeOK, cache
  <2> QED
    BY <2>2, <1>1, <1>2 DEF SerialTypes, cache
<1>7. ChainRules' /\ OwnedCacheFresh' /\ FixedCacheFinal' /\ GasCoinFresh'
  BY <1>1, CachesKept DEF SerialInv
<1>8. OneAtATime' /\ SubmittedOnce'
  BY <1>1, <1>2 DEF OneAtATime, Queued, SubmittedOnce
<1>9. BuiltFit'
  <2>1. Len(ledger') \in Nat /\ Height <= Len(ledger') /\ \A i \in 1 .. Height : ledger'[i] = ledger[i]
    BY <1>1, <1>2 DEF Height
  <2> QED
    BY <2>1, <1>1, <1>4, BuiltStays
<1>10. DigestsAnswered'
  <2>1. {lastDigest', gaveUp', waitFor'} \subseteq answered' \cup {0}
    BY <1>1, <1>2, <1>4 DEF DigestsAnswered
  <2>2. \A a \in answered' : lastDigest' # 0 => a <= lastDigest'
    BY <1>1, <1>2, <1>4 DEF DigestsAnswered
  <2> QED
    BY <2>1, <2>2, <1>1, <1>4 DEF DigestsAnswered, Shown
<1>11. WaitsCover'
  <2>1. ~Resetting'
    BY <1>1 DEF Resetting
  <2>2. \A u \in Tx : pc'[u] = "reset" => \A a \in answered' : a <= waitFor' \/ a <= indexed' \/ a <= gaveUp'
    BY <1>1, <1>2, <1>5 DEF WaitsCover
  <2> QED
    BY <2>1, <2>2 DEF WaitsCover, Shown
<1>12. MissesShown'
  <2> SUFFICES ASSUME \A u \in Tx : pc'[u] # "reset", NEW o \in Object, NEW a \in answered',
                      ownedCache'[o] = None, SaysLast(a, o)'
               PROVE  a <= indexed' \/ a <= gaveUp'
    BY DEF MissesShown, Shown
  <2>1. SaysLast(a, o) /\ ownedCache[o] = None /\ a \in answered
    BY <1>1 DEF SaysLast, Moved, cache
  <2>2. CASE Resetting
    BY <2>1, <2>2, <1>4
  <2>3. CASE ~Resetting
    BY <2>1, <2>3, <1>1, <1>2, <1>5 DEF MissesShown
  <2> QED
    BY <2>2, <2>3
<1> QED
  BY <1>6, <1>7, <1>8, <1>9, <1>10, <1>11, <1>12 DEF SerialInv

----------------------------------------------------------------------------
(* The chain. *)

(* An object that became fixed is not touched after it did, so that is the *)
(* last anybody did with it.                                               *)
LEMMA FixedStaysFixed ==
  ASSUME SerialInv, NEW o \in Object, NEW i \in DOMAIN ledger, ledger[i].changed[o] = "fixed"
  PROVE  OwnerAt(o, Height) = "fixed"
<1>1. Height \in Nat /\ DOMAIN ledger = 1 .. Height /\ ChainRules
  BY Bounds DEF SerialInv, SerialTypes
<1>2. i \in Touches(o, Height)
  BY <1>1 DEF Touches
<1> DEFINE v == VersionAt(o, Height)
<1>3. v \in Touches(o, Height) \cup {0} /\ i <= v /\ v \in 0 .. Height
  BY <1>1, <1>2, VersionIsLast
<1> HIDE DEF v
<1>4. v \in DOMAIN ledger /\ ledger[v].changed[o] # "untouched"
  <2>1. v # 0
    BY <1>1, <1>3
  <2> QED
    BY <2>1, <1>1, <1>3 DEF Touches
<1>5. v = i
  BY <1>1, <1>3, <1>4 DEF ChainRules
<1> QED
  BY <1>2, <1>5 DEF OwnerAt, v

(* The chain grows by a transaction that keeps to its rules: everything    *)
(* remembered stays true of the longer chain.                              *)
LEMMA LedgerGrows ==
  ASSUME SerialInv, NEW e \in Executions, ledger' = Append(ledger, e),
         e.by # None => e.gas \in Coin /\ e.changed[e.gas] \in {"mine", "theirs"},
         \A t \in Tx : e.by = t => pc[t] \in {"submit", "reset", "done"},
         \A o \in Object : e.changed[o] # "untouched" => OwnerAt(o, Height) # "fixed",
         inFlight' \subseteq inFlight,
         UNCHANGED <<task, build, cache, lastDigest, userCall, indexed, history>>
  PROVE  SerialInv'
<1> DEFINE n == Height + 1
<1>1. /\ UNCHANGED <<queue, pc, uses, inputs, payment, waitFor, ownedCache, fixedCache, gasCoin,
                     lastDigest, userCall, indexed, answered, gaveUp, clearedAt, cache>>
  BY DEF task, build, cache, history
<1>2. /\ Height \in Nat /\ DOMAIN ledger = 1 .. Height /\ ledger \in Seq(Executions)
      /\ {waitFor, lastDigest, indexed, gaveUp, clearedAt} \subseteq 0 .. Height
      /\ answered \subseteq 1 .. Height
      /\ TypeOK /\ SerialTypes /\ OneAtATime /\ ChainRules /\ SubmittedOnce /\ OwnedCacheFresh
      /\ FixedCacheFinal /\ GasCoinFresh /\ DigestsAnswered /\ WaitsCover /\ MissesShown
  BY Bounds DEF SerialInv, SerialTypes, TypeOK
<1>3. /\ ledger' \in Seq(Executions) /\ Len(ledger') = n /\ DOMAIN ledger' = 1 .. n
      /\ \A i \in 1 .. Height : ledger'[i] = ledger[i]
      /\ ledger'[n] = e
  BY <1>2, AppendProperties, LenProperties DEF Height
<1>4. Height' = n /\ n \in Nat /\ Height <= n
  BY <1>2, <1>3 DEF Height
<1> HIDE DEF n
<1>5. \A i \in 1 .. n : i \in 1 .. Height \/ i = n
  BY <1>2 DEF n
<1>6. \A i \in 1 .. Height : i < n /\ i \in 1 .. n /\ i \in Nat
  BY <1>2 DEF n
<1>7. SerialTypes'
  <2>1. /\ waitFor' \in 0 .. n /\ lastDigest' \in 0 .. n /\ indexed' \in 0 .. n /\ gaveUp' \in 0 .. n
        /\ answered' \subseteq 1 .. n
    BY <1>1, <1>2, <1>4, <1>6
  <2>2. clearedAt' \in 0 .. indexed'
    BY <1>1, <1>2 DEF TypeOK
  <2>3. userCall' \in [digest : 1 .. n, reset : BOOLEAN] \cup {None}
    BY <1>1, <1>2, <1>6 DEF TypeOK
  <2>4. TypeOK'
    BY <2>1, <2>2, <2>3, <1>1, <1>2, <1>3, <1>4 DEF TypeOK
  <2> QED
    BY <2>4, <1>1, <1>2 DEF SerialTypes
<1>8. OneAtATime'
  BY <1>1, <1>2 DEF OneAtATime, Queued
<1>9. ChainRules'
  <2>1. ASSUME NEW h \in 1 .. n, ledger'[h].by # None
        PROVE  ledger'[h].gas \in Coin /\ ledger'[h].changed[ledger'[h].gas] \in {"mine", "theirs"}
    <3>1. CASE h = n
      BY <2>1, <3>1, <1>3
    <3>2. CASE h \in 1 .. Height
      BY <2>1, <3>2, <1>2, <1>3 DEF ChainRules, Moved
    <3> QED
      BY <3>1, <3>2, <1>5
  <2>2. ASSUME NEW i \in 1 .. n, NEW j \in 1 .. n, NEW o \in Object, i < j,
               ledger'[i].changed[o] = "fixed"
        PROVE  ledger'[j].changed[o] = "untouched"
    <3>1. i \in 1 .. Height /\ ledger'[i] = ledger[i]
      BY <2>2, <1>2, <1>3 DEF n
    <3>2. CASE j \in 1 .. Height
      BY <2>2, <3>1, <3>2, <1>2, <1>3 DEF ChainRules
    <3>3. CASE j = n
      <4>1. OwnerAt(o, Height) = "fixed"
        BY <2>2, <3>1, <1>2, FixedStaysFixed
      <4> QED
        BY <4>1, <3>3, <1>3
    <3> QED
      BY <3>2, <3>3, <1>5
  <2> QED
    BY <2>1, <2>2, <1>3 DEF ChainRules, Moved
<1>10. SubmittedOnce'
  <2>1. ASSUME NEW tx \in inFlight'
        PROVE  /\ pc'[tx.by] \in {"submit", "reset", "done"}
               /\ pc'[tx.by] = "submit" =>
                    tx.uses = uses'[tx.by] /\ tx.inputs = inputs' /\ tx.payment = payment'
    BY <1>1, <1>2 DEF SubmittedOnce
  <2>2. ASSUME NEW h \in 1 .. n, NEW t \in Tx, ledger'[h].by = t
        PROVE  /\ pc'[t] \in {"submit", "reset", "done"}
               /\ pc'[t] = "submit" => h > clearedAt' /\ \A a \in answered' : a < h
    <3>1. CASE h = n
      <4>1. \A a \in answered : a < n
        BY <1>2, <1>6
      <4>3. n > clearedAt
        BY <1>2 DEF n
      <4>2. pc[t] \in {"submit", "reset", "done"}
        BY <2>2, <3>1, <1>3
      <4> QED
        BY <3>1, <4>1, <4>2, <4>3, <1>1
    <3>2. CASE h \in 1 .. Height
      BY <2>2, <3>2, <1>1, <1>2, <1>3 DEF SubmittedOnce
    <3> QED
      BY <3>1, <3>2, <1>5
  <2> QED
    BY <2>1, <2>2, <1>3 DEF SubmittedOnce
<1>11. \A o, h : h \in Touches(o, Height) => h \in Touches(o, Height)'
  BY <1>3, <1>4, <1>6 DEF Touches
<1>12. \A a \in answered : \A o : Moved(a, o)' <=> Moved(a, o)
  BY <1>2, <1>3 DEF Moved
<1>13. OwnedCacheFresh'
  BY <1>1, <1>2, <1>11, <1>12 DEF OwnedCacheFresh
<1>14. FixedCacheFinal'
  BY <1>1, <1>2, <1>3, <1>6 DEF FixedCacheFinal
<1>15. GasCoinFresh'
  <2>1. gasCoin # None =>
          gasCoin.version \in {i \in 1 .. n : ledger'[i].changed[gasCoin.id] # "untouched"}
    BY <1>2, <1>3, <1>6 DEF GasCoinFresh, Touches
  <2>2. /\ gasCoin = None => \A o \in Object : ownedCache[o] = None
        /\ gasCoin # None => /\ gasCoin.version > clearedAt
                             /\ \A a \in answered : a <= gasCoin.version
    BY <1>2 DEF GasCoinFresh
  <2> QED
    BY <2>1, <2>2, <1>1, <1>4 DEF GasCoinFresh, Touches
<1>16. DigestsAnswered'
  BY <1>1, <1>2 DEF DigestsAnswered, Shown
<1>17. WaitsCover'
  BY <1>1, <1>2 DEF WaitsCover, Resetting, Shown
<1>18. MissesShown'
  <2> SUFFICES ASSUME \A u \in Tx : pc'[u] # "reset", ~Resetting', NEW o \in Object,
                      NEW a \in answered', ownedCache'[o] = None, SaysLast(a, o)'
               PROVE  Shown(a)'
    BY DEF MissesShown
  <2>1. \A b \in answered : ledger'[b] = ledger[b]
    BY <1>2, <1>3
  <2>2. SaysLast(a, o) /\ ownedCache[o] = None /\ a \in answered
    BY <2>1, <1>1 DEF SaysLast, Moved
  <2>3. ~Resetting /\ \A u \in Tx : pc[u] # "reset"
    BY <1>1 DEF Resetting
  <2> QED
    BY <2>2, <2>3, <1>1, <1>2 DEF MissesShown, Shown
<1>19. BuiltFit'
  <2>1. gaveUp' \in Nat /\ gaveUp <= gaveUp' /\ Len(ledger') \in Nat /\ Height <= Len(ledger')
    BY <1>1, <1>2, <1>3, <1>4
  <2> QED
    BY <2>1, <1>1, <1>3, BuiltStays
<1> QED
  BY <1>7, <1>8, <1>9, <1>10, <1>13, <1>14, <1>15, <1>16, <1>17, <1>18, <1>19 DEF SerialInv

(* A submission is executed: only by its rules does it touch anything. *)
LEMMA ChainExecutesSerial ==
  ASSUME SerialInv, NEW tx \in inFlight, ChainExecutes(tx)
  PROVE  SerialInv'
<1> DEFINE ids == IdsOf(tx.payment)
           Change(gas, gasOwner, owner) ==
             [o \in Object |->
               CASE o = gas -> gasOwner
                 [] o \in ids \ {gas} -> "gone"
                 [] o \in tx.uses /\ OwnerAt(o, Height) = "mine" -> owner
                 [] OTHER -> "untouched"]
<1>1. PICK gas \in ids, gasOwner \in {"mine", "theirs"}, owner \in Owners :
        ledger' = Append(ledger, [by |-> tx.by, gas |-> gas, changed |-> Change(gas, gasOwner, owner)])
  BY DEF ChainExecutes
<1>2. /\ Executable(tx) /\ inFlight' = inFlight \ {tx}
      /\ UNCHANGED <<task, build, cache, lastDigest, userCall, indexed, history>>
  BY DEF ChainExecutes
<1>3. /\ tx.by \in Tx /\ tx.payment \subseteq CoinRefs
      /\ pc[tx.by] \in {"submit", "reset", "done"}
  BY DEF SerialInv, SerialTypes, TypeOK, Submissions, SubmittedOnce
<1>4. ids \subseteq Coin /\ gas \in Coin /\ gas \in Object
  BY <1>3, SerialAssumption DEF IdsOf, CoinRefs
<1>5. ids \cap tx.uses = {}
  BY <1>2 DEF Executable
<1>6. \A o \in ids : OwnerAt(o, Height) = "mine"
  BY <1>2 DEF Executable, IdsOf
<1>7. ASSUME NEW o \in Object
      PROVE  LET c == Change(gas, gasOwner, owner)[o] IN
             /\ c \in Owners \cup {"untouched"}
             /\ o = gas => c = gasOwner
             /\ c # "untouched" => OwnerAt(o, Height) = "mine"
  <2>1. CASE o = gas
    BY <2>1, <1>5, <1>6 DEF Owners
  <2>2. CASE o \in ids \ {gas}
    BY <2>2, <1>5, <1>6 DEF Owners
  <2>3. CASE o \notin ids /\ o # gas
    BY <2>3 DEF Owners
  <2> QED
    BY <2>1, <2>2, <2>3
<1> DEFINE change == Change(gas, gasOwner, owner)
           e == [by |-> tx.by, gas |-> gas, changed |-> change]
<1>8. change \in [Object -> Owners \cup {"untouched"}]
  <2>1. \A o \in Object : change[o] \in Owners \cup {"untouched"}
    BY <1>7
  <2> QED
    BY <2>1
<1>9. /\ change[gas] \in {"mine", "theirs"}
      /\ \A o \in Object : change[o] # "untouched" => OwnerAt(o, Height) # "fixed"
  <2>1. change[gas] = gasOwner
    BY <1>4, <1>7
  <2>2. \A o \in Object : change[o] # "untouched" => OwnerAt(o, Height) = "mine"
    BY <1>7
  <2> QED
    BY <2>1, <2>2
<1>10. ledger' = Append(ledger, e)
  BY <1>1
<1> HIDE DEF change, Change, ids
<1>11. /\ e \in Executions /\ e.by = tx.by /\ e.gas = gas /\ e.changed = change
  BY <1>3, <1>4, <1>8 DEF Executions
<1> HIDE DEF e
<1>12. \A t \in Tx : e.by = t => pc[t] \in {"submit", "reset", "done"}
  BY <1>3, <1>11
<1>13. e.gas \in Coin /\ e.changed[e.gas] \in {"mine", "theirs"}
  BY <1>4, <1>9, <1>11
<1>14. \A o \in Object : e.changed[o] # "untouched" => OwnerAt(o, Height) # "fixed"
  BY <1>9, <1>11
<1> QED
  BY <1>2, <1>10, <1>11, <1>12, <1>13, <1>14, LedgerGrows

(* Somebody else uses an object. *)
LEMMA OthersExecuteSerial ==
  ASSUME SerialInv, NEW o \in Object, OthersExecute(o)
  PROVE  SerialInv'
<1>1. PICK owner \in Owners :
        ledger' = Append(ledger, [by |-> None, gas |-> None, changed |-> [Untouched EXCEPT ![o] = owner]])
  BY DEF OthersExecute
<1>2. /\ OwnerAt(o, Height) # "fixed" /\ inFlight' = inFlight
      /\ UNCHANGED <<task, build, cache, lastDigest, userCall, indexed, history>>
  BY DEF OthersExecute
<1> DEFINE change == [Untouched EXCEPT ![o] = owner]
           e == [by |-> None, gas |-> None, changed |-> change]
<1>3. /\ change \in [Object -> Owners \cup {"untouched"}]
      /\ \A p \in Object : change[p] # "untouched" => p = o
  BY DEF Untouched
<1> HIDE DEF change
<1>4. e \in Executions /\ e.by = None /\ e.changed = change
  BY <1>3 DEF Executions
<1>5. ledger' = Append(ledger, e)
  BY <1>1 DEF change
<1> HIDE DEF e
<1>6. \A p \in Object : e.changed[p] # "untouched" => OwnerAt(p, Height) # "fixed"
  BY <1>2, <1>3, <1>4
<1>7. \A t \in Tx : e.by = t => pc[t] \in {"submit", "reset", "done"}
  BY <1>4, SerialAssumption
<1> QED
  BY <1>2, <1>4, <1>5, <1>6, <1>7, LedgerGrows

----------------------------------------------------------------------------
(* The theorems. *)

(* SerialInv is inductive. *)
LEMMA NextSerial ==
  ASSUME SerialInv, [Next]_vars
  PROVE  SerialInv'
<1>1. ASSUME NEW t \in Tx, RunsOn(t)  PROVE SerialInv'
  BY <1>1, ResolveObjectsSerial, ReadCacheSerial, SetGasPaymentSerial, PrepareFailsSerial,
     SubmitSerial, EffectsArriveSerial, SubmitFailsSerial, ResetEndsSerial DEF RunsOn
<1>2. ASSUME NEW t \in Tx, NEW ids \in InputSets, ExecuteTransaction(t, ids)  PROVE SerialInv'
  BY <1>2, ExecuteTransactionSerial
<1>3. ASSUME NEW tx \in inFlight, ChainExecutes(tx)  PROVE SerialInv'
  BY <1>3, ChainExecutesSerial
<1>4. ASSUME NEW o \in Object, OthersExecute(o)  PROVE SerialInv'
  BY <1>4, OthersExecuteSerial
<1>5. CASE WaitForLastTransaction
  BY <1>5, WaitForLastTransactionSerial
<1>6. CASE ResetCache
  BY <1>6, ResetCacheSerial
<1>7. CASE UserCallEnds
  BY <1>7, UserCallEndsSerial
<1>8. CASE NodeIndexes
  BY <1>8, NodeIndexesSerial
<1>9. CASE UNCHANGED vars
  <2>1. /\ UNCHANGED <<queue, pc, uses, inputs, payment, waitFor, cache, lastDigest, userCall,
                       ledger, inFlight, indexed, answered, gaveUp, clearedAt>>
    BY <1>9 DEF vars, task, build, chain, history
  <2>2. SerialTypes /\ OneAtATime /\ SubmittedOnce /\ BuiltFit /\ TypeOK
    BY DEF SerialInv, SerialTypes
  <2>3. SerialTypes'
    BY <2>1, <2>2 DEF SerialTypes, TypeOK, cache, Height
  <2>4. OneAtATime' /\ SubmittedOnce'
    BY <2>1, <2>2 DEF OneAtATime, Queued, SubmittedOnce
  <2>5. BuiltFit'
    BY <2>1, <2>2 DEF BuiltFit, Cached, Fit, SaysLast, Moved, Touches, Height, cache
  <2>6. Resetting' <=> Resetting
    BY <2>1 DEF Resetting
  <2>7. indexed <= indexed' /\ waitFor' = waitFor
    BY <2>1, <2>2, Bounds
  <2> QED
    BY <2>1, <2>3, <2>4, <2>5, <2>6, <2>7, QuietSerial
<1> QED
  BY <1>1, <1>2, <1>3, <1>4, <1>5, <1>6, <1>7, <1>8, <1>9 DEF Next

(* The inductive invariant of the executor. *)
THEOREM SerialInvariant == Spec => []SerialInv
<1>1. Init => SerialInv
  BY InitSerial
<1>2. SerialInv /\ [Next]_vars => SerialInv'
  BY NextSerial
<1> QED
  BY <1>1, <1>2, PTL DEF Spec

(* Types, for a chain and a queue of any length.                           *)
THEOREM SerialTypesHold == Spec => []TypeOK
<1>1. SerialInv => TypeOK
  BY DEF SerialInv, SerialTypes
<1> QED
  BY <1>1, SerialInvariant, PTL

(* What is built is fit, the payment and the inputs alike.                 *)
LEMMA RefsFit ==
  ASSUME SerialInv, NEW t \in Tx, Built(t), NEW r \in RefsOf(t)
  PROVE  Fit(r.id, r.version) /\ r.version \in Nat
<1>1. /\ \A o \in uses[t] : inputs[o] \in Nat /\ Fit(o, inputs[o])
      /\ \A p \in payment : Fit(p.id, p.version)
      /\ payment \subseteq CoinRefs
  BY DEF SerialInv, BuiltFit, SerialTypes, Built
<1>2. CASE r \in payment
  BY <1>1, <1>2 DEF CoinRefs
<1>3. CASE r \in {Ref(o, inputs[o]) : o \in uses[t]}
  <2>1. PICK o \in uses[t] : r = Ref(o, inputs[o])
    BY <1>3
  <2>2. r.id = o /\ r.version = inputs[o]
    BY <2>1 DEF Ref
  <2> QED
    BY <2>2, <1>1
<1> QED
  BY <1>2, <1>3 DEF RefsOf

(* #buildTransaction never uses a version older than the last answer about *)
(* the object, unless the wait for that answer was given up.               *)
THEOREM NeverBehind == Spec => []NeverBehindAnswers
<1>1. ASSUME SerialInv  PROVE NeverBehindAnswers
  <2> SUFFICES ASSUME NEW t \in Tx, Built(t), NEW r \in RefsOf(t)  PROVE r.version >= Known(r.id)
    BY DEF NeverBehindAnswers
  <2> DEFINE o == r.id
             S == {h \in answered : ledger[h].changed[o] # "untouched"} \cup {0}
             last == Max(S)
  <2>1. Fit(o, r.version) /\ r.version \in Nat
    BY <1>1, RefsFit
  <2>2. Height \in Nat /\ answered \subseteq 1 .. Height /\ gaveUp \in Nat
    BY <1>1, Bounds DEF SerialInv, SerialTypes
  <2>3. last \in S /\ \A y \in S : y <= last
    <3>1. S \in SUBSET (0 .. Height) /\ S # {}
      <4>1. \A h \in answered : h \in 0 .. Height
        BY <2>2
      <4>2. 0 \in 0 .. Height
        BY <2>2
      <4> QED
        BY <4>1, <4>2
    <3> HIDE DEF S
    <3> QED
      BY <2>2, <3>1, MaxOfBounded
  <2>4. Known(o) = IF last > gaveUp /\ ledger[last].changed[o] \in {"mine", "theirs"} THEN last ELSE 0
    BY DEF Known
  <2> HIDE DEF last
  <2>5. ASSUME last > gaveUp, ledger[last].changed[o] \in {"mine", "theirs"}
        PROVE  last <= r.version
    <3>1. last \in answered
      BY <2>2, <2>3, <2>5
    <3>2. \A b \in answered : b > last => ledger[b].changed[o] = "untouched"
      BY <2>2, <2>3, <3>1
    <3>3. SaysLast(last, o)
      BY <2>5, <3>1, <3>2 DEF SaysLast, Moved
    <3>4. last <= gaveUp \/ last <= r.version
      BY <2>1, <3>1, <3>3 DEF Fit
    <3> QED
      BY <2>2, <2>5, <3>1, <3>4
  <2>6. last \in Nat
    BY <2>2, <2>3
  <2> HIDE DEF o
  <2>7. Known(o) <= r.version /\ Known(o) \in Nat
    BY <2>1, <2>4, <2>5, <2>6
  <2>8. r.version >= Known(o)
    BY <2>1, <2>7
  <2> QED
    BY <2>8 DEF o
<1> QED
  BY <1>1, SerialInvariant, PTL

(* After resetCache, or the reset of a failed submission, nothing is built *)
(* from a version older than the node showed when the cache was cleared.   *)
THEOREM ResetsHeal == Spec => []ResetHeals
<1>1. ASSUME SerialInv  PROVE ResetHeals
  <2> SUFFICES ASSUME NEW t \in Tx, Built(t), NEW r \in RefsOf(t)
               PROVE  r.version >= VersionAt(r.id, clearedAt)
    BY DEF ResetHeals
  <2> DEFINE v == VersionAt(r.id, clearedAt)
  <2>1. Fit(r.id, r.version) /\ r.version \in Nat
    BY <1>1, RefsFit
  <2>2. clearedAt \in Nat
    BY <1>1, Bounds DEF SerialInv, SerialTypes
  <2>3. v \in Touches(r.id, clearedAt) \cup {0} /\ v \in 0 .. clearedAt
    BY <2>2, VersionIsLast
  <2>4. \A i \in Touches(r.id, clearedAt) : i <= r.version
    BY <2>1 DEF Fit
  <2> HIDE DEF v
  <2>5. r.version >= v
    BY <2>1, <2>2, <2>3, <2>4
  <2> QED
    BY <2>5 DEF v
<1> QED
  BY <1>1, SerialInvariant, PTL

(* While only the executor touches the objects, every answer arrives and   *)
(* no wait is given up, a fit version is the latest one.                   *)
LEMMA FitIsLatest ==
  ASSUME SerialInv, Alone, NEW o \in Object, OwnerAt(o, Height) = "mine",
         NEW w \in Nat, Fit(o, w)
  PROVE  w = VersionAt(o, Height)
<1> DEFINE v == VersionAt(o, Height)
<1>1. Height \in Nat /\ answered = 1 .. Height /\ gaveUp = 0
  BY Bounds DEF SerialInv, SerialTypes, Alone
<1>2. /\ v \in Touches(o, Height) \cup {0} /\ v \in 0 .. Height
      /\ \A i \in Touches(o, Height) : i <= v
  BY <1>1, VersionIsLast
<1>3. Touches(o, Height) # {} => ledger[v].changed[o] = "mine"
  BY DEF OwnerAt
<1> HIDE DEF v
<1>4. w <= v
  BY <1>1, <1>2 DEF Fit
<1>5. ASSUME v # 0  PROVE v <= w
  <2>1. v \in Touches(o, Height) /\ v \in answered
    BY <1>1, <1>2, <1>5
  <2>2. Moved(v, o)
    BY <2>1, <1>3 DEF Moved
  <2>3. \A b \in answered : b > v => ledger[b].changed[o] = "untouched"
    BY <1>1, <1>2 DEF Touches
  <2>4. SaysLast(v, o)
    BY <2>1, <2>2, <2>3 DEF SaysLast
  <2>5. v <= gaveUp \/ v <= w
    BY <2>1, <2>4 DEF Fit
  <2> QED
    BY <2>5, <1>1, <1>2, <1>5
<1>6. w = v
  BY <1>1, <1>2, <1>4, <1>5
<1> QED
  BY <1>6 DEF v

(* "Executes multiple transactions using the same objects": an executor    *)
(* that is alone with its objects is never refused for stale versions.     *)
THEOREM AloneServed == Spec => []AloneNeverRefused
<1>1. ASSUME SerialInv  PROVE AloneNeverRefused
  <2> SUFFICES ASSUME NEW tx \in inFlight, Alone,
                      \A o \in tx.uses \cup IdsOf(tx.payment) : OwnerAt(o, Height) = "mine",
                      tx.uses \cap IdsOf(tx.payment) = {},
                      pc[tx.by] = "submit"
               PROVE  Executable(tx)
    BY DEF AloneNeverRefused
  <2>1. /\ tx.by \in Tx /\ tx.uses \subseteq Object /\ tx.payment \subseteq CoinRefs
        /\ tx.uses = uses[tx.by] /\ tx.inputs = inputs /\ tx.payment = payment
    BY <1>1 DEF SerialInv, SerialTypes, TypeOK, Submissions, SubmittedOnce
  <2>2. /\ \A o \in tx.uses : tx.inputs[o] \in Nat /\ Fit(o, tx.inputs[o])
        /\ \A r \in tx.payment : Fit(r.id, r.version)
    BY <1>1, <2>1 DEF SerialInv, BuiltFit
  <2>3. ASSUME NEW o \in tx.uses
        PROVE  tx.inputs[o] = VersionAt(o, Height) /\ OwnerAt(o, Height) \in {"mine", "fixed"}
    <3>1. o \in Object /\ OwnerAt(o, Height) = "mine" /\ tx.inputs[o] \in Nat /\ Fit(o, tx.inputs[o])
      BY <2>1, <2>2
    <3> QED
      BY <3>1, <1>1, FitIsLatest
  <2>4. ASSUME NEW r \in tx.payment
        PROVE  r.version = VersionAt(r.id, Height) /\ OwnerAt(r.id, Height) = "mine"
    <3>1. r.id \in IdsOf(tx.payment)
      BY DEF IdsOf
    <3>2. r.id \in Object /\ r.version \in Nat
      BY <2>1, SerialAssumption DEF CoinRefs
    <3>3. OwnerAt(r.id, Height) = "mine" /\ Fit(r.id, r.version)
      BY <3>1, <2>2
    <3> QED
      BY <3>2, <3>3, <1>1, FitIsLatest
  <2> QED
    BY <2>3, <2>4 DEF Executable
<1> QED
  BY <1>1, SerialInvariant, PTL
================================================================================
