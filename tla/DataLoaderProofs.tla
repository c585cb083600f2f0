-------------------------- MODULE DataLoaderProofs --------------------------
(***************************************************************************)
(* What a load of DataLoader is answered with, and how often a key is      *)
(* fetched, for any number of loads, keys and batches.                     *)
(***************************************************************************)
EXTENDS DataLoader, FiniteSetTheorems, SequenceTheorems, TLAPS

Own(c) == follows[c] = c

Members(b) == ToSet(batches[b].keys)

(* A load waits for its own promise, that of an earlier load of its key    *)
(* which was not cleared since, or that of a prime.                        *)
FollowsOwn ==
  \A c \in Call :
    /\ key[c] = None <=> follows[c] = None
    /\ follows[c] \in Call =>
         /\ Own(follows[c])
         /\ key[follows[c]] = key[c]
         /\ floor[c] <= floor[follows[c]]
    /\ follows[c] = Primed => primed[key[c]] >= floor[c]

(* Each load with a promise of its own is in one batch, once.              *)
BatchesApart ==
  /\ \A b \in DOMAIN batches :
       IsInjective(batches[b].keys) /\ \A c \in Members(b) : Own(c)
  /\ \A a, b \in DOMAIN batches : a # b => Members(a) \cap Members(b) = {}

(* Promises are pending until their batch settles, and a batch that is     *)
(* under way was dispatched after its loads.                               *)
BatchesPending ==
  \A b \in DOMAIN batches :
    /\ batches[b].since <= version
    /\ batches[b].state # "settled" => \A c \in Members(b) : outcome[c] = "pending"
    /\ batches[b].state = "dispatched" => \A c \in Members(b) : floor[c] <= batches[b].since

OnlyOwnSettle == \A c \in Call : ~Own(c) => outcome[c] = "pending"

(* What is cached is of the key, is not older than its last clear, and has *)
(* not failed with its batch.                                              *)
CacheFresh ==
  \A k \in Key :
    /\ cacheMap[k] \in Call => /\ Own(cacheMap[k])
                               /\ key[cacheMap[k]] = k
                               /\ floor[cacheMap[k]] >= clearedAt[k]
                               /\ outcome[cacheMap[k]] # "failed"
    /\ cacheMap[k] = Primed => primed[k] >= clearedAt[k]

ValuesFresh == \A c \in Call : outcome[c] = "value" => fetched[c] >= floor[c]

(* The loads that were not answered from the cache: one more than the      *)
(* clears and failures while the key is cached.                            *)
OwnOf(k) == {c \in Call : key[c] = k /\ Own(c)}

FetchedOf(k) ==
  {c \in Call : key[c] = k /\ \E b \in DOMAIN batches :
                  batches[b].state # "scheduled" /\ c \in Members(b)}

OwnCounted ==
  \A k \in Key :
    Cardinality(OwnOf(k)) <= excuses[k] + (IF cacheMap[k] = None THEN 0 ELSE 1)

FetchesCounted == \A k \in Key : fetches[k] = Cardinality(FetchedOf(k))

(* The inductive invariant of the loader. *)
LoaderInv ==
  /\ TypeOK
  /\ FollowsOwn
  /\ BatchesApart
  /\ BatchesPending
  /\ OnlyOwnSettle
  /\ CacheFresh
  /\ ValuesFresh
  /\ OwnCounted
  /\ FetchesCounted

----------------------------------------------------------------------------
(* Sequences and counting.                                                 *)

(* A sequence with one more element. *)
LEMMA AppendMember ==
  ASSUME NEW S, NEW s \in Seq(S), NEW x \in S
  PROVE  /\ Append(s, x) \in Seq(S) /\ Len(Append(s, x)) = Len(s) + 1
         /\ ToSet(Append(s, x)) = ToSet(s) \cup {x}
         /\ IsInjective(s) /\ x \notin ToSet(s) => IsInjective(Append(s, x))
<1> DEFINE r == Append(s, x)
           n == Len(s)
<1>1. n \in Nat /\ DOMAIN s = 1 .. n
  BY LenProperties
<1>2. /\ r \in Seq(S) /\ Len(r) = n + 1
      /\ \A i \in 1 .. n : r[i] = s[i]
      /\ r[n + 1] = x
  BY AppendProperties
<1>3. DOMAIN r = 1 .. n + 1
  BY <1>2, LenProperties
<1> HIDE DEF r, n
<1>4. DOMAIN r = DOMAIN s \cup {n + 1} /\ n + 1 \notin DOMAIN s
  BY <1>1, <1>3
<1>5. \A i \in DOMAIN s : r[i] = s[i]
  BY <1>1, <1>2
<1>6. ToSet(r) = ToSet(s) \cup {x}
  BY <1>2, <1>4, <1>5 DEF ToSet
<1>7. IsInjective(s) /\ x \notin ToSet(s) => IsInjective(r)
  BY <1>2, <1>4, <1>5 DEF IsInjective, ToSet
<1> QED
  BY <1>2, <1>6, <1>7 DEF r, n

(* The fields of a batch. *)
LEMMA BatchFields ==
  ASSUME NEW bs \in Seq(Batches), NEW b \in DOMAIN bs
  PROVE  /\ bs[b] \in Batches
         /\ bs[b].keys \in Seq(Call) /\ bs[b].cacheHits \subseteq Call
         /\ bs[b].state \in {"scheduled", "dispatched", "settled"}
         /\ bs[b].since \in 0 .. MaxVersion
         /\ ToSet(bs[b].keys) \subseteq Call
<1>1. bs[b] \in Batches
  BY LenProperties, ElementOfSeq
<1>2. bs[b].keys \in Seq(Call)
  BY <1>1 DEF Batches
<1>3. ToSet(bs[b].keys) \subseteq Call
  BY <1>2, LenProperties, ElementOfSeq DEF ToSet
<1> QED
  BY <1>1, <1>2, <1>3 DEF Batches

(* There are finitely many loads. *)
LEMMA CallsFinite ==
  \A S \in SUBSET Call : IsFiniteSet(S) /\ Cardinality(S) \in Nat
<1>1. IsFiniteSet(Call)
  BY LoaderAssumption, FS_Interval DEF Call
<1> QED
  BY <1>1, FS_Subset, FS_CardinalityType

(* The constants. *)
LEMMA Constants ==
  /\ Call \subseteq Nat
  /\ None \notin Call /\ Primed \notin Call /\ None # Primed /\ None \notin Key
  /\ MaxBatchSize \in Nat \ {0} /\ MaxVersion \in Nat /\ MaxEdits \in Nat
BY LoaderAssumption DEF Call

(* HowOften counts the calls of a batch that load k. *)
LEMMA HowOftenCounts ==
  ASSUME TypeOK, BatchesApart, NEW b \in DOMAIN batches, NEW k \in Key
  PROVE  HowOften(k, KeysOf(b)) = Cardinality({c \in Members(b) : key[c] = k})
<1> DEFINE s == batches[b].keys
           n == Len(s)
           I == {i \in 1 .. n : key[s[i]] = k}
           T == {c \in Members(b) : key[c] = k}
           f == [i \in I |-> s[i]]
<1>1. s \in Seq(Call)
  BY BatchFields DEF TypeOK
<1>2. n \in Nat /\ DOMAIN s = 1 .. n /\ \A i \in 1 .. n : s[i] \in Call
  BY <1>1, LenProperties, ElementOfSeq
<1>3. IsFiniteSet(I)
  <2>1. IsFiniteSet(1 .. n) /\ I \in SUBSET (1 .. n)
    BY <1>2, FS_Interval
  <2> QED
    BY <2>1, FS_Subset
<1>4. f \in Bijection(I, T)
  <2>1. f \in [I -> T]
    BY <1>2 DEF Members, ToSet
  <2>2. \A i, j \in I : f[i] = f[j] => i = j
    BY <1>2 DEF BatchesApart, IsInjective
  <2>3. \A c \in T : \E i \in I : f[i] = c
    BY <1>2 DEF Members, ToSet
  <2> QED
    BY <2>1, <2>2, <2>3 DEF Bijection, Injection, Surjection, IsInjective
<1>5. Cardinality(T) = Cardinality(I)
  BY <1>3, <1>4, FS_Bijection DEF ExistsBijection
<1>6. {i \in DOMAIN KeysOf(b) : KeysOf(b)[i] = k} = I
  BY <1>2 DEF KeysOf
<1> QED
  BY <1>5, <1>6 DEF HowOften

(* The batches as load sees them: the last one is scheduled and has room.  *)
LEMMA CurrentBatch ==
  ASSUME TypeOK, NEW W, W = WithCurrentBatch
  PROVE  /\ W \in Seq(Batches) /\ Len(W) \in Nat \ {0} /\ DOMAIN W = 1 .. Len(W)
         /\ DOMAIN batches \subseteq DOMAIN W
         /\ \A b \in DOMAIN batches : W[b] = batches[b]
         /\ \A b \in DOMAIN W \ DOMAIN batches : b = Len(W) /\ W[b] = NewBatch
         /\ Last(W) = W[Len(W)]
         /\ IsCurrent(W[Len(W)])
         /\ \A b \in DOMAIN W : Len(W[b].keys) <= MaxBatchSize
<1>1. batches \in Seq(Batches)
  BY DEF TypeOK
<1>2. Len(batches) \in Nat /\ DOMAIN batches = 1 .. Len(batches)
  BY <1>1, LenProperties
<1>3. CASE batches # <<>> /\ IsCurrent(Last(batches))
  <2>1. W = batches /\ Len(W) # 0
    BY <1>1, <1>3, EmptySeq DEF WithCurrentBatch
  <2> QED
    BY <1>1, <1>2, <1>3, <2>1 DEF Last, TypeOK
<1>4. CASE ~(batches # <<>> /\ IsCurrent(Last(batches)))
  <2>1. NewBatch \in Batches
    BY Constants, EmptySeq DEF NewBatch, Batches
  <2>2. W = Append(batches, NewBatch)
    BY <1>4 DEF WithCurrentBatch
  <2>3. /\ W \in Seq(Batches) /\ Len(W) = Len(batches) + 1
        /\ \A b \in 1 .. Len(batches) : W[b] = batches[b]
        /\ W[Len(batches) + 1] = NewBatch
    BY <1>1, <2>1, <2>2, AppendProperties
  <2>4. DOMAIN W = 1 .. Len(W)
    BY <2>3, LenProperties
  <2>5. IsCurrent(NewBatch) /\ Len(NewBatch.keys) <= MaxBatchSize
    BY Constants, EmptySeq DEF IsCurrent, NewBatch
  <2>6. \A b \in DOMAIN W : b \in DOMAIN batches \/ (b = Len(W) /\ W[b] = NewBatch)
    BY <1>2, <2>3, <2>4
  <2>7. \A b \in DOMAIN W : Len(W[b].keys) <= MaxBatchSize
    BY <1>2, <2>3, <2>4, <2>5, <2>6 DEF TypeOK
  <2>8. Last(W) = W[Len(W)] /\ IsCurrent(W[Len(W)])
    BY <1>2, <2>3, <2>5 DEF Last
  <2> QED
    BY <1>2, <2>3, <2>4, <2>6, <2>7, <2>8
<1> QED
  BY <1>3, <1>4

----------------------------------------------------------------------------
(* One lemma for each action.                                              *)

(* load(), from the cache or with a promise of its own. *)
LEMMA LoadKeeps ==
  ASSUME LoaderInv, NEW c \in Call, NEW k \in Key, Load(c, k)
  PROVE  LoaderInv'
<1> DEFINE W == WithCurrentBatch
           n == Len(W)
           hit == [W[n] EXCEPT !.cacheHits = @ \cup {c}]
           own == [W[n] EXCEPT !.keys = Append(@, c)]
<1>0. TypeOK /\ BatchesApart /\ BatchesPending /\ FollowsOwn /\ CacheFresh /\ OnlyOwnSettle
      /\ ValuesFresh /\ OwnCounted /\ FetchesCounted
  BY DEF LoaderInv
<1>1. /\ W \in Seq(Batches) /\ n \in Nat \ {0} /\ DOMAIN W = 1 .. n
      /\ DOMAIN batches \subseteq DOMAIN W
      /\ \A b \in DOMAIN batches : W[b] = batches[b]
      /\ \A b \in DOMAIN W \ DOMAIN batches : b = n /\ W[b] = NewBatch
      /\ Last(W) = W[n]
      /\ IsCurrent(W[n])
      /\ \A b \in DOMAIN W : Len(W[b].keys) <= MaxBatchSize
  BY <1>0, CurrentBatch
<1>2. /\ key[c] = None /\ key' = [key EXCEPT ![c] = k]
      /\ floor' = [floor EXCEPT ![c] = clearedAt[k]]
      /\ UNCHANGED <<released, promises, primed, edits, version, clearedAt, fetches, excuses>>
      /\ \/ /\ cacheMap[k] # None
            /\ batches' = [W EXCEPT ![n] = hit]
            /\ follows' = [follows EXCEPT ![c] = cacheMap[k]]
            /\ UNCHANGED cacheMap
         \/ /\ cacheMap[k] = None
            /\ batches' = [W EXCEPT ![n] = own]
            /\ follows' = [follows EXCEPT ![c] = c]
            /\ cacheMap' = [cacheMap EXCEPT ![k] = c]
  BY <1>1 DEF Load, InCurrentBatch, CachePromise
<1>3. /\ W[n] \in Batches /\ W[n].keys \in Seq(Call) /\ W[n].cacheHits \subseteq Call
      /\ W[n].state = "scheduled" /\ Len(W[n].keys) < MaxBatchSize
  BY <1>1, BatchFields DEF IsCurrent
<1>4. ~Own(c) /\ follows[c] = None /\ outcome[c] = "pending"
  BY <1>0, <1>2, Constants DEF FollowsOwn, OnlyOwnSettle, Own
<1>5. \A b \in DOMAIN batches : c \notin Members(b)
  BY <1>0, <1>4 DEF BatchesApart
<1>6. c \notin ToSet(W[n].keys)
  <2>1. CASE n \in DOMAIN batches
    BY <1>1, <1>5, <2>1 DEF Members
  <2>2. CASE n \notin DOMAIN batches
    BY <1>1, <2>2 DEF NewBatch, ToSet
  <2> QED
    BY <2>1, <2>2
<1>7. hit \in Batches /\ hit.keys = W[n].keys /\ hit.state = W[n].state /\ hit.since = W[n].since
  BY <1>3 DEF Batches
<1>8. /\ own \in Batches /\ own.keys = Append(W[n].keys, c)
      /\ own.state = W[n].state /\ own.since = W[n].since
      /\ Len(own.keys) <= MaxBatchSize
  <2>1. Append(W[n].keys, c) \in Seq(Call) /\ Len(Append(W[n].keys, c)) = Len(W[n].keys) + 1
    BY <1>3, AppendMember
  <2>2. Len(W[n].keys) \in Nat
    BY <1>3, LenProperties
  <2>3. own.keys = Append(W[n].keys, c) /\ own \in Batches
    BY <1>3, <2>1 DEF Batches
  <2>4. own.state = W[n].state /\ own.since = W[n].since
    BY <1>3 DEF Batches
  <2>5. Len(Append(W[n].keys, c)) <= MaxBatchSize
    BY <1>3, <2>1, <2>2, Constants
  <2> QED
    BY <2>3, <2>4, <2>5
<1> HIDE DEF W, n, hit, own
<1>9. /\ batches' \in Seq(Batches) /\ DOMAIN batches' = DOMAIN W
      /\ \A b \in DOMAIN W : b # n => batches'[b] = W[b]
      /\ batches'[n] = IF cacheMap[k] # None THEN hit ELSE own
  BY <1>1, <1>2, <1>7, <1>8, ExceptSeq, LenProperties
<1>10. \A b \in DOMAIN W : batches'[b].state = W[b].state /\ batches'[b].since = W[b].since
  BY <1>1, <1>7, <1>8, <1>9
<1>11. \A b \in DOMAIN batches :
         batches'[b].state = batches[b].state /\ batches'[b].since = batches[b].since
  BY <1>1, <1>10
<1>12. \A b \in DOMAIN batches' \ DOMAIN batches :
         batches'[b].state = "scheduled" /\ batches'[b].since = 0
  BY <1>1, <1>9, <1>10 DEF NewBatch
<1>13. \A b \in DOMAIN batches' \ DOMAIN batches : ToSet(W[b].keys) = {} /\ IsInjective(W[b].keys)
  BY <1>1, <1>9 DEF NewBatch, ToSet, IsInjective
\* the keys of each batch
<1>14. /\ \A b \in DOMAIN batches' : b # n \/ cacheMap[k] # None => batches'[b].keys = W[b].keys
       /\ cacheMap[k] = None => batches'[n].keys = Append(W[n].keys, c)
  BY <1>7, <1>8, <1>9
<1>15. \A b \in DOMAIN batches' :
         /\ b # n \/ cacheMap[k] # None => Members(b)' = ToSet(W[b].keys)
         /\ b = n /\ cacheMap[k] = None => Members(b)' = ToSet(W[b].keys) \cup {c}
         /\ b \in DOMAIN batches => ToSet(W[b].keys) = Members(b)
  <2>1. /\ \A b \in DOMAIN batches' : Members(b)' = ToSet(batches'[b].keys)
        /\ \A b \in DOMAIN batches : ToSet(W[b].keys) = Members(b)
    BY <1>1 DEF Members
  <2>2. ToSet(Append(W[n].keys, c)) = ToSet(W[n].keys) \cup {c}
    BY <1>3, AppendMember
  <2> QED
    BY <1>14, <2>1, <2>2
<1>16. TypeOK'
  <2>1. \A b \in DOMAIN batches' : Len(batches'[b].keys) <= MaxBatchSize
    BY <1>1, <1>7, <1>8, <1>9
  <2>2. /\ clearedAt[k] \in 0 .. version /\ cacheMap[k] \in Call \cup {Primed, None}
    BY <1>0 DEF TypeOK
  <2>3. /\ key' \in [Call -> Key \cup {None}] /\ floor' \in [Call -> 0 .. version]
        /\ follows' \in [Call -> Call \cup {Primed, None}]
        /\ cacheMap' \in [Key -> Call \cup {Primed, None}]
    <3> USE DEF TypeOK
    <3>1. key' \in [Call -> Key \cup {None}]
      BY <1>0, <1>2
    <3>2. floor' \in [Call -> 0 .. version]
      BY <1>0, <1>2, <2>2
    <3>3. follows' \in [Call -> Call \cup {Primed, None}]
      BY <1>0, <1>2, <2>2
    <3>4. cacheMap' \in [Key -> Call \cup {Primed, None}]
      BY <1>0, <1>2
    <3> QED
      BY <3>1, <3>2, <3>3, <3>4
  <2> QED
    BY <1>0, <1>2, <1>9, <2>1, <2>3 DEF TypeOK, promises
<1>17. /\ key'[c] = k /\ floor'[c] = clearedAt[k]
       /\ follows'[c] = IF cacheMap[k] # None THEN cacheMap[k] ELSE c
       /\ \A d \in Call \ {c} : key'[d] = key[d] /\ floor'[d] = floor[d] /\ follows'[d] = follows[d]
       /\ \A j \in Key \ {k} : cacheMap'[j] = cacheMap[j]
       /\ cacheMap'[k] = IF cacheMap[k] # None THEN cacheMap[k] ELSE c
       /\ version' = version /\ outcome' = outcome /\ fetched' = fetched /\ primed' = primed
       /\ clearedAt' = clearedAt /\ fetches' = fetches /\ excuses' = excuses
  BY <1>0, <1>2 DEF TypeOK, promises
<1>18. cacheMap[k] # None => ~(Own(c)')
  BY <1>0, <1>4, <1>17, Constants DEF TypeOK, CacheFresh, Own
<1>19. \A d \in Call \ {c} : Own(d)' <=> Own(d)
  BY <1>17 DEF Own
<1>20. FollowsOwn'
  <2> SUFFICES ASSUME NEW d \in Call
      PROVE /\ key'[d] = None <=> follows'[d] = None
            /\ follows'[d] \in Call =>
                 /\ follows'[follows'[d]] = follows'[d]
                 /\ key'[follows'[d]] = key'[d]
                 /\ floor'[d] <= floor'[follows'[d]]
            /\ follows'[d] = Primed => primed'[key'[d]] >= floor'[d]
    BY DEF FollowsOwn, Own
  <2>1. CASE d = c /\ cacheMap[k] = None
    BY <1>0, <1>17, <2>1, Constants DEF TypeOK, Own
  <2>2. CASE d = c /\ cacheMap[k] # None
    <3>1. follows'[d] = cacheMap[k] /\ key'[d] = k /\ floor'[d] = clearedAt[k] /\ k # None
      BY <1>17, <2>2, Constants
    <3>2. CASE cacheMap[k] \in Call
      <4>1. /\ follows[cacheMap[k]] = cacheMap[k] /\ key[cacheMap[k]] = k
            /\ floor[cacheMap[k]] >= clearedAt[k]
        BY <1>0, <3>2 DEF CacheFresh, Own
      <4>2. cacheMap[k] # c
        BY <1>4, <4>1 DEF Own
      <4>3. clearedAt[k] <= floor[cacheMap[k]]
        <5>1. clearedAt[k] \in 0 .. version
          BY <1>0 DEF TypeOK
        <5>2. floor[cacheMap[k]] \in 0 .. version
          BY <1>0, <3>2 DEF TypeOK
        <5> QED
          BY <4>1, <5>1, <5>2
      <4> QED
        BY <1>17, <3>1, <3>2, <4>1, <4>2, <4>3, Constants
    <3>3. CASE cacheMap[k] \notin Call
      <4>1. cacheMap[k] = Primed
        BY <1>0, <2>2, <3>3 DEF TypeOK
      <4>2. primed[k] >= clearedAt[k]
        BY <1>0, <4>1 DEF CacheFresh
      <4> QED
        BY <1>17, <3>1, <4>1, <4>2, Constants
    <3> QED
      BY <3>2, <3>3
  <2>3. CASE d # c
    <3>1. /\ key[d] = None <=> follows[d] = None
          /\ follows[d] \in Call => /\ follows[follows[d]] = follows[d]
                                    /\ key[follows[d]] = key[d]
                                    /\ floor[d] <= floor[follows[d]]
          /\ follows[d] = Primed => primed[key[d]] >= floor[d]
      BY <1>0 DEF FollowsOwn, Own
    <3>2. follows[d] \in Call => follows[d] # c
      BY <1>4, <3>1 DEF Own
    <3>3. key'[d] = key[d] /\ floor'[d] = floor[d] /\ follows'[d] = follows[d]
      BY <1>17, <2>3
    <3>4. follows[d] \in Call => /\ follows'[follows[d]] = follows[follows[d]]
                                 /\ key'[follows[d]] = key[follows[d]]
                                 /\ floor'[follows[d]] = floor[follows[d]]
      BY <1>17, <3>2
    <3> QED
      BY <1>17, <3>1, <3>3, <3>4
  <2> QED
    BY <2>1, <2>2, <2>3
<1>21. BatchesApart'
  <2>1. \A b \in DOMAIN batches' : IsInjective(batches'[b].keys)
    <3> SUFFICES ASSUME NEW b \in DOMAIN batches'  PROVE IsInjective(batches'[b].keys)
      OBVIOUS
    <3>1. IsInjective(W[b].keys)
      BY <1>0, <1>1, <1>9, <1>13 DEF BatchesApart
    <3>2. IsInjective(W[n].keys) => IsInjective(Append(W[n].keys, c))
      BY <1>3, <1>6, AppendMember
    <3> QED
      BY <1>14, <3>1, <3>2
  <2>2. \A b \in DOMAIN batches' : \A d \in Members(b)' : Own(d)'
    <3> SUFFICES ASSUME NEW b \in DOMAIN batches', NEW d \in Members(b)'  PROVE Own(d)'
      OBVIOUS
    <3>1. CASE d \in ToSet(W[b].keys)
      <4>1. b \in DOMAIN batches /\ d \in Members(b)
        BY <1>13, <1>15, <3>1
      <4> QED
        BY <1>0, <1>5, <1>19, <4>1, BatchFields DEF BatchesApart, TypeOK, Members
    <3>2. CASE d \notin ToSet(W[b].keys)
      BY <1>15, <1>17, <3>2 DEF Own
    <3> QED
      BY <3>1, <3>2
  <2>3. ASSUME NEW a \in DOMAIN batches', NEW b \in DOMAIN batches', a # b
        PROVE  Members(a)' \cap Members(b)' = {}
    <3>1. ToSet(W[a].keys) \cap ToSet(W[b].keys) = {}
      <4>1. CASE a \in DOMAIN batches /\ b \in DOMAIN batches
        BY <1>0, <1>15, <2>3, <4>1 DEF BatchesApart
      <4>2. CASE a \notin DOMAIN batches \/ b \notin DOMAIN batches
        BY <1>13, <2>3, <4>2
      <4> QED
        BY <4>1, <4>2
    <3>2. c \notin ToSet(W[a].keys) /\ c \notin ToSet(W[b].keys)
      BY <1>5, <1>13, <1>15, <2>3
    <3> QED
      BY <1>15, <2>3, <3>1, <3>2
  <2> QED
    BY <2>1, <2>2, <2>3 DEF BatchesApart, Members, Own
<1>22. BatchesPending'
  <2> SUFFICES ASSUME NEW b \in DOMAIN batches'
      PROVE /\ batches'[b].since <= version'
            /\ batches'[b].state # "settled" => \A d \in Members(b)' : outcome'[d] = "pending"
            /\ batches'[b].state = "dispatched" => \A d \in Members(b)' : floor'[d] <= batches'[b].since
    BY DEF BatchesPending, Members
  <2>1. CASE b \in DOMAIN batches
    <3>1. /\ batches[b].since <= version
          /\ batches[b].state # "settled" => \A d \in Members(b) : outcome[d] = "pending"
          /\ batches[b].state = "dispatched" => \A d \in Members(b) : floor[d] <= batches[b].since
      BY <1>0, <2>1 DEF BatchesPending
    <3>2. Members(b)' \subseteq Members(b) \cup {c} /\ Members(b) \subseteq Call /\ c \notin Members(b)
      BY <1>0, <1>5, <1>15, <2>1, BatchFields DEF TypeOK, Members
    <3>3. batches[b].state = "dispatched" => Members(b)' = Members(b)
      BY <1>1, <1>3, <1>15, <2>1
    <3> QED
      BY <1>4, <1>11, <1>17, <2>1, <3>1, <3>2, <3>3
  <2>2. CASE b \notin DOMAIN batches
    <3>1. Members(b)' \subseteq {c}
      BY <1>13, <1>15, <2>2
    <3> QED
      BY <1>0, <1>4, <1>12, <1>17, <2>2, <3>1 DEF TypeOK
  <2> QED
    BY <2>1, <2>2
<1>23. OnlyOwnSettle'
  BY <1>0, <1>4, <1>17, <1>19 DEF OnlyOwnSettle
<1>24. CacheFresh'
  <2> SUFFICES ASSUME NEW j \in Key
      PROVE /\ cacheMap'[j] \in Call => /\ follows'[cacheMap'[j]] = cacheMap'[j]
                                        /\ key'[cacheMap'[j]] = j
                                        /\ floor'[cacheMap'[j]] >= clearedAt'[j]
                                        /\ outcome'[cacheMap'[j]] # "failed"
            /\ cacheMap'[j] = Primed => primed'[j] >= clearedAt'[j]
    BY DEF CacheFresh, Own
  <2>1. CASE j = k /\ cacheMap[k] = None
    BY <1>0, <1>4, <1>17, <2>1, Constants DEF TypeOK, Own
  <2>2. CASE j # k \/ cacheMap[k] # None
    <3>1. cacheMap'[j] = cacheMap[j]
      BY <1>17, <2>2
    <3>2. cacheMap[j] \in Call => cacheMap[j] # c
      BY <1>0, <1>4 DEF CacheFresh
    <3> QED
      BY <1>0, <1>17, <3>1, <3>2 DEF CacheFresh, Own
  <2> QED
    BY <2>1, <2>2
<1>25. ValuesFresh'
  BY <1>0, <1>4, <1>17 DEF ValuesFresh
<1>26. OwnCounted'
  <2> SUFFICES ASSUME NEW j \in Key
      PROVE  Cardinality(OwnOf(j)') <= excuses'[j] + (IF cacheMap'[j] = None THEN 0 ELSE 1)
    BY DEF OwnCounted, OwnOf
  <2>0. Cardinality(OwnOf(j)) <= excuses[j] + (IF cacheMap[j] = None THEN 0 ELSE 1)
    BY <1>0 DEF OwnCounted
  <2>1. CASE j = k /\ cacheMap[k] = None
    <3>1. OwnOf(j)' = OwnOf(j) \cup {c} /\ c \notin OwnOf(j)
      BY <1>4, <1>17, <1>19, <2>1 DEF OwnOf, Own
    <3>2. Cardinality(OwnOf(j)') = Cardinality(OwnOf(j)) + 1
      BY <3>1, CallsFinite, FS_AddElement DEF OwnOf
    <3>3. excuses[j] \in Nat /\ Cardinality(OwnOf(j)) \in Nat
      BY <1>0, CallsFinite DEF TypeOK, OwnOf
    <3> QED
      BY <1>17, <2>0, <2>1, <3>2, <3>3, Constants
  <2>2. CASE j # k \/ cacheMap[k] # None
    <3>1. OwnOf(j)' = OwnOf(j)
      BY <1>4, <1>17, <1>18, <1>19, <2>2 DEF OwnOf
    <3> QED
      BY <1>17, <2>0, <2>2, <3>1
  <2> QED
    BY <2>1, <2>2
<1>27. FetchesCounted'
  <2> SUFFICES ASSUME NEW j \in Key  PROVE fetches'[j] = Cardinality(FetchedOf(j)')
    BY DEF FetchesCounted, FetchedOf, Members
  <2>1. ASSUME NEW b \in DOMAIN batches, batches[b].state # "scheduled"
        PROVE  Members(b)' = Members(b)
    BY <1>1, <1>3, <1>9, <1>15, <2>1
  <2>2. \A b \in DOMAIN batches' : batches'[b].state # "scheduled" => b \in DOMAIN batches
    BY <1>12
  <2>3. \A d \in Call : (\E b \in DOMAIN batches' : batches'[b].state # "scheduled" /\ d \in Members(b)')
                    <=> (\E b \in DOMAIN batches : batches[b].state # "scheduled" /\ d \in Members(b))
    BY <1>1, <1>9, <1>11, <2>1, <2>2
  <2>4. FetchedOf(j)' = {d \in Call : key'[d] = j /\ \E b \in DOMAIN batches' :
                            batches'[b].state # "scheduled" /\ d \in Members(b)'}
    BY DEF FetchedOf, Members
  <2>5. FetchedOf(j)' = FetchedOf(j)
    BY <1>5, <1>17, <2>3, <2>4 DEF FetchedOf
  <2> QED
    BY <1>0, <1>17, <2>5 DEF FetchesCounted
<1> QED
  BY <1>16, <1>20, <1>21, <1>22, <1>23, <1>24, <1>25, <1>26, <1>27 DEF LoaderInv

(* A batch goes to batchLoadFn. *)
LEMMA DispatchBatchKeeps ==
  ASSUME LoaderInv, NEW b \in DOMAIN batches, DispatchBatch(b)
  PROVE  LoaderInv'
<1> DEFINE empty == batches[b].keys = <<>>
           sent == [batches[b] EXCEPT !.state = "dispatched", !.since = version]
           done == [batches[b] EXCEPT !.state = "settled"]
<1>0. TypeOK /\ BatchesApart /\ BatchesPending /\ FollowsOwn /\ CacheFresh /\ OnlyOwnSettle
      /\ ValuesFresh /\ OwnCounted /\ FetchesCounted
  BY DEF LoaderInv
<1>1. batches \in Seq(Batches)
  BY <1>0 DEF TypeOK
<1>2. /\ batches[b] \in Batches /\ batches[b].keys \in Seq(Call)
      /\ batches[b].cacheHits \subseteq Call /\ Members(b) \subseteq Call
  BY <1>1, BatchFields DEF Members
<1>3. version \in 0 .. MaxVersion
  BY <1>0 DEF TypeOK
<1>4. /\ sent \in Batches /\ sent.keys = batches[b].keys
      /\ sent.state = "dispatched" /\ sent.since = version
  BY <1>2, <1>3 DEF Batches
<1>5. /\ done \in Batches /\ done.keys = batches[b].keys
      /\ done.state = "settled" /\ done.since = batches[b].since
  BY <1>2 DEF Batches
<1>6. /\ batches[b].state = "scheduled"
      /\ batches' = [batches EXCEPT ![b] = IF empty THEN done ELSE sent]
      /\ released' = IF empty THEN released \cup batches[b].cacheHits ELSE released
      /\ fetches' = [k \in Key |-> fetches[k] + HowOften(k, KeysOf(b))]
      /\ UNCHANGED <<key, follows, promises, cacheMap, primed, edits, version, floor, clearedAt, excuses>>
  BY DEF DispatchBatch, Settle
<1>7. empty => Members(b) = {}
  BY DEF Members, ToSet
<1> HIDE DEF empty, sent, done
<1>8. /\ batches' \in Seq(Batches) /\ DOMAIN batches' = DOMAIN batches
      /\ \A a \in DOMAIN batches : a # b => batches'[a] = batches[a]
      /\ batches'[b] = IF empty THEN done ELSE sent
  BY <1>1, <1>4, <1>5, <1>6, ExceptSeq, LenProperties
<1>9. /\ \A a \in DOMAIN batches : batches'[a].keys = batches[a].keys
      /\ \A a \in DOMAIN batches : Members(a)' = Members(a)
  BY <1>4, <1>5, <1>8 DEF Members
<1>10. outcome' = outcome /\ fetched' = fetched
  BY <1>6 DEF promises
<1>11. TypeOK'
  <2>1. fetches' \in [Key -> Nat]
    <3>1. ASSUME NEW k \in Key  PROVE fetches[k] + HowOften(k, KeysOf(b)) \in Nat
      <4>1. Cardinality({c \in Members(b) : key[c] = k}) \in Nat
        BY <1>2, CallsFinite
      <4>2. HowOften(k, KeysOf(b)) = Cardinality({c \in Members(b) : key[c] = k})
        BY <1>0, HowOftenCounts
      <4>3. fetches[k] \in Nat
        BY <1>0 DEF TypeOK
      <4> QED
        BY <4>1, <4>2, <4>3
    <3> QED
      BY <1>6, <3>1
  <2>2. released' \subseteq Call
    BY <1>0, <1>2, <1>6 DEF TypeOK
  <2>3. \A a \in DOMAIN batches' : Len(batches'[a].keys) <= MaxBatchSize
    BY <1>0, <1>8, <1>9 DEF TypeOK
  <2> QED
    BY <1>0, <1>6, <1>8, <1>10, <2>1, <2>2, <2>3 DEF TypeOK
<1>12. FollowsOwn'
  BY <1>0, <1>6 DEF FollowsOwn, Own
<1>13. BatchesApart'
  BY <1>0, <1>6, <1>8, <1>9 DEF BatchesApart, Own
<1>14. BatchesPending'
  <2>1. ASSUME NEW c \in Members(b)  PROVE floor[c] <= version
    BY <1>0, <1>2, <1>3 DEF TypeOK
  <2>2. \A a \in DOMAIN batches' :
          /\ batches'[a].since <= version
          /\ batches'[a].state # "settled" => \A c \in Members(a) : outcome[c] = "pending"
          /\ batches'[a].state = "dispatched" => \A c \in Members(a) : floor[c] <= batches'[a].since
    BY <1>0, <1>3, <1>4, <1>5, <1>6, <1>8, <2>1 DEF BatchesPending
  <2> QED
    BY <1>6, <1>8, <1>9, <1>10, <2>2 DEF BatchesPending
<1>15. OnlyOwnSettle' /\ CacheFresh' /\ ValuesFresh' /\ OwnCounted'
  BY <1>0, <1>6, <1>10 DEF OnlyOwnSettle, CacheFresh, ValuesFresh, OwnCounted, OwnOf, Own
<1>16. FetchesCounted'
  <2> SUFFICES ASSUME NEW k \in Key  PROVE fetches'[k] = Cardinality(FetchedOf(k)')
    BY DEF FetchesCounted
  <2> DEFINE T == {c \in Members(b) : key[c] = k}
  <2>1. FetchedOf(k) \cap T = {}
    BY <1>0, <1>6 DEF BatchesApart, FetchedOf
  <2>2. FetchedOf(k)' = {c \in Call : key[c] = k /\ \E a \in DOMAIN batches :
                            batches'[a].state # "scheduled" /\ c \in Members(a)}
    BY <1>6, <1>8, <1>9 DEF FetchedOf
  <2>3. batches'[b].state # "scheduled"
    BY <1>4, <1>5, <1>8
  <2>4. FetchedOf(k)' = FetchedOf(k) \cup T
    BY <1>2, <1>6, <1>8, <2>2, <2>3 DEF FetchedOf
  <2>5. IsFiniteSet(FetchedOf(k)) /\ IsFiniteSet(T) /\ Cardinality(T) \in Nat
        /\ Cardinality(FetchedOf(k)) \in Nat /\ Cardinality(FetchedOf(k) \cap T) = 0
    <3>1. FetchedOf(k) \in SUBSET Call /\ T \in SUBSET Call
      BY <1>2 DEF FetchedOf
    <3> QED
      BY <2>1, <3>1, CallsFinite, FS_EmptySet
  <2>6. Cardinality(FetchedOf(k)') = Cardinality(FetchedOf(k)) + Cardinality(T)
    <3>1. Cardinality(FetchedOf(k) \cup T)
            = Cardinality(FetchedOf(k)) + Cardinality(T) - Cardinality(FetchedOf(k) \cap T)
      BY <2>5, FS_Union
    <3> HIDE DEF T
    <3> QED
      BY <2>4, <2>5, <3>1
  <2>7. fetches'[k] = fetches[k] + Cardinality(T)
    BY <1>0, <1>6, HowOftenCounts
  <2> QED
    BY <1>0, <2>6, <2>7 DEF FetchesCounted
<1> QED
  BY <1>11, <1>12, <1>13, <1>14, <1>15, <1>16 DEF LoaderInv

(* What a batch that settles leaves as it was, whatever it settles with.   *)
LEMMA SettleKeeps ==
  ASSUME LoaderInv, NEW b \in DOMAIN batches, batches[b].state = "dispatched", Settle(b),
         UNCHANGED <<key, follows, primed, edits, version, floor, clearedAt, fetches>>
  PROVE  /\ batches' \in Seq(Batches) /\ DOMAIN batches' = DOMAIN batches
         /\ \A a \in DOMAIN batches' : Len(batches'[a].keys) <= MaxBatchSize
         /\ released' \subseteq Call
         /\ Members(b) \subseteq Call
         /\ \A a \in DOMAIN batches : Members(a)' = Members(a) /\ batches'[a].since = batches[a].since
         /\ \A a \in DOMAIN batches : a # b => batches'[a].state = batches[a].state
         /\ batches'[b].state = "settled"
         /\ FollowsOwn' /\ BatchesApart' /\ FetchesCounted'
<1> DEFINE done == [batches[b] EXCEPT !.state = "settled"]
<1>0. TypeOK /\ BatchesApart /\ FollowsOwn /\ FetchesCounted
  BY DEF LoaderInv
<1>1. batches \in Seq(Batches)
  BY <1>0 DEF TypeOK
<1>2. batches[b] \in Batches /\ batches[b].cacheHits \subseteq Call /\ Members(b) \subseteq Call
  BY <1>1, BatchFields DEF Members
<1>3. /\ done \in Batches /\ done.keys = batches[b].keys
      /\ done.state = "settled" /\ done.since = batches[b].since
  BY <1>2 DEF Batches
<1>4. batches' = [batches EXCEPT ![b] = done] /\ released' \subseteq Call
  BY <1>0, <1>2 DEF Settle, TypeOK
<1> HIDE DEF done
<1>5. /\ batches' \in Seq(Batches) /\ DOMAIN batches' = DOMAIN batches
      /\ \A a \in DOMAIN batches : a # b => batches'[a] = batches[a]
      /\ batches'[b] = done
  BY <1>1, <1>3, <1>4, ExceptSeq, LenProperties
<1>6. \A a \in DOMAIN batches : batches'[a].keys = batches[a].keys /\ Members(a)' = Members(a)
                                /\ batches'[a].since = batches[a].since
  BY <1>3, <1>5 DEF Members
<1>7. \A a \in DOMAIN batches' : Len(batches'[a].keys) <= MaxBatchSize
  BY <1>0, <1>5, <1>6 DEF TypeOK
<1>8. FollowsOwn'
  BY <1>0 DEF FollowsOwn, Own
<1>9. BatchesApart'
  BY <1>0, <1>5, <1>6 DEF BatchesApart, Own
<1>10. FetchesCounted'
  <2>1. \A k \in Key : FetchedOf(k)' = FetchedOf(k)
    <3>1. \A a \in DOMAIN batches : batches'[a].state # "scheduled" <=> batches[a].state # "scheduled"
      BY <1>3, <1>5
    <3> QED
      BY <1>5, <1>6, <3>1 DEF FetchedOf
  <2> QED
    BY <1>0, <2>1 DEF FetchesCounted
<1> QED
  BY <1>2, <1>3, <1>4, <1>5, <1>6, <1>7, <1>8, <1>9, <1>10

(* The values of a batch arrive. *)
LEMMA BatchLoadedKeeps ==
  ASSUME LoaderInv, NEW b \in DOMAIN batches, BatchLoaded(b)
  PROVE  LoaderInv'
<1> DEFINE own == Members(b)
<1>0. TypeOK /\ BatchesApart /\ BatchesPending /\ FollowsOwn /\ CacheFresh /\ OnlyOwnSettle
      /\ ValuesFresh /\ OwnCounted /\ FetchesCounted
  BY DEF LoaderInv
<1>1. /\ batches[b].state = "dispatched" /\ Settle(b)
      /\ UNCHANGED <<key, follows, cacheMap, primed, edits, version, history>>
  BY DEF BatchLoaded
<1>2. PICK read \in batches[b].since .. version, errors \in {{}, own} :
        /\ outcome' = [c \in Call |-> IF c \in errors THEN "error"
                                       ELSE IF c \in own THEN "value" ELSE outcome[c]]
        /\ fetched' = [c \in Call |-> IF c \in own THEN read ELSE fetched[c]]
  BY DEF BatchLoaded, Members
<1>3. /\ batches' \in Seq(Batches) /\ DOMAIN batches' = DOMAIN batches
      /\ \A a \in DOMAIN batches' : Len(batches'[a].keys) <= MaxBatchSize
      /\ released' \subseteq Call
      /\ own \subseteq Call
      /\ \A a \in DOMAIN batches : Members(a)' = Members(a) /\ batches'[a].since = batches[a].since
      /\ \A a \in DOMAIN batches : a # b => batches'[a].state = batches[a].state
      /\ batches'[b].state = "settled"
      /\ FollowsOwn' /\ BatchesApart' /\ FetchesCounted'
  BY <1>1, SettleKeeps DEF history
<1>4. /\ \A c \in own : Own(c) /\ floor[c] <= batches[b].since
      /\ \A a \in DOMAIN batches : a # b => Members(a) \cap own = {}
  BY <1>0, <1>1 DEF BatchesApart, BatchesPending
<1>5. read \in 0 .. version /\ version \in 0 .. MaxVersion /\ batches[b].since \in 0 .. MaxVersion
  BY <1>0, BatchFields DEF TypeOK
<1> HIDE DEF own
<1>6. TypeOK'
  <2>1. outcome' \in [Call -> {"pending", "value", "error", "failed"}]
    BY <1>0, <1>2 DEF TypeOK
  <2>2. fetched' \in [Call -> 0 .. MaxVersion]
    <3>1. read \in 0 .. MaxVersion
      BY <1>5, Constants
    <3> QED
      BY <1>0, <1>2, <3>1 DEF TypeOK
  <2> QED
    BY <1>0, <1>1, <1>3, <2>1, <2>2 DEF TypeOK, history
<1>7. BatchesPending'
  <2> SUFFICES ASSUME NEW a \in DOMAIN batches
      PROVE /\ batches[a].since <= version
            /\ batches'[a].state # "settled" => \A c \in Members(a) : outcome'[c] = "pending"
            /\ batches'[a].state = "dispatched" => \A c \in Members(a) : floor[c] <= batches[a].since
    BY <1>1, <1>3 DEF BatchesPending, history
  <2>1. CASE a = b
    BY <1>0, <1>3, <2>1 DEF BatchesPending
  <2>2. CASE a # b
    <3>1. Members(a) \subseteq Call
      BY <1>0, BatchFields DEF TypeOK, Members
    <3> QED
      BY <1>0, <1>2, <1>3, <1>4, <2>2, <3>1 DEF BatchesPending
  <2> QED
    BY <2>1, <2>2
<1>8. OnlyOwnSettle'
  BY <1>0, <1>1, <1>2, <1>4 DEF OnlyOwnSettle, Own
<1>9. CacheFresh'
  <2>1. \A c \in Call : outcome[c] # "failed" => outcome'[c] # "failed"
    BY <1>2
  <2> QED
    BY <1>0, <1>1, <2>1 DEF CacheFresh, Own, history
<1>10. ValuesFresh'
  <2> SUFFICES ASSUME NEW c \in Call, outcome'[c] = "value"  PROVE fetched'[c] >= floor[c]
    BY <1>1 DEF ValuesFresh, history
  <2>1. CASE c \in own
    <3>1. floor[c] \in 0 .. version
      BY <1>0 DEF TypeOK
    <3>2. fetched'[c] = read /\ floor[c] <= batches[b].since
      BY <1>2, <1>4, <2>1
    <3> QED
      BY <1>2, <1>5, <3>1, <3>2
  <2>2. CASE c \notin own
    BY <1>0, <1>2, <2>2 DEF ValuesFresh
  <2> QED
    BY <2>1, <2>2
<1>11. OwnCounted'
  BY <1>0, <1>1 DEF OwnCounted, OwnOf, Own, history
<1> QED
  BY <1>3, <1>6, <1>7, <1>8, <1>9, <1>10, <1>11 DEF LoaderInv

(* A batch fails, and its keys are cleared. *)
LEMMA BatchFailedKeeps ==
  ASSUME LoaderInv, NEW b \in DOMAIN batches, BatchFailed(b)
  PROVE  LoaderInv'
<1> DEFINE own == Members(b)
           cleared == {KeysOf(b)[i] : i \in 1 .. Len(batches[b].keys)}
           times(k) == Cardinality({c \in own : key[c] = k})
<1>0. TypeOK /\ BatchesApart /\ BatchesPending /\ FollowsOwn /\ CacheFresh /\ OnlyOwnSettle
      /\ ValuesFresh /\ OwnCounted /\ FetchesCounted
  BY DEF LoaderInv
<1>1. /\ batches[b].state = "dispatched" /\ Settle(b)
      /\ cacheMap' = [k \in Key |-> IF k \in cleared THEN None ELSE cacheMap[k]]
      /\ outcome' = [c \in Call |-> IF c \in own THEN "failed" ELSE outcome[c]]
      /\ excuses' = [k \in Key |-> excuses[k] + HowOften(k, KeysOf(b))]
      /\ UNCHANGED <<key, follows, fetched, primed, edits, version, floor, clearedAt, fetches>>
  BY DEF BatchFailed, ClearKeys, Members
<1>2. /\ batches' \in Seq(Batches) /\ DOMAIN batches' = DOMAIN batches
      /\ \A a \in DOMAIN batches' : Len(batches'[a].keys) <= MaxBatchSize
      /\ released' \subseteq Call
      /\ own \subseteq Call
      /\ \A a \in DOMAIN batches : Members(a)' = Members(a) /\ batches'[a].since = batches[a].since
      /\ \A a \in DOMAIN batches : a # b => batches'[a].state = batches[a].state
      /\ batches'[b].state = "settled"
      /\ FollowsOwn' /\ BatchesApart' /\ FetchesCounted'
  BY <1>1, SettleKeeps
<1>3. /\ \A c \in own : Own(c)
      /\ \A a \in DOMAIN batches : a # b => Members(a) \cap own = {}
  BY <1>0 DEF BatchesApart
<1>4. \A k \in Key : k \in cleared <=> \E c \in own : key[c] = k
  <2>1. DOMAIN batches[b].keys = 1 .. Len(batches[b].keys)
    BY <1>0, BatchFields, LenProperties DEF TypeOK
  <2> QED
    BY <2>1 DEF KeysOf, Members, ToSet
<1>5. \A k \in Key : times(k) \in Nat /\ excuses[k] \in Nat /\ excuses'[k] = excuses[k] + times(k)
  <2> TAKE k \in Key
  <2>1. {c \in own : key[c] = k} \in SUBSET Call
    BY <1>2
  <2>2. times(k) \in Nat
    BY <2>1, CallsFinite
  <2>3. HowOften(k, KeysOf(b)) = times(k)
    BY <1>0, HowOftenCounts
  <2>4. excuses[k] \in Nat
    BY <1>0 DEF TypeOK
  <2>5. excuses'[k] = excuses[k] + HowOften(k, KeysOf(b))
    BY <1>1
  <2> QED
    BY <2>2, <2>3, <2>4, <2>5
<1>6. \A k \in cleared \cap Key : times(k) # 0
  <2> TAKE k \in cleared \cap Key
  <2> DEFINE T == {c \in own : key[c] = k}
  <2>1. T # {} /\ T \in SUBSET Call
    BY <1>2, <1>4
  <2> HIDE DEF T
  <2>2. Cardinality(T) # 0
    BY <2>1, CallsFinite, FS_EmptySet
  <2> QED
    BY <2>2 DEF T
<1> HIDE DEF own, cleared, times
<1>7. TypeOK'
  <2>1. outcome' \in [Call -> {"pending", "value", "error", "failed"}]
    BY <1>0, <1>1 DEF TypeOK
  <2>2. excuses' \in [Key -> Nat]
    <3>1. \A k \in Key : excuses'[k] \in Nat
      BY <1>5
    <3> QED
      BY <1>1, <3>1
  <2>3. cacheMap' \in [Key -> Call \cup {Primed, None}]
    BY <1>0, <1>1 DEF TypeOK
  <2> QED
    BY <1>0, <1>1, <1>2, <2>1, <2>2, <2>3 DEF TypeOK
<1>8. BatchesPending'
  <2> SUFFICES ASSUME NEW a \in DOMAIN batches
      PROVE /\ batches[a].since <= version
            /\ batches'[a].state # "settled" => \A c \in Members(a) : outcome'[c] = "pending"
            /\ batches'[a].state = "dispatched" => \A c \in Members(a) : floor[c] <= batches[a].since
    BY <1>1, <1>2 DEF BatchesPending
  <2>1. CASE a = b
    BY <1>0, <1>2, <2>1 DEF BatchesPending
  <2>2. CASE a # b
    <3>1. Members(a) \subseteq Call
      BY <1>0, BatchFields DEF TypeOK, Members
    <3> QED
      BY <1>0, <1>1, <1>2, <1>3, <2>2, <3>1 DEF BatchesPending
  <2> QED
    BY <2>1, <2>2
<1>9. OnlyOwnSettle'
  BY <1>0, <1>1, <1>3 DEF OnlyOwnSettle, Own
<1>10. CacheFresh'
  <2> SUFFICES ASSUME NEW k \in Key, cacheMap'[k] # None
      PROVE /\ cacheMap'[k] \in Call => /\ Own(cacheMap'[k])
                                        /\ key[cacheMap'[k]] = k
                                        /\ floor[cacheMap'[k]] >= clearedAt[k]
                                        /\ outcome'[cacheMap'[k]] # "failed"
            /\ cacheMap'[k] = Primed => primed[k] >= clearedAt[k]
    BY <1>1, Constants DEF CacheFresh, Own
  <2>1. k \notin cleared /\ cacheMap'[k] = cacheMap[k]
    BY <1>1
  <2>2. cacheMap[k] \in Call => cacheMap[k] \notin own
    BY <1>0, <1>4, <2>1 DEF CacheFresh
  <2> QED
    BY <1>0, <1>1, <2>1, <2>2 DEF CacheFresh
<1>11. ValuesFresh'
  BY <1>0, <1>1 DEF ValuesFresh
<1>12. OwnCounted'
  <2> SUFFICES ASSUME NEW k \in Key
      PROVE  Cardinality(OwnOf(k)) <= excuses'[k] + (IF cacheMap'[k] = None THEN 0 ELSE 1)
    BY <1>1 DEF OwnCounted, OwnOf, Own
  <2>1. Cardinality(OwnOf(k)) <= excuses[k] + (IF cacheMap[k] = None THEN 0 ELSE 1)
    BY <1>0 DEF OwnCounted
  <2>2. Cardinality(OwnOf(k)) \in Nat
    BY CallsFinite DEF OwnOf
  <2>3. CASE k \in cleared
    BY <1>1, <1>5, <1>6, <2>1, <2>2, <2>3
  <2>4. CASE k \notin cleared
    BY <1>1, <1>5, <2>1, <2>2, <2>4
  <2> QED
    BY <2>3, <2>4
<1> QED
  BY <1>2, <1>7, <1>8, <1>9, <1>10, <1>11, <1>12 DEF LoaderInv

(* clear() of a key. *)
LEMMA ClearKeeps ==
  ASSUME LoaderInv, NEW ks \in {{k} : k \in Key} \cup {Key}, Clear(ks)
  PROVE  LoaderInv'
<1>0. TypeOK /\ BatchesApart /\ BatchesPending /\ FollowsOwn /\ CacheFresh /\ OnlyOwnSettle
      /\ ValuesFresh /\ OwnCounted /\ FetchesCounted
  BY DEF LoaderInv
<1>1. /\ edits < MaxEdits /\ edits' = edits + 1
      /\ cacheMap' = [k \in Key |-> IF k \in ks THEN None ELSE cacheMap[k]]
      /\ clearedAt' = [k \in Key |-> IF k \in ks THEN version ELSE clearedAt[k]]
      /\ excuses' = [k \in Key |-> IF k \in ks THEN excuses[k] + 1 ELSE excuses[k]]
      /\ UNCHANGED <<loads, promises, batches, primed, version, floor, fetches>>
  BY DEF Clear, Forget
<1>2. /\ key' = key /\ follows' = follows /\ released' = released
      /\ outcome' = outcome /\ fetched' = fetched
  BY <1>1 DEF loads, promises
<1>3. TypeOK'
  <2>1. edits' \in 0 .. MaxEdits
    BY <1>0, <1>1, Constants DEF TypeOK
  <2>2. clearedAt' \in [Key -> 0 .. version]
    <3>1. version \in 0 .. version
      BY <1>0 DEF TypeOK
    <3> QED
      BY <1>0, <1>1, <3>1 DEF TypeOK
  <2>3. excuses' \in [Key -> Nat]
    BY <1>0, <1>1 DEF TypeOK
  <2>4. cacheMap' \in [Key -> Call \cup {Primed, None}]
    BY <1>0, <1>1 DEF TypeOK
  <2> QED
    BY <1>0, <1>1, <1>2, <2>1, <2>2, <2>3, <2>4 DEF TypeOK
<1>4. FollowsOwn' /\ OnlyOwnSettle' /\ ValuesFresh'
  BY <1>0, <1>1, <1>2 DEF FollowsOwn, OnlyOwnSettle, ValuesFresh, Own
<1>5. BatchesApart' /\ BatchesPending' /\ FetchesCounted'
  BY <1>0, <1>1, <1>2 DEF BatchesApart, BatchesPending, FetchesCounted, FetchedOf, Members, Own
<1>6. CacheFresh'
  BY <1>0, <1>1, <1>2, Constants DEF CacheFresh, Own
<1>7. OwnCounted'
  <2> SUFFICES ASSUME NEW k \in Key
      PROVE  Cardinality(OwnOf(k)) <= excuses'[k] + (IF cacheMap'[k] = None THEN 0 ELSE 1)
    BY <1>2 DEF OwnCounted, OwnOf, Own
  <2>1. Cardinality(OwnOf(k)) <= excuses[k] + (IF cacheMap[k] = None THEN 0 ELSE 1)
    BY <1>0 DEF OwnCounted
  <2>2. Cardinality(OwnOf(k)) \in Nat /\ excuses[k] \in Nat
    BY <1>0, CallsFinite DEF OwnOf, TypeOK
  <2>3. CASE k \in ks
    BY <1>1, <2>1, <2>2, <2>3
  <2>4. CASE k \notin ks
    BY <1>1, <2>1, <2>2, <2>4
  <2> QED
    BY <2>3, <2>4
<1> QED
  BY <1>3, <1>4, <1>5, <1>6, <1>7 DEF LoaderInv

(* prime() of a key. *)
LEMMA PrimeKeeps ==
  ASSUME LoaderInv, NEW k \in Key, Prime(k)
  PROVE  LoaderInv'
<1>0. TypeOK /\ BatchesApart /\ BatchesPending /\ FollowsOwn /\ CacheFresh /\ OnlyOwnSettle
      /\ ValuesFresh /\ OwnCounted /\ FetchesCounted
  BY DEF LoaderInv
<1>1. /\ edits < MaxEdits /\ edits' = edits + 1 /\ cacheMap[k] = None
      /\ cacheMap' = [cacheMap EXCEPT ![k] = Primed]
      /\ primed' = [primed EXCEPT ![k] = version]
      /\ UNCHANGED <<batches, version, history>>
      /\ key' = key /\ follows' = follows /\ released' = released
      /\ outcome' = outcome /\ fetched' = fetched
  BY DEF Prime, loads, promises
<1>2. version \in 0 .. version /\ version \in Nat
  BY <1>0 DEF TypeOK
<1>3. TypeOK'
  <2>1. edits' \in 0 .. MaxEdits
    BY <1>0, <1>1, Constants DEF TypeOK
  <2>2. primed' \in [Key -> 0 .. version]
    BY <1>0, <1>1, <1>2 DEF TypeOK
  <2>3. cacheMap' \in [Key -> Call \cup {Primed, None}]
    BY <1>0, <1>1 DEF TypeOK
  <2> QED
    BY <1>0, <1>1, <2>1, <2>2, <2>3 DEF TypeOK, history
<1>4. \A j \in Key : primed'[j] >= primed[j]
  BY <1>0, <1>1, <1>2 DEF TypeOK
<1>5. FollowsOwn'
  <2> SUFFICES ASSUME NEW c \in Call, follows[c] = Primed  PROVE primed'[key[c]] >= floor[c]
    BY <1>0, <1>1 DEF FollowsOwn, Own, history
  <2>1. key[c] \in Key /\ primed[key[c]] >= floor[c]
    BY <1>0, Constants DEF FollowsOwn, TypeOK
  <2>2. primed[key[c]] \in 0 .. version /\ floor[c] \in 0 .. version /\ primed'[key[c]] \in 0 .. version
    BY <1>0, <1>1, <1>3, <2>1 DEF TypeOK
  <2> QED
    BY <1>4, <2>1, <2>2
<1>6. OnlyOwnSettle' /\ ValuesFresh'
  BY <1>0, <1>1 DEF OnlyOwnSettle, ValuesFresh, Own, history
<1>7. BatchesApart' /\ BatchesPending' /\ FetchesCounted'
  BY <1>0, <1>1 DEF BatchesApart, BatchesPending, FetchesCounted, FetchedOf, Members, Own, history
<1>8. CacheFresh'
  <2> SUFFICES ASSUME NEW j \in Key
      PROVE /\ cacheMap'[j] \in Call => /\ Own(cacheMap'[j])
                                        /\ key[cacheMap'[j]] = j
                                        /\ floor[cacheMap'[j]] >= clearedAt[j]
                                        /\ outcome[cacheMap'[j]] # "failed"
            /\ cacheMap'[j] = Primed => primed'[j] >= clearedAt[j]
    BY <1>1 DEF CacheFresh, Own, history
  <2>1. CASE j = k
    <3>1. clearedAt[k] \in 0 .. version /\ cacheMap'[k] = Primed /\ primed'[k] = version
      BY <1>0, <1>1 DEF TypeOK
    <3> QED
      BY <1>2, <2>1, <3>1, Constants
  <2>2. CASE j # k
    BY <1>0, <1>1, <2>2 DEF CacheFresh, TypeOK
  <2> QED
    BY <2>1, <2>2
<1>9. OwnCounted'
  <2> SUFFICES ASSUME NEW j \in Key
      PROVE  Cardinality(OwnOf(j)) <= excuses[j] + (IF cacheMap'[j] = None THEN 0 ELSE 1)
    BY <1>1 DEF OwnCounted, OwnOf, Own, history
  <2>1. Cardinality(OwnOf(j)) <= excuses[j] + (IF cacheMap[j] = None THEN 0 ELSE 1)
    BY <1>0 DEF OwnCounted
  <2>2. Cardinality(OwnOf(j)) \in Nat /\ excuses[j] \in Nat
    BY <1>0, CallsFinite DEF OwnOf, TypeOK
  <2>3. cacheMap'[j] = None => cacheMap[j] = None
    BY <1>0, <1>1, Constants DEF TypeOK
  <2> QED
    BY <2>1, <2>2, <2>3
<1> QED
  BY <1>3, <1>5, <1>6, <1>7, <1>8, <1>9 DEF LoaderInv

(* The data behind the loader change. *)
LEMMA DataChangeKeeps == LoaderInv /\ DataChange => LoaderInv'
<1> SUFFICES ASSUME LoaderInv, DataChange  PROVE LoaderInv'
  OBVIOUS
<1>0. TypeOK /\ BatchesApart /\ BatchesPending /\ FollowsOwn /\ CacheFresh /\ OnlyOwnSettle
      /\ ValuesFresh /\ OwnCounted /\ FetchesCounted
  BY DEF LoaderInv
<1>1. /\ version < MaxVersion /\ version' = version + 1
      /\ UNCHANGED <<key, follows, released, outcome, fetched, batches, cacheMap, primed, edits,
                     floor, clearedAt, fetches, excuses>>
  BY DEF DataChange, loads, promises, history
<1>2. version \in Nat /\ version' \in 0 .. MaxVersion /\ 0 .. version \subseteq 0 .. version'
  BY <1>0, <1>1, Constants DEF TypeOK
<1>3. TypeOK'
  BY <1>0, <1>1, <1>2 DEF TypeOK
<1>4. BatchesPending'
  <2>1. \A b \in DOMAIN batches : batches[b].since <= version'
    <3>1. \A b \in DOMAIN batches : batches[b].since \in 0 .. MaxVersion
      BY <1>0, BatchFields DEF TypeOK
    <3> QED
      BY <1>0, <1>1, <1>2, <3>1 DEF BatchesPending
  <2> QED
    BY <1>0, <1>1, <2>1 DEF BatchesPending, Members
<1>5. FollowsOwn' /\ BatchesApart' /\ OnlyOwnSettle' /\ CacheFresh' /\ ValuesFresh'
  BY <1>0, <1>1 DEF FollowsOwn, BatchesApart, OnlyOwnSettle, CacheFresh, ValuesFresh, Members, Own
<1>6. OwnCounted' /\ FetchesCounted'
  BY <1>0, <1>1 DEF OwnCounted, FetchesCounted, OwnOf, FetchedOf, Members, Own
<1> QED
  BY <1>3, <1>4, <1>5, <1>6 DEF LoaderInv

(* A new loader. *)
LEMMA LoaderInit == Init => LoaderInv
<1> SUFFICES ASSUME Init  PROVE LoaderInv
  OBVIOUS
<1>1. batches = <<>> /\ DOMAIN batches = {} /\ batches \in Seq(Batches)
  BY EmptySeq DEF Init
<1>2. TypeOK
  BY <1>1, Constants DEF Init, TypeOK
<1>3. FollowsOwn /\ OnlyOwnSettle /\ CacheFresh /\ ValuesFresh
  BY Constants DEF Init, FollowsOwn, OnlyOwnSettle, CacheFresh, ValuesFresh, Own
<1>4. BatchesApart /\ BatchesPending
  BY <1>1 DEF BatchesApart, BatchesPending
<1>5. OwnCounted /\ FetchesCounted
  <2>1. \A k \in Key : OwnOf(k) = {} /\ FetchedOf(k) = {}
    BY <1>1, Constants DEF Init, OwnOf, FetchedOf
  <2>2. Cardinality({}) = 0
    BY FS_EmptySet
  <2>3. \A k \in Key : fetches[k] = 0 /\ excuses[k] = 0 /\ cacheMap[k] = None
    BY DEF Init
  <2> QED
    BY <2>1, <2>2, <2>3 DEF OwnCounted, FetchesCounted
<1> QED
  BY <1>2, <1>3, <1>4, <1>5 DEF LoaderInv

(* Every step keeps the invariant. *)
LEMMA LoaderInvariant == Spec => []LoaderInv
<1>1. LoaderInv /\ [Next]_vars => LoaderInv'
  <2> SUFFICES ASSUME LoaderInv, [Next]_vars  PROVE LoaderInv'
    OBVIOUS
  <2>1. CASE UNCHANGED vars
    <3>1. UNCHANGED <<key, follows, released, outcome, fetched, batches, cacheMap, primed, edits,
                      version, floor, clearedAt, fetches, excuses>>
      BY <2>1 DEF vars, loads, promises, history
    <3>2. TypeOK'
      BY <3>1 DEF LoaderInv, TypeOK
    <3>3. FollowsOwn' /\ OnlyOwnSettle' /\ CacheFresh' /\ ValuesFresh'
      BY <3>1 DEF LoaderInv, FollowsOwn, OnlyOwnSettle, CacheFresh, ValuesFresh, Own
    <3>4. BatchesApart' /\ BatchesPending'
      BY <3>1 DEF LoaderInv, BatchesApart, BatchesPending, Members, Own
    <3>5. OwnCounted' /\ FetchesCounted'
      BY <3>1 DEF LoaderInv, OwnCounted, FetchesCounted, OwnOf, FetchedOf, Members, Own
    <3> QED
      BY <3>2, <3>3, <3>4, <3>5 DEF LoaderInv
  <2>2. ASSUME NEW c \in Call, NEW k \in Key, Load(c, k)  PROVE LoaderInv'
    BY <2>2, LoadKeeps
  <2>3. ASSUME NEW b \in DOMAIN batches, BatchStep(b)  PROVE LoaderInv'
    BY <2>3, DispatchBatchKeeps, BatchLoadedKeeps, BatchFailedKeeps DEF BatchStep
  <2>4. ASSUME NEW ks \in {{k} : k \in Key} \cup {Key}, Clear(ks)  PROVE LoaderInv'
    BY <2>4, ClearKeeps
  <2>5. ASSUME NEW k \in Key, Prime(k)  PROVE LoaderInv'
    BY <2>5, PrimeKeeps
  <2> QED
    BY <2>1, <2>2, <2>3, <2>4, <2>5, DataChangeKeeps DEF Next
<1> QED
  BY LoaderInit, <1>1, PTL DEF Spec

----------------------------------------------------------------------------
(* The loader keeps to its types, and no batch is larger than it may be.   *)
THEOREM LoaderTypes == Spec => []TypeOK
<1>1. LoaderInv => TypeOK
  BY DEF LoaderInv
<1> QED
  BY LoaderInvariant, <1>1, PTL

(* A key is handed to batchLoadFn once, and once more for each time it was *)
(* cleared or its batch failed: a load of its own is only made while the   *)
(* cache has no promise for the key, and is fetched in one batch.          *)
THEOREM KeysFetchedOnce == Spec => []FetchOnce
<1>1. LoaderInv => FetchOnce
  <2> SUFFICES ASSUME LoaderInv, NEW k \in Key  PROVE fetches[k] <= 1 + excuses[k]
    BY DEF FetchOnce
  <2>0. TypeOK /\ BatchesApart /\ OwnCounted /\ FetchesCounted
    BY DEF LoaderInv
  <2>1. FetchedOf(k) \subseteq OwnOf(k)
    BY <2>0 DEF FetchedOf, OwnOf, BatchesApart
  <2>2. OwnOf(k) \in SUBSET Call /\ FetchedOf(k) \in SUBSET Call
    BY DEF OwnOf, FetchedOf
  <2>3. Cardinality(FetchedOf(k)) <= Cardinality(OwnOf(k))
    BY <2>1, <2>2, CallsFinite, FS_Subset
  <2>4. Cardinality(FetchedOf(k)) \in Nat /\ Cardinality(OwnOf(k)) \in Nat /\ excuses[k] \in Nat
    BY <2>0, <2>2, CallsFinite DEF TypeOK
  <2>5. Cardinality(OwnOf(k)) <= excuses[k] + 1
    BY <2>0, <2>4 DEF OwnCounted
  <2>6. fetches[k] = Cardinality(FetchedOf(k))
    BY <2>0 DEF FetchesCounted
  <2> QED
    BY <2>3, <2>4, <2>5, <2>6
<1> QED
  BY LoaderInvariant, <1>1, PTL

(* Whoever loads a key after clear or clearAll is not answered with data   *)
(* from before it, although a batch dispatched before it arrives later.    *)
THEOREM ClearsForget == Spec => []ClearForgets
<1>1. LoaderInv => ClearForgets
  <2> SUFFICES ASSUME LoaderInv, NEW c \in Call, HasAnswer(c),
                      follows[c] = Primed \/ outcome[follows[c]] = "value"
      PROVE  Answer(c) >= floor[c]
    BY DEF ClearForgets
  <2>0. TypeOK /\ FollowsOwn /\ ValuesFresh
    BY DEF LoaderInv
  <2>1. CASE follows[c] = Primed
    BY <2>0, <2>1 DEF FollowsOwn, Answer
  <2>2. CASE follows[c] # Primed
    <3>1. follows[c] \in Call
      BY <2>0, <2>2 DEF HasAnswer, TypeOK, FollowsOwn
    <3>2. floor[c] <= floor[follows[c]] /\ floor[follows[c]] <= fetched[follows[c]]
      BY <2>0, <2>2, <3>1 DEF FollowsOwn, ValuesFresh
    <3>3. floor[c] \in Nat /\ floor[follows[c]] \in Nat /\ fetched[follows[c]] \in Nat
      BY <2>0, <3>1 DEF TypeOK
    <3> QED
      BY <2>2, <3>2, <3>3 DEF Answer
  <2> QED
    BY <2>1, <2>2
<1> QED
  BY LoaderInvariant, <1>1, PTL

(* When the fetch of a batch fails, the cache is left with none of its     *)
(* promises, whatever was cleared and loaded again while it ran.           *)
THEOREM FailuresAreForgotten == Spec => []FailuresForgotten
<1>1. LoaderInv => FailuresForgotten
  BY DEF LoaderInv, CacheFresh, FailuresForgotten
<1> QED
  BY LoaderInvariant, <1>1, PTL
=============================================================================
