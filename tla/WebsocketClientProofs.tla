------------------------ MODULE WebsocketClientProofs ------------------------
(***************************************************************************)
(* The subscriptions of WebsocketClient over any number of connections,    *)
(* timeouts and signals.                                                   *)
(***************************************************************************)
EXTENDS WebsocketClient, FiniteSetTheorems, SequenceTheorems, TLAPS

Counters == requestId \in Nat /\ nextId \in Nat \ {0}

(* The closes that are left bound the connections and the attempts in a    *)
(* row.                                                                    *)
ConnectionsCounted ==
  /\ socket = 0 <=> state = "none"
  /\ retry => state \in {"lost", "failed"}
  /\ retry \/ state \notin {"lost", "failed"} => disconnects <= MaxReconnects
  /\ socket <= closes + (IF state \in {"lost", "failed"} THEN 0 ELSE 1)

(* A request that was sent has an id, which is its own. *)
IdsApart ==
  /\ \A i \in DOMAIN calls :
       calls[i].socket <= socket /\ (calls[i].status # "waiting" => calls[i].id > 0)
  /\ \A i, j \in DOMAIN calls : i # j /\ calls[i].id = calls[j].id => calls[i].id = 0

(* A subscription that was ever made is in #subscriptions, so that a       *)
(* reconnect finds it.                                                     *)
SubscriptionsKept ==
  /\ \A s \in Sub : s \in ToSet(subscriptions) <=> outcome[s] # "none"
  /\ \A s \in Sub : subscribed[s] \/ subscriptionId[s] # None => outcome[s] # "none"
  /\ \A i \in DOMAIN calls : outcome[calls[i].sub] # "none"
  /\ \A s \in Sub : outcome[s] # "none" /\ s \notin ended => subscribed[s]
  /\ state = "none" => \A s \in Sub : outcome[s] = "none"

IdsOfConnection == ~Connected => \A s \in Sub : subscriptionId[s] = None

(* A request to unsubscribe is made while the connection that gave the id  *)
(* is open, or lost; nobody else has the id.                               *)
UnsubscribesOwn ==
  \A i \in DOMAIN calls : calls[i].method = "unsubscribe" /\ calls[i].socket = socket =>
    /\ Connected
    /\ state = "open" => /\ calls[i].arg \in 1 .. nextId - 1
                         /\ \A s \in Sub : subscriptionId[s] # calls[i].arg

ServedOnce == \A x, y \in served : x.id = y.id => x = y

(* NoSubscriptionForgotten, from the moment the connection is replaced.    *)
AskedBy(s, i) ==
  /\ calls[i].sub = s /\ calls[i].method = "subscribe" /\ calls[i].socket = socket
  /\ calls[i].status # "done"

Asked ==
  state \in {"connecting", "open"} =>
    \A s \in Sub : outcome[s] = "returned" /\ s \notin ended /\ subscriptionId[s] = None =>
      \E i \in DOMAIN calls : AskedBy(s, i)

(* The inductive invariant of the client. *)
ClientInv ==
  /\ TypeOK
  /\ Counters
  /\ ConnectionsCounted
  /\ IdsApart
  /\ SubscriptionsKept
  /\ IdsOfConnection
  /\ UnsubscribesOwn
  /\ ServedOnce
  /\ EventsReachTheirOwner
  /\ Asked
  /\ EachTimeoutRobsOne

----------------------------------------------------------------------------
(* Requests.                                                               *)

(* The constants. *)
LEMMA Constants ==
  /\ IsFiniteSet(Sub) /\ Signalled \subseteq Sub /\ None \notin Nat
  /\ MaxReconnects \in Nat /\ MaxCloses \in Nat /\ MaxLosses \in Nat
BY WebsocketAssumption

(* The fields of a request. *)
LEMMA CallFields ==
  ASSUME NEW r \in Seq(Calls)
  PROVE  /\ Len(r) \in Nat /\ DOMAIN r = 1 .. Len(r)
         /\ \A i \in DOMAIN r :
              /\ r[i] \in Calls
              /\ r[i].sub \in Sub /\ r[i].method \in {"subscribe", "unsubscribe"}
              /\ r[i].arg \in Nat \cup {None} /\ r[i].socket \in Nat
              /\ r[i].id \in 0 .. requestId /\ r[i].handled \in BOOLEAN
              /\ r[i].status \in {"waiting", "sent", "done", "failed", "timedOut", "aborted", "expired"}
<1>1. Len(r) \in Nat /\ DOMAIN r = 1 .. Len(r)
  BY LenProperties
<1>2. \A i \in DOMAIN r : r[i] \in Calls
  BY <1>1, ElementOfSeq
<1> QED
  BY <1>1, <1>2 DEF Calls

(* A request stays typed while requestId grows. *)
LEMMA CallsWiden ==
  ASSUME requestId \in Nat, requestId' \in Nat, requestId <= requestId'
  PROVE  Calls \subseteq Calls' /\ Seq(Calls) \subseteq Seq(Calls')
<1>1. 0 .. requestId \subseteq 0 .. requestId'
  OBVIOUS
<1>2. Calls \subseteq Calls'
  BY <1>1 DEF Calls
<1> QED
  BY <1>2, SeqMonotonic

(* A new request. *)
LEMMA NewCallTyped ==
  ASSUME requestId' \in Nat, NEW s \in Sub, NEW method \in {"subscribe", "unsubscribe"},
         NEW arg \in Nat \cup {None}, NEW c \in Nat
  PROVE  NewCall(s, method, arg, c) \in Calls'
<1>1. 0 \in 0 .. requestId'
  OBVIOUS
<1>2. Calls' = [sub : Sub, method : {"subscribe", "unsubscribe"}, arg : Nat \cup {None}, socket : Nat,
                id : 0 .. requestId', handled : BOOLEAN,
                status : {"waiting", "sent", "done", "failed", "timedOut", "aborted", "expired"}]
  BY DEF Calls
<1> QED
  BY <1>1, <1>2 DEF NewCall

(* A request that is sent. *)
LEMMA SentTyped ==
  ASSUME NEW x \in Calls', NEW id \in 0 .. requestId'
  PROVE  Sent(x, id) \in Calls'
<1>1. Calls' = [sub : Sub, method : {"subscribe", "unsubscribe"}, arg : Nat \cup {None}, socket : Nat,
                id : 0 .. requestId', handled : BOOLEAN,
                status : {"waiting", "sent", "done", "failed", "timedOut", "aborted", "expired"}]
  BY DEF Calls
<1> QED
  BY <1>1 DEF Sent

(* A request more. *)
LEMMA AppendsCall ==
  ASSUME requestId \in Nat, requestId' \in Nat, requestId <= requestId',
         NEW r \in Seq(Calls), NEW x \in Calls', calls' = Append(r, x)
  PROVE  /\ calls' \in Seq(Calls')
         /\ DOMAIN calls' = DOMAIN r \cup {Len(r) + 1} /\ Len(r) + 1 \notin DOMAIN r
         /\ \A i \in DOMAIN r : calls'[i] = r[i]
         /\ calls'[Len(r) + 1] = x
<1>1. r \in Seq(Calls')
  BY CallsWiden
<1>2. /\ calls' \in Seq(Calls') /\ Len(calls') = Len(r) + 1
      /\ \A i \in 1 .. Len(r) : calls'[i] = r[i]
      /\ calls'[Len(r) + 1] = x
  BY <1>1, AppendProperties
<1>3. DOMAIN calls' = 1 .. Len(calls') /\ Len(r) \in Nat /\ DOMAIN r = 1 .. Len(r)
  BY <1>1, <1>2, LenProperties
<1> QED
  BY <1>2, <1>3

(* A request is made: the others are as they were. *)
LEMMA RequestMade ==
  ASSUME TypeOK, Counters, IdsApart, NEW s \in Sub, NEW method \in {"subscribe", "unsubscribe"},
         NEW arg \in Nat \cup {None}, MakeRequest(s, method, arg),
         socket # 0 \/ ~Connected
  PROVE  LET n == Len(calls) + 1
             x == calls'[n]
         IN  /\ requestId' \in Nat /\ requestId <= requestId'
             /\ calls' \in Seq(Calls') /\ pending' \subseteq 1 .. requestId'
             /\ DOMAIN calls' = DOMAIN calls \cup {n} /\ n \notin DOMAIN calls
             /\ \A i \in DOMAIN calls : calls'[i] = calls[i]
             /\ x.sub = s /\ x.method = method /\ x.arg = arg
             /\ x.socket = IF socket = 0 THEN 1 ELSE socket
             /\ x.status \in {"waiting", "sent"} /\ (x.status # "waiting" => x.id > 0)
             /\ \A i, j \in DOMAIN calls' : i # j /\ calls'[i].id = calls'[j].id => calls'[i].id = 0
             /\ Robbed' = Robbed /\ FiredTimers' = FiredTimers
<1> DEFINE n == Len(calls) + 1
<1>0. requestId \in Nat /\ calls \in Seq(Calls) /\ pending \subseteq 1 .. requestId /\ socket \in Nat
  BY Constants DEF TypeOK, Counters
<1>1. /\ DOMAIN calls = 1 .. Len(calls)
      /\ \A i \in DOMAIN calls : calls[i].id \in 0 .. requestId
  BY <1>0, CallFields
<1>2. PICK x : /\ calls' = Append(calls, x) /\ requestId' \in Nat /\ requestId <= requestId'
               /\ x \in Calls' /\ pending' \subseteq 1 .. requestId'
               /\ x.sub = s /\ x.method = method /\ x.arg = arg
               /\ x.socket = IF socket = 0 THEN 1 ELSE socket
               /\ x.status \in {"waiting", "sent"} /\ (x.status # "waiting" => x.id > 0)
               /\ x.id = 0 \/ x.id > requestId
               /\ x.status = "sent" => x.id \in pending'
               /\ pending \subseteq pending' /\ pending' \ pending \subseteq {requestId + 1}
  <2>1. CASE Connected
    <3> DEFINE x == Sent(NewCall(s, method, arg, socket), requestId + 1)
    <3>1. /\ requestId' = requestId + 1 /\ pending' = pending \cup {requestId + 1}
          /\ calls' = Append(calls, x)
      BY <2>1 DEF MakeRequest
    <3>2. /\ x.sub = s /\ x.method = method /\ x.arg = arg /\ x.socket = socket
          /\ x.status = "sent" /\ x.id = requestId + 1
      BY DEF NewCall, Sent
    <3>3. requestId' \in Nat /\ requestId + 1 \in 0 .. requestId'
      BY <1>0, <3>1
    <3>4. NewCall(s, method, arg, socket) \in Calls'
      BY <1>0, <3>3, NewCallTyped
    <3>5. x \in Calls'
      BY <3>3, <3>4, SentTyped
    <3>6. socket # 0
      BY <2>1
    <3> HIDE DEF x
    <3>7. requestId' \in Nat /\ requestId <= requestId' /\ pending' \subseteq 1 .. requestId'
      BY <1>0, <3>1
    <3>8. x.id > 0 /\ x.id > requestId /\ x.id \in pending'
      BY <1>0, <3>1, <3>2
    <3> QED
      BY <3>1, <3>2, <3>5, <3>6, <3>7, <3>8
  <2>2. CASE ~Connected
    <3> DEFINE c == IF socket = 0 THEN 1 ELSE socket
               x == NewCall(s, method, arg, c)
    <3>1. requestId' = requestId /\ pending' = pending /\ calls' = Append(calls, x)
      BY <2>2 DEF MakeRequest
    <3>2. c \in Nat /\ requestId' \in Nat
      BY <1>0, <3>1
    <3>4. x \in Calls'
      BY <3>2, NewCallTyped
    <3>5. /\ x.sub = s /\ x.method = method /\ x.arg = arg /\ x.socket = c
          /\ x.status = "waiting" /\ x.id = 0
      BY DEF NewCall
    <3> QED
      BY <1>0, <3>1, <3>4, <3>5
  <2> QED
    BY <2>1, <2>2
<1>3. /\ calls' \in Seq(Calls')
      /\ DOMAIN calls' = DOMAIN calls \cup {n} /\ n \notin DOMAIN calls
      /\ \A i \in DOMAIN calls : calls'[i] = calls[i]
      /\ calls'[n] = x
  BY <1>0, <1>2, AppendsCall
<1> HIDE DEF n
<1>4. ASSUME NEW i \in DOMAIN calls', NEW j \in DOMAIN calls', i # j, calls'[i].id = calls'[j].id
      PROVE  calls'[i].id = 0
  <2>1. CASE i \in DOMAIN calls /\ j \in DOMAIN calls
    BY <1>3, <1>4, <2>1 DEF IdsApart
  <2>2. CASE i = n \/ j = n
    <3>1. \A k \in DOMAIN calls : ~(calls[k].id > requestId)
      BY <1>0, <1>1
    <3> QED
      BY <1>2, <1>3, <1>4, <2>2, <3>1
  <2> QED
    BY <1>3, <2>1, <2>2
<1>5. \A i \in DOMAIN calls : calls[i].id \in pending' <=> calls[i].id \in pending
  <2>1. \A i \in DOMAIN calls : calls[i].id # requestId + 1
    BY <1>0, <1>1
  <2>2. \A k \in pending' : k # requestId + 1 => k \in pending
    BY <1>2
  <2>3. pending \subseteq pending'
    BY <1>2
  <2> QED
    BY <2>1, <2>2, <2>3
<1>6. Robbed' = Robbed
  BY <1>2, <1>3, <1>5 DEF Robbed
<1>7. FiredTimers' = FiredTimers
  BY <1>2, <1>3 DEF FiredTimers
<1> QED
  BY <1>2, <1>3, <1>4, <1>6, <1>7 DEF n

(* The sets that are counted are finite. *)
LEMMA SetsFinite ==
  ASSUME TypeOK
  PROVE  /\ IsFiniteSet(Robbed) /\ IsFiniteSet(FiredTimers) /\ IsFiniteSet(aborted)
         /\ Cardinality(Robbed) \in Nat /\ Cardinality(FiredTimers) \in Nat
         /\ Cardinality(aborted) \in Nat
<1>1. DOMAIN calls = 1 .. Len(calls) /\ Len(calls) \in Nat
  BY CallFields DEF TypeOK
<1>2. IsFiniteSet(DOMAIN calls)
  BY <1>1, FS_Interval
<1>3. /\ Robbed \in SUBSET DOMAIN calls /\ FiredTimers \in SUBSET DOMAIN calls
      /\ aborted \in SUBSET Sub
  BY DEF Robbed, FiredTimers, TypeOK
<1> QED
  BY <1>2, <1>3, Constants, FS_Subset, FS_CardinalityType

(* The count of robbed requests is kept. *)
LEMMA CountKeeps ==
  ASSUME EachTimeoutRobsOne, Robbed' = Robbed, FiredTimers' = FiredTimers, aborted' = aborted
  PROVE  EachTimeoutRobsOne'
BY DEF EachTimeoutRobsOne

(* The subscriptions with one more. *)
LEMMA AppendedSet ==
  ASSUME NEW S, NEW r \in Seq(S), NEW x \in S
  PROVE  Append(r, x) \in Seq(S) /\ ToSet(Append(r, x)) = ToSet(r) \cup {x}
<1> DEFINE t == Append(r, x)
           n == Len(r)
<1>1. n \in Nat /\ DOMAIN r = 1 .. n
  BY LenProperties
<1>2. /\ t \in Seq(S) /\ Len(t) = n + 1
      /\ \A i \in 1 .. n : t[i] = r[i]
      /\ t[n + 1] = x
  BY AppendProperties
<1>3. DOMAIN t = 1 .. n + 1
  BY <1>2, LenProperties
<1> HIDE DEF t, n
<1>4. DOMAIN t = DOMAIN r \cup {n + 1} /\ \A i \in DOMAIN r : t[i] = r[i]
  BY <1>1, <1>2, <1>3
<1>5. ToSet(t) = ToSet(r) \cup {x}
  BY <1>2, <1>4 DEF ToSet
<1> QED
  BY <1>2, <1>5 DEF t

----------------------------------------------------------------------------
(* One lemma for each action.                                              *)

(* A subscription is made. *)
LEMMA SubscribeKeeps ==
  ASSUME ClientInv, NEW s \in Sub, Subscribe(s)
  PROVE  ClientInv'
<1> DEFINE n == Len(calls) + 1
<1>0. /\ TypeOK /\ Counters /\ ConnectionsCounted /\ IdsApart /\ SubscriptionsKept
      /\ IdsOfConnection /\ UnsubscribesOwn /\ ServedOnce /\ EventsReachTheirOwner
      /\ Asked /\ EachTimeoutRobsOne
  BY DEF ClientInv
<1>1. /\ outcome[s] = "none"
      /\ outcome' = [outcome EXCEPT ![s] = "pending"]
      /\ subscriptions' = Append(subscriptions, s)
      /\ subscribed' = [r \in Sub |-> r \in {s} \/ subscribed[r]]
      /\ subscriptionId' = [r \in Sub |-> IF r \in {s} THEN None ELSE subscriptionId[r]]
      /\ MakeRequest(s, "subscribe", None)
      /\ socket' = IF state = "none" THEN 1 ELSE socket
      /\ state' = IF state = "none" THEN "connecting" ELSE state
      /\ UNCHANGED <<disconnects, retry, aborted, ended, served, nextId, closes>>
  BY DEF Subscribe, Subscribes, server
<1>2. socket = 0 <=> state = "none"
  BY <1>0 DEF ConnectionsCounted
<1>3. socket # 0 \/ ~Connected
  BY <1>2 DEF Connected
<1>4. /\ requestId' \in Nat /\ requestId <= requestId'
      /\ calls' \in Seq(Calls') /\ pending' \subseteq 1 .. requestId'
      /\ DOMAIN calls' = DOMAIN calls \cup {n} /\ n \notin DOMAIN calls
      /\ \A i \in DOMAIN calls : calls'[i] = calls[i]
      /\ calls'[n].sub = s /\ calls'[n].method = "subscribe"
      /\ calls'[n].socket = socket'
      /\ calls'[n].status # "waiting" => calls'[n].id > 0
      /\ \A i, j \in DOMAIN calls' : i # j /\ calls'[i].id = calls'[j].id => calls'[i].id = 0
      /\ Robbed' = Robbed /\ FiredTimers' = FiredTimers
  BY <1>0, <1>1, <1>2, <1>3, RequestMade
<1> HIDE DEF n
<1>5. /\ subscriptions' \in Seq(Sub)
      /\ ToSet(subscriptions') = ToSet(subscriptions) \cup {s}
  BY <1>0, <1>1, AppendedSet DEF TypeOK
<1>6. TypeOK'
  <2>1. socket' \in 0 .. MaxCloses + 1 /\ state' \in {"none", "connecting", "open", "lost", "failed"}
    BY <1>0, <1>1, Constants DEF TypeOK
  <2>2. /\ outcome' \in [Sub -> {"none", "pending", "returned", "rejected"}]
        /\ subscribed' \in [Sub -> BOOLEAN] /\ subscriptionId' \in [Sub -> Nat \cup {None}]
    BY <1>0, <1>1 DEF TypeOK
  <2> QED
    BY <1>0, <1>1, <1>4, <1>5, <2>1, <2>2 DEF TypeOK
<1>7. Counters' /\ ConnectionsCounted'
  <2>1. socket \in Nat /\ closes \in Nat
    BY <1>0, Constants DEF TypeOK
  <2>2. Counters'
    BY <1>0, <1>1, <1>4 DEF Counters
  <2>3. CASE state = "none"
    <3>1. ~retry /\ disconnects <= MaxReconnects
      BY <1>0, <2>3 DEF ConnectionsCounted
    <3> QED
      BY <1>1, <2>1, <2>2, <2>3, <3>1 DEF ConnectionsCounted
  <2>4. CASE state # "none"
    BY <1>0, <1>1, <2>2, <2>4 DEF ConnectionsCounted
  <2> QED
    BY <2>3, <2>4
<1>8. IdsApart'
  <2>1. socket <= socket' /\ socket \in Nat /\ socket' \in Nat
    BY <1>0, <1>1, <1>2, Constants DEF TypeOK
  <2>2. \A i \in DOMAIN calls : calls[i].socket \in Nat
    BY <1>0, CallFields DEF TypeOK
  <2> QED
    BY <1>0, <1>4, <2>1, <2>2 DEF IdsApart
<1>9. /\ \A r \in Sub \ {s} : /\ outcome'[r] = outcome[r] /\ subscribed'[r] = subscribed[r]
                             /\ subscriptionId'[r] = subscriptionId[r]
      /\ outcome'[s] = "pending" /\ subscribed'[s] /\ subscriptionId'[s] = None
  BY <1>0, <1>1 DEF TypeOK
<1>10. SubscriptionsKept'
  <2>1. \A r \in Sub : outcome[r] # "none" => outcome'[r] # "none"
    BY <1>9
  <2>2. \A i \in DOMAIN calls' : outcome'[calls'[i].sub] # "none"
    <3>1. \A i \in DOMAIN calls : calls[i].sub \in Sub
      BY <1>0, CallFields DEF TypeOK
    <3> QED
      BY <1>0, <1>4, <1>9, <2>1, <3>1 DEF SubscriptionsKept
  <2>3. state' # "none" /\ ended' = ended
    BY <1>1
  <2>4. \A r \in Sub : r \in ToSet(subscriptions') <=> outcome'[r] # "none"
    BY <1>0, <1>5, <1>9 DEF SubscriptionsKept
  <2>5. \A r \in Sub : subscribed'[r] \/ subscriptionId'[r] # None => outcome'[r] # "none"
    BY <1>0, <1>9 DEF SubscriptionsKept
  <2>6. \A r \in Sub : outcome'[r] # "none" /\ r \notin ended => subscribed'[r]
    BY <1>0, <1>9 DEF SubscriptionsKept
  <2> QED
    BY <2>2, <2>3, <2>4, <2>5, <2>6 DEF SubscriptionsKept
<1>11. IdsOfConnection'
  BY <1>0, <1>1, <1>9 DEF IdsOfConnection, Connected
<1>12. UnsubscribesOwn'
  <2> SUFFICES ASSUME NEW i \in DOMAIN calls', calls'[i].method = "unsubscribe",
                      calls'[i].socket = socket'
      PROVE  /\ Connected'
             /\ state' = "open" => /\ calls'[i].arg \in 1 .. nextId' - 1
                                  /\ \A r \in Sub : subscriptionId'[r] # calls'[i].arg
    BY DEF UnsubscribesOwn
  <2>1. i \in DOMAIN calls /\ calls'[i] = calls[i]
    BY <1>4
  <2>2. state # "none"
    <3>1. calls[i].socket <= socket /\ socket \in Nat
      BY <1>0, <2>1, Constants DEF IdsApart, TypeOK
    <3> QED
      BY <1>1, <1>2, <2>1, <3>1
  <2>3. socket' = socket /\ state' = state
    BY <1>1, <2>2
  <2>4. /\ Connected
        /\ state = "open" => /\ calls[i].arg \in 1 .. nextId - 1
                             /\ \A r \in Sub : subscriptionId[r] # calls[i].arg
    BY <1>0, <2>1, <2>3 DEF UnsubscribesOwn
  <2>5. state = "open" => calls[i].arg # None
    BY <1>0, <2>4, Constants DEF Counters
  <2> QED
    BY <1>1, <1>9, <2>1, <2>3, <2>4, <2>5 DEF Connected
<1>13. ServedOnce' /\ EventsReachTheirOwner'
  BY <1>0, <1>1, <1>9 DEF ServedOnce, EventsReachTheirOwner
<1>14. Asked'
  <2> SUFFICES ASSUME state' \in {"connecting", "open"}, NEW r \in Sub, outcome'[r] = "returned",
                      r \notin ended, subscriptionId'[r] = None
      PROVE  \E i \in DOMAIN calls' : AskedBy(r, i)'
    BY <1>1 DEF Asked
  <2>1. r # s /\ outcome[r] = "returned" /\ subscriptionId[r] = None
    BY <1>9
  <2>2. state # "none"
    BY <1>0, <2>1 DEF SubscriptionsKept
  <2>3. PICK i \in DOMAIN calls : AskedBy(r, i)
    BY <1>0, <1>1, <2>1, <2>2 DEF Asked
  <2> QED
    BY <1>1, <1>4, <2>2, <2>3 DEF AskedBy
<1>15. EachTimeoutRobsOne'
  BY <1>0, <1>1, <1>4, CountKeeps
<1> QED
  BY <1>6, <1>7, <1>8, <1>10, <1>11, <1>12, <1>13, <1>14, <1>15 DEF ClientInv

(* A subscription ends. *)
LEMMA UnsubscribeKeeps ==
  ASSUME ClientInv, NEW s \in Sub, Unsubscribe(s)
  PROVE  ClientInv'
<1>0. /\ TypeOK /\ Counters /\ ConnectionsCounted /\ IdsApart /\ SubscriptionsKept
      /\ IdsOfConnection /\ UnsubscribesOwn /\ ServedOnce /\ EventsReachTheirOwner
      /\ Asked /\ EachTimeoutRobsOne
  BY DEF ClientInv
<1>1. /\ outcome[s] = "returned"
      /\ subscribed' = [subscribed EXCEPT ![s] = FALSE]
      /\ subscriptionId' = [subscriptionId EXCEPT ![s] = None]
      /\ ended' = ended \cup {s}
      /\ socket' = socket /\ state' = state
      /\ UNCHANGED <<disconnects, retry, subscriptions, outcome, aborted, served, nextId, closes>>
  BY DEF Unsubscribe, Unsubscribes, connection, server
<1>2. subscriptionId[s] # None => Connected /\ socket # 0
  BY <1>0 DEF IdsOfConnection, ConnectionsCounted, Connected
<1>3. subscriptionId[s] \in Nat \cup {None}
  BY <1>0 DEF TypeOK
<1>4. /\ requestId' \in Nat /\ requestId <= requestId'
      /\ calls' \in Seq(Calls') /\ pending' \subseteq 1 .. requestId'
      /\ \A i \in DOMAIN calls : i \in DOMAIN calls' /\ calls'[i] = calls[i]
      /\ \A i \in DOMAIN calls' \ DOMAIN calls :
           /\ calls'[i].sub = s /\ calls'[i].arg = subscriptionId[s] /\ subscriptionId[s] # None
           /\ calls'[i].socket = socket
           /\ calls'[i].status # "waiting" => calls'[i].id > 0
      /\ \A i, j \in DOMAIN calls' : i # j /\ calls'[i].id = calls'[j].id => calls'[i].id = 0
      /\ Robbed' = Robbed /\ FiredTimers' = FiredTimers
  <2>1. CASE subscriptionId[s] = None
    <3>1. calls' = calls /\ pending' = pending /\ requestId' = requestId
      BY <2>1 DEF Unsubscribe, requests
    <3>2. requestId \in Nat /\ Calls' = Calls
      BY <1>0, <3>1 DEF Counters, Calls
    <3> QED
      BY <1>0, <3>1, <3>2 DEF TypeOK, IdsApart, Robbed, FiredTimers
  <2>2. CASE subscriptionId[s] # None
    <3>1. MakeRequest(s, "unsubscribe", subscriptionId[s])
      BY <2>2 DEF Unsubscribe
    <3> QED
      BY <1>0, <1>2, <1>3, <2>2, <3>1, RequestMade
  <2> QED
    BY <2>1, <2>2
<1>5. TypeOK'
  BY <1>0, <1>1, <1>4 DEF TypeOK
<1>6. Counters' /\ ConnectionsCounted' /\ ServedOnce'
  BY <1>0, <1>1, <1>4 DEF Counters, ConnectionsCounted, ServedOnce
<1>7. IdsApart'
  <2>1. socket \in Nat
    BY <1>0, Constants DEF TypeOK
  <2> QED
    BY <1>0, <1>1, <1>4, <2>1 DEF IdsApart
<1>8. /\ \A r \in Sub \ {s} : subscribed'[r] = subscribed[r] /\ subscriptionId'[r] = subscriptionId[r]
      /\ ~subscribed'[s] /\ subscriptionId'[s] = None
  BY <1>0, <1>1 DEF TypeOK
<1>9. SubscriptionsKept' /\ IdsOfConnection'
  <2>1. \A i \in DOMAIN calls' : outcome[calls'[i].sub] # "none"
    BY <1>0, <1>1, <1>4 DEF SubscriptionsKept
  <2> QED
    BY <1>0, <1>1, <1>8, <2>1 DEF SubscriptionsKept, IdsOfConnection, Connected
<1>10. UnsubscribesOwn'
  <2> SUFFICES ASSUME NEW i \in DOMAIN calls', calls'[i].method = "unsubscribe",
                      calls'[i].socket = socket
      PROVE  /\ Connected
             /\ state = "open" => /\ calls'[i].arg \in 1 .. nextId - 1
                                  /\ \A r \in Sub : subscriptionId'[r] # calls'[i].arg
    BY <1>1 DEF UnsubscribesOwn, Connected
  <2>1. CASE i \in DOMAIN calls
    <3>1. calls'[i] = calls[i]
      BY <1>4, <2>1
    <3>2. /\ Connected
          /\ state = "open" => /\ calls[i].arg \in 1 .. nextId - 1
                               /\ \A r \in Sub : subscriptionId[r] # calls[i].arg
      BY <1>0, <2>1, <3>1 DEF UnsubscribesOwn
    <3>3. state = "open" => calls[i].arg # None
      BY <1>0, <3>2, Constants DEF Counters
    <3> QED
      BY <1>8, <3>1, <3>2, <3>3
  <2>2. CASE i \notin DOMAIN calls
    <3>1. calls'[i].arg = subscriptionId[s] /\ subscriptionId[s] # None
      BY <1>4, <2>2
    <3>2. ASSUME state = "open"
          PROVE  /\ subscriptionId[s] \in 1 .. nextId - 1
                 /\ \A r \in Sub \ {s} : subscriptionId[r] # subscriptionId[s]
      <4>1. [id |-> subscriptionId[s], sub |-> s] \in served
        BY <1>0, <3>1, <3>2 DEF EventsReachTheirOwner
      <4>2. subscriptionId[s] \in 1 .. nextId - 1
        BY <1>0, <4>1 DEF TypeOK
      <4>3. ASSUME NEW r \in Sub \ {s}, subscriptionId[r] = subscriptionId[s]  PROVE FALSE
        <5>1. [id |-> subscriptionId[s], sub |-> r] \in served
          BY <1>0, <3>1, <3>2, <4>3 DEF EventsReachTheirOwner
        <5>2. [id |-> subscriptionId[s], sub |-> r] = [id |-> subscriptionId[s], sub |-> s]
          BY <1>0, <4>1, <5>1 DEF ServedOnce
        <5> QED
          BY <5>2
      <4> QED
        BY <4>2, <4>3
    <3> QED
      BY <1>2, <1>8, <3>1, <3>2
  <2> QED
    BY <2>1, <2>2
<1>11. EventsReachTheirOwner'
  BY <1>0, <1>1, <1>8 DEF EventsReachTheirOwner
<1>12. Asked'
  <2> SUFFICES ASSUME state \in {"connecting", "open"}, NEW r \in Sub, outcome[r] = "returned",
                      r \notin ended', subscriptionId'[r] = None
      PROVE  \E i \in DOMAIN calls' : AskedBy(r, i)'
    BY <1>1 DEF Asked
  <2>1. r # s /\ r \notin ended /\ subscriptionId[r] = None
    BY <1>1, <1>8
  <2>2. PICK i \in DOMAIN calls : AskedBy(r, i)
    BY <1>0, <2>1 DEF Asked
  <2> QED
    BY <1>1, <1>4, <2>2 DEF AskedBy
<1>13. EachTimeoutRobsOne'
  BY <1>0, <1>1, <1>4, CountKeeps
<1> QED
  BY <1>5, <1>6, <1>7, <1>9, <1>10, <1>11, <1>12, <1>13 DEF ClientInv

(* A connection closes. *)
LEMMA CloseKeeps == ClientInv /\ Close => ClientInv'
<1> SUFFICES ASSUME ClientInv, Close  PROVE ClientInv'
  OBVIOUS
<1>0. /\ TypeOK /\ Counters /\ ConnectionsCounted /\ IdsApart /\ SubscriptionsKept
      /\ IdsOfConnection /\ UnsubscribesOwn /\ ServedOnce /\ EventsReachTheirOwner
      /\ Asked /\ EachTimeoutRobsOne
  BY DEF ClientInv
<1>1. /\ closes < MaxCloses
      /\ state \in {"connecting", "open"}
      /\ state' = IF state = "open" THEN "lost" ELSE "failed"
      /\ disconnects' = disconnects + 1
      /\ retry' = (disconnects < MaxReconnects)
      /\ served' = {} /\ nextId' = 1
      /\ closes' = closes + 1
      /\ calls' = calls /\ pending' = pending /\ requestId' = requestId
      /\ UNCHANGED <<socket, subscriptions, subscribed, subscriptionId, outcome, aborted, ended>>
  BY DEF Close, RetryAllowed, requests, subs, users
<1>2. TypeOK'
  <2>1. disconnects' \in 0 .. MaxReconnects + 1 /\ closes' \in 0 .. MaxCloses
    BY <1>0, <1>1, Constants DEF TypeOK, ConnectionsCounted
  <2>2. Calls' = Calls
    BY <1>1 DEF Calls
  <2> QED
    BY <1>0, <1>1, <2>1, <2>2 DEF TypeOK
<1>3. ConnectionsCounted'
  BY <1>0, <1>1, Constants DEF TypeOK, ConnectionsCounted
<1>4. Counters' /\ IdsApart' /\ SubscriptionsKept' /\ IdsOfConnection'
  BY <1>0, <1>1 DEF Counters, IdsApart, SubscriptionsKept, IdsOfConnection, Connected
<1>5. UnsubscribesOwn' /\ ServedOnce' /\ EventsReachTheirOwner' /\ Asked'
  BY <1>0, <1>1 DEF UnsubscribesOwn, ServedOnce, EventsReachTheirOwner, Asked, Connected
<1>6. EachTimeoutRobsOne'
  <2>1. Robbed' = Robbed /\ FiredTimers' = FiredTimers
    BY <1>1 DEF Robbed, FiredTimers
  <2> QED
    BY <1>0, <1>1, <2>1, CountKeeps
<1> QED
  BY <1>2, <1>3, <1>4, <1>5, <1>6 DEF ClientInv

(* The entry that is deleted is that of one request at most. *)
LEMMA OneLatest ==
  ASSUME IdsApart
  PROVE  \E x : \A i \in DOMAIN calls : calls[i].status = "sent" /\ calls[i].id = requestId => i = x
<1> DEFINE L == {i \in DOMAIN calls : calls[i].status = "sent" /\ calls[i].id = requestId}
<1>1. \A i, j \in L : i = j
  BY DEF IdsApart
<1> QED
  BY <1>1

(* A set with one more. *)
LEMMA OneMore ==
  ASSUME NEW S, IsFiniteSet(S), NEW x, NEW T, T \subseteq S \cup {x}
  PROVE  Cardinality(T) <= Cardinality(S) + 1
<1>0. Cardinality(S) \in Nat
  BY FS_CardinalityType
<1>1. IsFiniteSet(S \cup {x}) /\ Cardinality(S \cup {x}) <= Cardinality(S) + 1
  <2>1. /\ IsFiniteSet(S \cup {x})
        /\ Cardinality(S \cup {x}) = IF x \in S THEN Cardinality(S) ELSE Cardinality(S) + 1
    BY FS_AddElement
  <2> QED
    BY <1>0, <2>1
<1>2. Cardinality(T) <= Cardinality(S \cup {x})
  BY <1>1, FS_Subset
<1>3. IsFiniteSet(T)
  BY <1>1, FS_Subset
<1>4. Cardinality(T) \in Nat /\ Cardinality(S \cup {x}) \in Nat /\ Cardinality(S) \in Nat
  BY <1>1, <1>3, FS_CardinalityType
<1> QED
  BY <1>1, <1>2, <1>4

(* A request changes, but for what it asks for and where. *)
LEMMA RequestChanges ==
  ASSUME TypeOK, NEW i \in DOMAIN calls, NEW x \in Calls, calls' = [calls EXCEPT ![i] = x],
         requestId' = requestId,
         x.sub = calls[i].sub, x.method = calls[i].method, x.arg = calls[i].arg,
         x.socket = calls[i].socket, x.id = calls[i].id
  PROVE  /\ calls' \in Seq(Calls') /\ DOMAIN calls' = DOMAIN calls
         /\ \A j \in DOMAIN calls :
              /\ calls'[j].sub = calls[j].sub /\ calls'[j].method = calls[j].method
              /\ calls'[j].arg = calls[j].arg /\ calls'[j].socket = calls[j].socket
              /\ calls'[j].id = calls[j].id
         /\ \A j \in DOMAIN calls : j # i => calls'[j] = calls[j]
         /\ calls'[i] = x
<1>1. calls \in Seq(Calls) /\ Calls' = Calls
  BY DEF TypeOK, Calls
<1>2. DOMAIN calls = 1 .. Len(calls)
  BY <1>1, LenProperties
<1>3. /\ calls' \in Seq(Calls) /\ DOMAIN calls' = DOMAIN calls /\ calls'[i] = x
      /\ \A j \in DOMAIN calls : j # i => calls'[j] = calls[j]
  <2>1. calls' \in Seq(Calls) /\ Len(calls') = Len(calls)
    BY <1>1, <1>2, ExceptSeq
  <2>2. DOMAIN calls' = DOMAIN calls
    OBVIOUS
  <2> QED
    BY <2>1, <2>2
<1> QED
  BY <1>1, <1>3

(* The timer of a request fires. *)
LEMMA TimeoutKeeps ==
  ASSUME ClientInv, NEW i \in DOMAIN calls, Timeout(i)
  PROVE  ClientInv'
<1> DEFINE x == [calls[i] EXCEPT !.status = IF @ = "sent" THEN "timedOut" ELSE "expired"]
<1>0. /\ TypeOK /\ Counters /\ ConnectionsCounted /\ IdsApart /\ SubscriptionsKept
      /\ IdsOfConnection /\ UnsubscribesOwn /\ ServedOnce /\ EventsReachTheirOwner
      /\ Asked /\ EachTimeoutRobsOne
  BY DEF ClientInv
<1>1. /\ calls[i].status \in {"sent", "aborted"}
      /\ pending' = pending \ {requestId}
      /\ calls' = [calls EXCEPT ![i] = x]
      /\ outcome' = IF IsFirst(i) /\ outcome[calls[i].sub] = "pending"
                     THEN [outcome EXCEPT ![calls[i].sub] = "rejected"] ELSE outcome
      /\ UNCHANGED <<requestId, socket, state, disconnects, retry, subscriptions, subscribed,
                     subscriptionId, aborted, ended, served, nextId, closes>>
  BY DEF Timeout, RunsTimer, LatestDeleted, Rejects, connection, subs, server
<1>2. calls[i] \in Calls /\ calls[i].sub \in Sub
  BY <1>0, CallFields DEF TypeOK
<1>3. /\ x \in Calls /\ x.sub = calls[i].sub /\ x.method = calls[i].method
      /\ x.arg = calls[i].arg /\ x.socket = calls[i].socket /\ x.id = calls[i].id
      /\ x.status \in {"timedOut", "expired"}
  BY <1>2 DEF Calls
<1> HIDE DEF x
<1>4. /\ calls' \in Seq(Calls') /\ DOMAIN calls' = DOMAIN calls
      /\ \A j \in DOMAIN calls :
           /\ calls'[j].sub = calls[j].sub /\ calls'[j].method = calls[j].method
           /\ calls'[j].arg = calls[j].arg /\ calls'[j].socket = calls[j].socket
           /\ calls'[j].id = calls[j].id
      /\ \A j \in DOMAIN calls : j # i => calls'[j] = calls[j]
      /\ calls'[i] = x
  BY <1>0, <1>1, <1>3, RequestChanges
<1>5. \A s \in Sub : /\ outcome'[s] \in {"none", "pending", "returned", "rejected"}
                     /\ outcome'[s] # outcome[s] => outcome[s] = "pending" /\ outcome'[s] = "rejected"
  BY <1>0, <1>1, <1>2 DEF TypeOK
<1>6. TypeOK'
  <2>1. outcome' \in [Sub -> {"none", "pending", "returned", "rejected"}]
    BY <1>0, <1>1, <1>2 DEF TypeOK
  <2> QED
    BY <1>0, <1>1, <1>4, <2>1 DEF TypeOK
<1>7. Counters' /\ ConnectionsCounted' /\ IdsOfConnection' /\ ServedOnce' /\ EventsReachTheirOwner'
  BY <1>0, <1>1 DEF Counters, ConnectionsCounted, IdsOfConnection, ServedOnce,
                    EventsReachTheirOwner, Connected
<1>8. IdsApart'
  <2>1. calls'[i].id > 0
    BY <1>0, <1>1, <1>4 DEF IdsApart
  <2> QED
    BY <1>0, <1>1, <1>4, <2>1 DEF IdsApart
<1>9. SubscriptionsKept'
  <2>1. \A s \in Sub : outcome'[s] = "none" <=> outcome[s] = "none"
    BY <1>5
  <2>2. \A j \in DOMAIN calls' : calls'[j].sub \in Sub /\ outcome[calls'[j].sub] # "none"
    BY <1>0, <1>4, CallFields DEF SubscriptionsKept, TypeOK
  <2> QED
    BY <1>0, <1>1, <2>1, <2>2 DEF SubscriptionsKept
<1>10. UnsubscribesOwn'
  BY <1>0, <1>1, <1>4 DEF UnsubscribesOwn, Connected
<1>11. Asked'
  <2> SUFFICES ASSUME state \in {"connecting", "open"}, NEW r \in Sub, outcome'[r] = "returned",
                      r \notin ended, subscriptionId[r] = None
      PROVE  \E j \in DOMAIN calls : AskedBy(r, j)'
    BY <1>1, <1>4 DEF Asked
  <2>1. outcome[r] = "returned"
    BY <1>5
  <2>2. PICK j \in DOMAIN calls : AskedBy(r, j)
    BY <1>0, <2>1 DEF Asked
  <2> QED
    BY <1>1, <1>3, <1>4, <2>2 DEF AskedBy
<1>12. EachTimeoutRobsOne'
  <2>1. FiredTimers' = FiredTimers \cup {i} /\ i \notin FiredTimers
    BY <1>1, <1>3, <1>4 DEF FiredTimers
  <2>2. Cardinality(FiredTimers') = Cardinality(FiredTimers) + 1
    BY <1>0, <2>1, SetsFinite, FS_AddElement
  <2>3. PICK y : \A j \in DOMAIN calls : calls[j].status = "sent" /\ calls[j].id = requestId => j = y
    BY <1>0, OneLatest
  <2>4. Robbed' \subseteq Robbed \cup {y}
    BY <1>1, <1>3, <1>4, <2>3 DEF Robbed
  <2>5. Cardinality(Robbed') <= Cardinality(Robbed) + 1
    BY <1>0, <2>4, SetsFinite, OneMore
  <2>6. Cardinality(Robbed') \in Nat
    BY <1>6, <1>0, <2>4, SetsFinite, FS_AddElement, FS_Subset, FS_CardinalityType
  <2> QED
    BY <1>0, <1>1, <2>2, <2>5, <2>6, SetsFinite DEF EachTimeoutRobsOne
<1> QED
  BY <1>6, <1>7, <1>8, <1>9, <1>10, <1>11, <1>12 DEF ClientInv

(* The client reconnects and asks for its subscriptions again. *)
LEMMA ReconnectKeeps == ClientInv /\ Reconnect => ClientInv'
<1> SUFFICES ASSUME ClientInv, Reconnect  PROVE ClientInv'
  OBVIOUS
<1> DEFINE made == [i \in DOMAIN subscriptions |-> NewCall(subscriptions[i], "subscribe", None, socket + 1)]
           n == Len(calls)
           m == Len(subscriptions)
<1>0. /\ TypeOK /\ Counters /\ ConnectionsCounted /\ IdsApart /\ SubscriptionsKept
      /\ IdsOfConnection /\ UnsubscribesOwn /\ ServedOnce /\ EventsReachTheirOwner
      /\ Asked /\ EachTimeoutRobsOne
  BY DEF ClientInv
<1>1. /\ retry /\ retry' = FALSE
      /\ socket' = socket + 1 /\ state' = "connecting"
      /\ subscribed' = [s \in Sub |-> s \in ToSet(subscriptions) \/ subscribed[s]]
      /\ subscriptionId' = [s \in Sub |-> IF s \in ToSet(subscriptions) THEN None ELSE subscriptionId[s]]
      /\ calls' = calls \o made
      /\ UNCHANGED <<pending, requestId, disconnects, subscriptions, outcome, aborted, ended,
                     served, nextId, closes>>
  BY DEF Reconnect, Subscribes, AwaitNew, users, server
<1>2. /\ state \in {"lost", "failed"} /\ socket \in Nat /\ socket <= closes
      /\ disconnects <= MaxReconnects /\ socket # 0
  BY <1>0, <1>1, Constants DEF ConnectionsCounted, TypeOK
<1>3. /\ m \in Nat /\ DOMAIN subscriptions = 1 .. m
      /\ \A i \in 1 .. m : subscriptions[i] \in Sub
  BY <1>0, LenProperties, ElementOfSeq DEF TypeOK
<1>4. /\ made \in Seq(Calls) /\ Len(made) = m
      /\ \A i \in 1 .. m : made[i] = NewCall(subscriptions[i], "subscribe", None, socket + 1)
  <2>1. Calls' = Calls
    BY <1>1 DEF Calls
  <2>2. \A i \in 1 .. m : NewCall(subscriptions[i], "subscribe", None, socket + 1) \in Calls
    <3> TAKE i \in 1 .. m
    <3>1. requestId' \in Nat /\ subscriptions[i] \in Sub /\ socket + 1 \in Nat /\ None \in Nat \cup {None}
      BY <1>0, <1>1, <1>2, <1>3 DEF Counters
    <3>2. NewCall(subscriptions[i], "subscribe", None, socket + 1) \in Calls'
      BY <3>1, NewCallTyped
    <3> QED
      BY <2>1, <3>2
  <2>3. made \in [1 .. m -> Calls]
    BY <1>3, <2>2
  <2>4. made \in Seq(Calls)
    BY <1>3, <2>3, IsASeq
  <2>5. Len(made) = m
    BY <1>3, <2>3, <2>4, LenProperties
  <2> QED
    BY <1>3, <2>4, <2>5
<1>5. n \in Nat /\ DOMAIN calls = 1 .. n /\ calls \in Seq(Calls)
  BY <1>0, LenProperties DEF TypeOK
<1>6. /\ calls' \in Seq(Calls) /\ Len(calls') = n + m
      /\ \A i \in 1 .. n + m : calls'[i] = IF i <= n THEN calls[i] ELSE made[i - n]
  <2> HIDE DEF made
  <2>1. /\ calls \o made \in Seq(Calls) /\ Len(calls \o made) = Len(calls) + Len(made)
        /\ \A i \in 1 .. Len(calls) + Len(made) :
             (calls \o made)[i] = IF i <= Len(calls) THEN calls[i] ELSE made[i - Len(calls)]
    BY <1>4, <1>5, ConcatProperties
  <2>2. Len(calls) + Len(made) = n + m
    BY <1>4
  <2> HIDE DEF n, m
  <2> QED
    BY <1>1, <2>1, <2>2 DEF n
<1>7. DOMAIN calls' = 1 .. n + m
  BY <1>6, LenProperties
<1> HIDE DEF made, n, m
<1>8. \A i \in DOMAIN calls : i \in DOMAIN calls' /\ calls'[i] = calls[i]
  BY <1>3, <1>5, <1>6, <1>7
<1>9. ASSUME NEW i \in DOMAIN calls' \ DOMAIN calls
      PROVE  /\ calls'[i].method = "subscribe" /\ calls'[i].socket = socket + 1
             /\ calls'[i].status = "waiting" /\ calls'[i].id = 0
             /\ calls'[i].sub \in ToSet(subscriptions) \cap Sub
  <2>1. i - n \in 1 .. m /\ ~(i <= n) /\ i \in 1 .. n + m
    BY <1>3, <1>5, <1>7, <1>9
  <2>2. calls'[i] = NewCall(subscriptions[i - n], "subscribe", None, socket + 1)
    BY <1>4, <1>6, <2>1
  <2>3. subscriptions[i - n] \in ToSet(subscriptions) \cap Sub
    BY <1>3, <2>1 DEF ToSet
  <2> QED
    BY <2>2, <2>3 DEF NewCall
<1>10. \A s \in ToSet(subscriptions) : \E i \in DOMAIN calls' :
         /\ calls'[i].sub = s /\ calls'[i].method = "subscribe" /\ calls'[i].socket = socket + 1
         /\ calls'[i].status = "waiting"
  <2> TAKE s \in ToSet(subscriptions)
  <2>1. PICK k \in 1 .. m : s = subscriptions[k]
    BY <1>3 DEF ToSet
  <2>2. n + k \in 1 .. n + m /\ ~(n + k <= n) /\ (n + k) - n = k
    BY <1>3, <1>5
  <2>3. calls'[n + k] = NewCall(s, "subscribe", None, socket + 1)
    BY <1>4, <1>6, <2>1, <2>2
  <2>4. n + k \in DOMAIN calls'
    BY <1>7, <2>2
  <2> QED
    BY <2>3, <2>4 DEF NewCall
<1>11. TypeOK'
  <2>1. socket' \in 0 .. MaxCloses + 1
    BY <1>0, <1>1, <1>2, Constants DEF TypeOK
  <2>2. /\ subscribed' \in [Sub -> BOOLEAN] /\ subscriptionId' \in [Sub -> Nat \cup {None}]
    BY <1>0, <1>1 DEF TypeOK
  <2>3. Calls' = Calls
    BY <1>1 DEF Calls
  <2> QED
    BY <1>0, <1>1, <1>6, <2>1, <2>2, <2>3 DEF TypeOK
<1>12. Counters' /\ ConnectionsCounted'
  <2>1. closes \in Nat
    BY <1>0, Constants DEF TypeOK
  <2> QED
    BY <1>0, <1>1, <1>2, <2>1 DEF Counters, ConnectionsCounted
<1>13. IdsApart'
  <2>1. \A i \in DOMAIN calls : calls[i].socket \in Nat
    BY <1>5, CallFields
  <2>2. \A i \in DOMAIN calls' : calls'[i].socket <= socket'
                                /\ (calls'[i].status # "waiting" => calls'[i].id > 0)
    BY <1>0, <1>1, <1>2, <1>8, <1>9, <2>1 DEF IdsApart
  <2>3. \A i, j \in DOMAIN calls' : i # j /\ calls'[i].id = calls'[j].id => calls'[i].id = 0
    BY <1>0, <1>8, <1>9 DEF IdsApart
  <2> QED
    BY <2>2, <2>3 DEF IdsApart
<1>14. \A s \in Sub : subscriptionId'[s] = None /\ (subscribed[s] => subscribed'[s])
                      /\ (subscribed'[s] => s \in ToSet(subscriptions))
  BY <1>0, <1>1 DEF SubscriptionsKept
<1>15. SubscriptionsKept' /\ IdsOfConnection'
  <2>1. \A i \in DOMAIN calls' : outcome[calls'[i].sub] # "none"
    BY <1>0, <1>8, <1>9 DEF SubscriptionsKept
  <2> QED
    BY <1>0, <1>1, <1>14, <2>1 DEF SubscriptionsKept, IdsOfConnection
<1>16. UnsubscribesOwn'
  <2>1. \A i \in DOMAIN calls' : ~(calls'[i].method = "unsubscribe" /\ calls'[i].socket = socket')
    <3> SUFFICES ASSUME NEW i \in DOMAIN calls, calls[i].socket = socket + 1  PROVE FALSE
      BY <1>1, <1>8, <1>9
    <3> QED
      BY <1>0, <1>2 DEF IdsApart
  <2> QED
    BY <2>1 DEF UnsubscribesOwn
<1>17. ServedOnce' /\ EventsReachTheirOwner'
  BY <1>0, <1>1 DEF ServedOnce, EventsReachTheirOwner
<1>18. Asked'
  <2> SUFFICES ASSUME NEW s \in Sub, outcome[s] = "returned"
      PROVE  \E i \in DOMAIN calls' : AskedBy(s, i)'
    BY <1>1 DEF Asked
  <2>1. s \in ToSet(subscriptions)
    BY <1>0 DEF SubscriptionsKept
  <2> QED
    BY <1>1, <1>10, <2>1 DEF AskedBy
<1>19. EachTimeoutRobsOne'
  <2>1. Robbed' = Robbed /\ FiredTimers' = FiredTimers
    BY <1>1, <1>8, <1>9 DEF Robbed, FiredTimers
  <2> QED
    BY <1>0, <1>1, <2>1, CountKeeps
<1> QED
  BY <1>11, <1>12, <1>13, <1>15, <1>16, <1>17, <1>18, <1>19 DEF ClientInv

(* How many of a set of numbers come up to each of them. *)
LEMMA Ranks ==
  ASSUME NEW W \in SUBSET Nat, IsFiniteSet(W)
  PROVE  /\ \A i \in W : Cardinality({j \in W : j <= i}) \in 1 .. Cardinality(W)
         /\ \A i, k \in W : i < k => Cardinality({j \in W : j <= i}) < Cardinality({j \in W : j <= k})
<1> DEFINE U(i) == {j \in W : j <= i}
<1>0. \A i \in W : /\ U(i) \subseteq W /\ i \in U(i) /\ IsFiniteSet(U(i))
                   /\ Cardinality(U(i)) \in Nat /\ Cardinality(U(i)) <= Cardinality(W)
                   /\ Cardinality(U(i)) # 0
  <2> TAKE i \in W
  <2>1. U(i) \in SUBSET W /\ i \in U(i)
    OBVIOUS
  <2> HIDE DEF U
  <2>2. IsFiniteSet(U(i)) /\ Cardinality(U(i)) <= Cardinality(W)
    BY <2>1, FS_Subset
  <2>3. Cardinality(U(i)) \in Nat /\ Cardinality(U(i)) # 0
    BY <2>1, <2>2, FS_CardinalityType, FS_EmptySet
  <2> QED
    BY <2>1, <2>2, <2>3
<1>1. ASSUME NEW i \in W, NEW k \in W, i < k
      PROVE  U(i) \subseteq U(k) /\ k \notin U(i)
  <2>1. i \in Nat /\ k \in Nat
    OBVIOUS
  <2>2. ASSUME NEW j \in U(i)  PROVE j \in U(k)
    <3>1. j \in Nat /\ j \in W /\ j <= i
      OBVIOUS
    <3> QED
      BY <1>1, <2>1, <3>1
  <2>3. k \notin U(i)
    BY <1>1, <2>1
  <2> QED
    BY <2>2, <2>3
<1>2. Cardinality(W) \in Nat
  BY FS_CardinalityType
<1> HIDE DEF U
<1>3. \A i \in W : Cardinality(U(i)) \in 1 .. Cardinality(W)
  BY <1>0, <1>2
<1>4. ASSUME NEW i \in W, NEW k \in W, i < k  PROVE Cardinality(U(i)) < Cardinality(U(k))
  <2>1. U(i) \in SUBSET U(k) /\ U(i) # U(k)
    BY <1>0, <1>1, <1>4
  <2>2. Cardinality(U(i)) <= Cardinality(U(k)) /\ Cardinality(U(i)) # Cardinality(U(k))
    BY <1>0, <2>1, FS_Subset
  <2> QED
    BY <1>0, <2>2
<1> QED
  BY <1>3, <1>4 DEF U

(* A connection opens and the waiting requests are sent. *)
LEMMA OpenKeeps == ClientInv /\ Open => ClientInv'
<1> SUFFICES ASSUME ClientInv, Open  PROVE ClientInv'
  OBVIOUS
<1> DEFINE waits == {i \in DOMAIN calls : calls[i].status = "waiting" /\ calls[i].socket = socket}
           rank(i) == Cardinality({j \in waits : j <= i})
           m == Cardinality(waits)
<1>0. /\ TypeOK /\ Counters /\ ConnectionsCounted /\ IdsApart /\ SubscriptionsKept
      /\ IdsOfConnection /\ UnsubscribesOwn /\ ServedOnce /\ EventsReachTheirOwner
      /\ Asked /\ EachTimeoutRobsOne
  BY DEF ClientInv
<1>1. /\ state = "connecting" /\ state' = "open"
      /\ disconnects' = 0
      /\ calls' = [i \in DOMAIN calls |-> IF i \in waits THEN Sent(calls[i], requestId + rank(i)) ELSE calls[i]]
      /\ requestId' = requestId + m
      /\ pending' = pending \cup (requestId + 1 .. requestId')
      /\ UNCHANGED <<socket, retry, subscriptions, subscribed, subscriptionId, outcome, aborted,
                     ended, served, nextId, closes>>
  BY DEF Open, subs, users, server
<1>2. /\ Len(calls) \in Nat /\ DOMAIN calls = 1 .. Len(calls) /\ calls \in Seq(Calls)
      /\ \A i \in DOMAIN calls : calls[i] \in Calls /\ calls[i].id \in 0 .. requestId
  BY <1>0, CallFields DEF TypeOK
<1>3. waits \in SUBSET Nat /\ IsFiniteSet(waits) /\ m \in Nat /\ waits \subseteq DOMAIN calls
  <2>1. IsFiniteSet(1 .. Len(calls)) /\ waits \in SUBSET (1 .. Len(calls)) /\ waits \in SUBSET Nat
    BY <1>2, FS_Interval
  <2> QED
    BY <1>2, <2>1, FS_Subset, FS_CardinalityType
<1>4. /\ \A i \in waits : rank(i) \in 1 .. m
      /\ \A i, j \in waits : i < j => rank(i) < rank(j)
  BY <1>3, Ranks
<1>5. \A i \in waits : calls[i].status = "waiting" /\ calls[i].socket = socket
  OBVIOUS
<1> HIDE DEF waits, rank, m
<1>6. requestId \in Nat /\ requestId' \in Nat /\ requestId <= requestId'
  BY <1>0, <1>1, <1>3 DEF Counters
<1>7. Calls \subseteq Calls'
  BY <1>6, CallsWiden
<1>8. DOMAIN calls' = DOMAIN calls
  BY <1>1
<1>9. ASSUME NEW i \in DOMAIN calls
      PROVE  /\ calls'[i] \in Calls'
             /\ calls'[i].sub = calls[i].sub /\ calls'[i].method = calls[i].method
             /\ calls'[i].arg = calls[i].arg /\ calls'[i].socket = calls[i].socket
             /\ i \notin waits => calls'[i] = calls[i]
             /\ i \in waits => calls'[i].status = "sent" /\ calls'[i].id = requestId + rank(i)
  <2>1. CASE i \in waits
    <3>1. requestId + rank(i) \in 0 .. requestId'
      <4>1. rank(i) \in 1 .. m
        BY <1>4, <2>1
      <4> QED
        BY <1>1, <1>3, <1>6, <4>1
    <3>2. calls'[i] = Sent(calls[i], requestId + rank(i)) /\ calls[i] \in Calls /\ calls[i] \in Calls'
      BY <1>1, <1>2, <1>7, <2>1
    <3>3. calls'[i] \in Calls'
      BY <3>1, <3>2, SentTyped
    <3> QED
      BY <2>1, <3>2, <3>3 DEF Sent, Calls
  <2>2. CASE i \notin waits
    BY <1>1, <1>2, <1>7, <2>2
  <2> QED
    BY <2>1, <2>2
<1>10. calls' \in Seq(Calls')
  <2>1. calls' \in [1 .. Len(calls) -> Calls']
    BY <1>1, <1>2, <1>8, <1>9
  <2> QED
    BY <1>2, <2>1, IsASeq
<1>11. TypeOK'
  <2>1. pending' \subseteq 1 .. requestId'
    <3>1. pending \subseteq 1 .. requestId
      BY <1>0 DEF TypeOK
    <3>2. 1 .. requestId \subseteq 1 .. requestId' /\ requestId + 1 .. requestId' \subseteq 1 .. requestId'
      BY <1>6
    <3> QED
      BY <1>1, <3>1, <3>2
  <2> QED
    BY <1>0, <1>1, <1>10, <2>1, Constants DEF TypeOK
<1>12. Counters' /\ ConnectionsCounted'
  BY <1>0, <1>1, <1>6, Constants DEF Counters, ConnectionsCounted
<1>13. IdsApart'
  <2>1. \A i \in waits : calls'[i].id > requestId
    BY <1>3, <1>4, <1>6, <1>9
  <2>2. \A i \in DOMAIN calls \ waits : ~(calls'[i].id > requestId)
    BY <1>2, <1>6, <1>9
  <2>3. ASSUME NEW i \in DOMAIN calls, NEW j \in DOMAIN calls, i # j, calls'[i].id = calls'[j].id
        PROVE  calls'[i].id = 0
    <3>1. CASE i \in waits /\ j \in waits
      <4>1. rank(i) = rank(j) /\ rank(i) \in Nat /\ rank(j) \in Nat
        BY <1>3, <1>4, <1>6, <1>9, <2>3, <3>1
      <4>2. i \in Nat /\ j \in Nat
        BY <1>3, <3>1
      <4>3. i < j \/ j < i
        BY <2>3, <4>2
      <4> QED
        BY <1>4, <3>1, <4>1, <4>3
    <3>2. CASE i \notin waits /\ j \notin waits
      BY <1>0, <1>9, <2>3, <3>2 DEF IdsApart
    <3> QED
      BY <2>1, <2>2, <2>3, <3>1, <3>2
  <2>4. \A i \in DOMAIN calls : calls'[i].status # "waiting" => calls'[i].id > 0
    <3>1. \A i \in waits : calls'[i].id > 0
      BY <1>3, <1>4, <1>6, <1>9
    <3> QED
      BY <1>0, <1>9, <3>1 DEF IdsApart
  <2> QED
    BY <1>0, <1>1, <1>8, <1>9, <2>3, <2>4 DEF IdsApart
<1>14. SubscriptionsKept' /\ IdsOfConnection'
  BY <1>0, <1>1, <1>8, <1>9 DEF SubscriptionsKept, IdsOfConnection, Connected
<1>15. UnsubscribesOwn'
  <2>1. ~Connected
    BY <1>1 DEF Connected
  <2> QED
    BY <1>0, <1>1, <1>8, <1>9, <2>1 DEF UnsubscribesOwn
<1>16. ServedOnce' /\ EventsReachTheirOwner'
  <2>1. ~Connected
    BY <1>1 DEF Connected
  <2> QED
    BY <1>0, <1>1, <2>1 DEF ServedOnce, EventsReachTheirOwner, IdsOfConnection
<1>17. Asked'
  <2> SUFFICES ASSUME NEW s \in Sub, outcome[s] = "returned", s \notin ended, subscriptionId[s] = None
      PROVE  \E i \in DOMAIN calls : AskedBy(s, i)'
    BY <1>1, <1>8 DEF Asked
  <2>1. PICK i \in DOMAIN calls : AskedBy(s, i)
    BY <1>0, <1>1 DEF Asked
  <2>2. calls'[i].status # "done"
    BY <1>9, <2>1 DEF AskedBy
  <2> QED
    BY <1>1, <1>9, <2>1, <2>2 DEF AskedBy
<1>18. EachTimeoutRobsOne'
  <2>1. \A i \in waits : calls'[i].id \in pending'
    BY <1>1, <1>3, <1>4, <1>6, <1>9
  <2>2. \A i \in DOMAIN calls : calls[i].id \in pending' <=> calls[i].id \in pending
    BY <1>1, <1>2, <1>6
  <2>3. Robbed' = Robbed
    BY <1>5, <1>8, <1>9, <2>1, <2>2 DEF Robbed
  <2>4. FiredTimers' = FiredTimers
    BY <1>5, <1>8, <1>9 DEF FiredTimers
  <2> QED
    BY <1>0, <1>1, <2>3, <2>4, CountKeeps
<1> QED
  BY <1>11, <1>12, <1>13, <1>14, <1>15, <1>16, <1>17, <1>18 DEF ClientInv

(* A signal is aborted. *)
LEMMA AbortKeeps ==
  ASSUME ClientInv, NEW s \in Sub, Abort(s)
  PROVE  ClientInv'
<1> DEFINE listening == {i \in DOMAIN calls :
                           calls[i].sub = s /\ calls[i].method = "subscribe" /\ calls[i].id > 0}
           left == IF listening = {} THEN pending ELSE pending \ {requestId}
           aborts(i) == [calls[i] EXCEPT !.status = "aborted"]
           r == [i \in DOMAIN calls |->
                   IF i \in listening /\ calls[i].status = "sent" THEN aborts(i) ELSE calls[i]]
           ends == outcome[s] = "returned" /\ subscriptionId[s] # None
           x == Sent(NewCall(s, "unsubscribe", subscriptionId[s], socket), requestId + 1)
<1>0. /\ TypeOK /\ Counters /\ ConnectionsCounted /\ IdsApart /\ SubscriptionsKept
      /\ IdsOfConnection /\ UnsubscribesOwn /\ ServedOnce /\ EventsReachTheirOwner
      /\ Asked /\ EachTimeoutRobsOne
  BY DEF ClientInv
<1>1. /\ s \notin aborted /\ outcome[s] # "none"
      /\ aborted' = aborted \cup {s}
      /\ requestId' = IF ends THEN requestId + 1 ELSE requestId
      /\ pending' = IF ends THEN left \cup {requestId + 1} ELSE left
      /\ calls' = IF ends THEN Append(r, x) ELSE r
      /\ IF outcome[s] = "returned"
           THEN /\ subscribed' = [subscribed EXCEPT ![s] = FALSE]
                /\ subscriptionId' = [subscriptionId EXCEPT ![s] = None]
                /\ ended' = ended \cup {s}
           ELSE UNCHANGED <<subscribed, subscriptionId, ended>>
      /\ outcome' = IF outcome[s] = "pending" /\ \E i \in listening : IsFirst(i)
                    THEN [outcome EXCEPT ![s] = "rejected"] ELSE outcome
      /\ UNCHANGED <<socket, state, disconnects, retry, subscriptions, served, nextId, closes>>
  BY DEF Abort, Unsubscribes, connection, server
<1>2. /\ calls \in Seq(Calls) /\ Len(calls) \in Nat /\ DOMAIN calls = 1 .. Len(calls)
      /\ \A i \in DOMAIN calls : calls[i] \in Calls /\ calls[i].id \in 0 .. requestId
                                /\ calls[i].sub \in Sub
  BY <1>0, CallFields DEF TypeOK
<1>3. \A i \in DOMAIN calls :
        /\ aborts(i) \in Calls /\ aborts(i).sub = calls[i].sub /\ aborts(i).method = calls[i].method
        /\ aborts(i).arg = calls[i].arg /\ aborts(i).socket = calls[i].socket
        /\ aborts(i).id = calls[i].id /\ aborts(i).status = "aborted"
  BY <1>2 DEF Calls
<1>4. /\ DOMAIN r = DOMAIN calls
      /\ \A i \in DOMAIN r : /\ r[i] \in Calls /\ r[i].sub = calls[i].sub /\ r[i].method = calls[i].method
                             /\ r[i].arg = calls[i].arg /\ r[i].socket = calls[i].socket
                             /\ r[i].id = calls[i].id
                             /\ \/ r[i].status = calls[i].status
                                \/ calls[i].status = "sent" /\ r[i].status = "aborted"
  <2> HIDE DEF aborts, listening
  <2> QED
    BY <1>2, <1>3
<1>5. r \in Seq(Calls) /\ Len(r) = Len(calls)
  <2> HIDE DEF r
  <2>1. r \in Seq(Calls)
    <3>1. r \in [1 .. Len(calls) -> Calls]
      BY <1>2, <1>4 DEF r
    <3> QED
      BY <1>2, <3>1, IsASeq
  <2>2. DOMAIN r = 1 .. Len(r) /\ Len(r) \in Nat
    BY <2>1, LenProperties
  <2> QED
    <3>1. \A i \in Nat : i \in 1 .. Len(r) <=> i \in 1 .. Len(calls)
      BY <1>2, <1>4, <2>2
    <3>2. Len(r) \in Nat /\ Len(calls) \in Nat
      BY <1>2, <2>2
    <3>3. Len(r) <= Len(calls) /\ Len(calls) <= Len(r)
      BY <3>1, <3>2
    <3> QED
      BY <2>1, <3>2, <3>3
<1>6. ends => Connected /\ socket # 0
  BY <1>0 DEF IdsOfConnection, ConnectionsCounted, Connected
<1>7. requestId \in Nat /\ requestId' \in Nat /\ requestId <= requestId'
  BY <1>0, <1>1 DEF Counters
<1>8. ends => /\ x \in Calls' /\ x.sub = s /\ x.arg = subscriptionId[s]
              /\ x.socket = socket /\ x.id = requestId + 1 /\ x.status = "sent"
  <2> SUFFICES ASSUME ends
      PROVE  /\ x \in Calls' /\ x.sub = s /\ x.arg = subscriptionId[s]
             /\ x.socket = socket /\ x.id = requestId + 1 /\ x.status = "sent"
    OBVIOUS
  <2>1. subscriptionId[s] \in Nat \cup {None} /\ socket \in Nat /\ requestId + 1 \in 0 .. requestId'
    BY <1>0, <1>1, <1>7, Constants DEF TypeOK
  <2>2. NewCall(s, "unsubscribe", subscriptionId[s], socket) \in Calls'
    BY <1>7, <2>1, NewCallTyped
  <2>3. x \in Calls'
    BY <2>1, <2>2, SentTyped
  <2> QED
    BY <2>3 DEF NewCall, Sent
<1>9. pending \subseteq 1 .. requestId /\ left \subseteq pending /\ pending \ left \subseteq {requestId}
  BY <1>0 DEF TypeOK
<1> HIDE DEF listening, left, aborts, r, x
<1>10. /\ calls' \in Seq(Calls')
       /\ \A i \in DOMAIN calls :
            /\ i \in DOMAIN calls'
            /\ calls'[i].sub = calls[i].sub /\ calls'[i].method = calls[i].method
            /\ calls'[i].arg = calls[i].arg /\ calls'[i].socket = calls[i].socket
            /\ calls'[i].id = calls[i].id
            /\ \/ calls'[i].status = calls[i].status
               \/ calls[i].status = "sent" /\ calls'[i].status = "aborted"
       /\ \A i \in DOMAIN calls' \ DOMAIN calls :
            /\ ends /\ i = Len(calls) + 1
            /\ calls'[i].sub = s /\ calls'[i].arg = subscriptionId[s]
            /\ calls'[i].socket = socket /\ calls'[i].id = requestId + 1 /\ calls'[i].status = "sent"
  <2>1. CASE ends
    <3>1. /\ calls' \in Seq(Calls')
          /\ DOMAIN calls' = DOMAIN r \cup {Len(r) + 1} /\ Len(r) + 1 \notin DOMAIN r
          /\ \A i \in DOMAIN r : calls'[i] = r[i]
          /\ calls'[Len(r) + 1] = x
      BY <1>1, <1>5, <1>7, <1>8, <2>1, AppendsCall
    <3> QED
      BY <1>4, <1>5, <1>8, <2>1, <3>1
  <2>2. CASE ~ends
    <3>1. calls' = r /\ r \in Seq(Calls')
      BY <1>1, <1>5, <1>7, <2>2, CallsWiden
    <3> QED
      BY <1>4, <3>1
  <2> QED
    BY <2>1, <2>2
<1>11. pending' \subseteq 1 .. requestId'
  BY <1>1, <1>7, <1>9
<1>12. \A q \in Sub : /\ outcome'[q] \in {"none", "pending", "returned", "rejected"}
                      /\ outcome'[q] = "none" <=> outcome[q] = "none"
                      /\ outcome'[q] = "returned" => outcome[q] = "returned"
  BY <1>0, <1>1 DEF TypeOK
<1>13. TypeOK'
  <2>1. outcome' \in [Sub -> {"none", "pending", "returned", "rejected"}]
    BY <1>0, <1>1 DEF TypeOK
  <2>2. subscribed' \in [Sub -> BOOLEAN] /\ subscriptionId' \in [Sub -> Nat \cup {None}] /\ ended' \subseteq Sub
    BY <1>0, <1>1 DEF TypeOK
  <2> QED
    BY <1>0, <1>1, <1>10, <1>11, <2>1, <2>2 DEF TypeOK
<1>14. Counters' /\ ConnectionsCounted' /\ ServedOnce'
  BY <1>0, <1>1, <1>7 DEF Counters, ConnectionsCounted, ServedOnce
<1>15. IdsApart'
  <2>1. socket \in Nat
    BY <1>0, Constants DEF TypeOK
  <2>2. /\ \A i \in DOMAIN calls' : calls'[i].socket <= socket'
        /\ \A i \in DOMAIN calls' : calls'[i].status # "waiting" => calls'[i].id > 0
    BY <1>0, <1>1, <1>7, <1>10, <2>1 DEF IdsApart
  <2>3. ASSUME NEW i \in DOMAIN calls', NEW j \in DOMAIN calls', i # j, calls'[i].id = calls'[j].id
        PROVE  calls'[i].id = 0
    <3>1. CASE i \in DOMAIN calls /\ j \in DOMAIN calls
      BY <1>0, <1>10, <2>3, <3>1 DEF IdsApart
    <3>2. CASE i \notin DOMAIN calls /\ j \notin DOMAIN calls
      BY <1>10, <2>3, <3>2
    <3>3. \A k \in DOMAIN calls : calls'[k].id # requestId + 1
      BY <1>2, <1>7, <1>10
    <3> QED
      BY <1>10, <2>3, <3>1, <3>2, <3>3
  <2> QED
    BY <2>2, <2>3 DEF IdsApart
<1>16. \A q \in Sub \ {s} : subscribed'[q] = subscribed[q] /\ subscriptionId'[q] = subscriptionId[q]
  BY <1>0, <1>1 DEF TypeOK
<1>17. /\ outcome[s] = "returned" => ~subscribed'[s] /\ subscriptionId'[s] = None /\ s \in ended'
       /\ outcome[s] # "returned" => subscribed' = subscribed /\ subscriptionId' = subscriptionId /\ ended' = ended
  BY <1>0, <1>1 DEF TypeOK
<1>18. SubscriptionsKept'
  <2>1. \A i \in DOMAIN calls' : outcome'[calls'[i].sub] # "none"
    BY <1>0, <1>1, <1>2, <1>10, <1>12 DEF SubscriptionsKept
  <2>2. \A q \in Sub : subscribed'[q] \/ subscriptionId'[q] # None => outcome'[q] # "none"
    BY <1>0, <1>1, <1>12, <1>16 DEF SubscriptionsKept
  <2>3. \A q \in Sub : outcome'[q] # "none" /\ q \notin ended' => subscribed'[q]
    BY <1>0, <1>1, <1>12, <1>16, <1>17 DEF SubscriptionsKept
  <2> QED
    BY <1>0, <1>1, <1>12, <2>1, <2>2, <2>3 DEF SubscriptionsKept
<1>19. IdsOfConnection'
  BY <1>0, <1>1, <1>16, <1>17 DEF IdsOfConnection, Connected
<1>20. UnsubscribesOwn'
  <2> SUFFICES ASSUME NEW i \in DOMAIN calls', calls'[i].method = "unsubscribe",
                      calls'[i].socket = socket
      PROVE  /\ Connected
             /\ state = "open" => /\ calls'[i].arg \in 1 .. nextId - 1
                                  /\ \A q \in Sub : subscriptionId'[q] # calls'[i].arg
    BY <1>1 DEF UnsubscribesOwn, Connected
  <2>1. CASE i \in DOMAIN calls
    <3>1. calls'[i].arg = calls[i].arg
      BY <1>10, <2>1
    <3>2. /\ Connected
          /\ state = "open" => /\ calls[i].arg \in 1 .. nextId - 1
                               /\ \A q \in Sub : subscriptionId[q] # calls[i].arg
      BY <1>0, <1>10, <2>1 DEF UnsubscribesOwn
    <3>3. state = "open" => calls[i].arg # None
      BY <1>0, <3>2, Constants DEF Counters
    <3> QED
      BY <1>16, <1>17, <3>1, <3>2, <3>3
  <2>2. CASE i \notin DOMAIN calls
    <3>1. ends /\ calls'[i].arg = subscriptionId[s]
      BY <1>10, <2>2
    <3>2. ASSUME state = "open"
          PROVE  /\ subscriptionId[s] \in 1 .. nextId - 1
                 /\ \A q \in Sub \ {s} : subscriptionId[q] # subscriptionId[s]
      <4>1. [id |-> subscriptionId[s], sub |-> s] \in served
        BY <1>0, <3>1, <3>2 DEF EventsReachTheirOwner
      <4>2. subscriptionId[s] \in 1 .. nextId - 1
        BY <1>0, <4>1 DEF TypeOK
      <4>3. ASSUME NEW q \in Sub \ {s}, subscriptionId[q] = subscriptionId[s]  PROVE FALSE
        <5>1. [id |-> subscriptionId[s], sub |-> q] \in served
          BY <1>0, <3>1, <3>2, <4>3 DEF EventsReachTheirOwner
        <5>2. [id |-> subscriptionId[s], sub |-> q] = [id |-> subscriptionId[s], sub |-> s]
          BY <1>0, <4>1, <5>1 DEF ServedOnce
        <5> QED
          BY <5>2
      <4> QED
        BY <4>2, <4>3
    <3> QED
      BY <1>6, <1>16, <1>17, <3>1, <3>2
  <2> QED
    BY <2>1, <2>2
<1>21. EventsReachTheirOwner'
  BY <1>0, <1>1, <1>16, <1>17 DEF EventsReachTheirOwner
<1>22. Asked'
  <2> SUFFICES ASSUME state \in {"connecting", "open"}, NEW q \in Sub, outcome'[q] = "returned",
                      q \notin ended', subscriptionId'[q] = None
      PROVE  \E i \in DOMAIN calls' : AskedBy(q, i)'
    BY <1>1 DEF Asked
  <2>1. outcome[q] = "returned" /\ q # s /\ q \notin ended /\ subscriptionId[q] = None
    BY <1>1, <1>12, <1>16, <1>17
  <2>2. PICK i \in DOMAIN calls : AskedBy(q, i)
    BY <1>0, <2>1 DEF Asked
  <2> QED
    BY <1>1, <1>10, <2>2 DEF AskedBy
<1>23. EachTimeoutRobsOne'
  <2>1. FiredTimers' = FiredTimers
    BY <1>10 DEF FiredTimers
  <2>2. Cardinality(aborted') = Cardinality(aborted) + 1
    BY <1>0, <1>1, SetsFinite, FS_AddElement
  <2>3. PICK y : \A j \in DOMAIN calls : calls[j].status = "sent" /\ calls[j].id = requestId => j = y
    BY <1>0, OneLatest
  <2>4. Robbed' \subseteq Robbed \cup {y}
    <3> SUFFICES ASSUME NEW i \in DOMAIN calls', calls'[i].status = "sent", calls'[i].id \notin pending'
        PROVE  i \in Robbed \cup {y}
      BY DEF Robbed
    <3>1. i \in DOMAIN calls /\ calls[i].status = "sent" /\ calls[i].id \notin pending'
      BY <1>1, <1>10
    <3>2. calls[i].id \notin left
      BY <1>1, <3>1
    <3>3. CASE calls[i].id \in pending
      <4>1. calls[i].id = requestId
        BY <1>9, <3>2, <3>3
      <4> QED
        BY <2>3, <3>1, <4>1
    <3>4. CASE calls[i].id \notin pending
      BY <3>1, <3>4 DEF Robbed
    <3> QED
      BY <3>3, <3>4
  <2>5. Cardinality(Robbed') <= Cardinality(Robbed) + 1
    BY <1>0, <2>4, SetsFinite, OneMore
  <2>6. Cardinality(Robbed') \in Nat
    BY <1>0, <2>4, SetsFinite, FS_AddElement, FS_Subset, FS_CardinalityType
  <2> QED
    BY <1>0, <2>1, <2>2, <2>5, <2>6, SetsFinite DEF EachTimeoutRobsOne
<1> QED
  BY <1>13, <1>14, <1>15, <1>18, <1>19, <1>20, <1>21, <1>22, <1>23 DEF ClientInv

(* An answer arrives. *)
LEMMA AnswersKeeps ==
  ASSUME ClientInv, NEW i \in DOMAIN calls, Answers(i)
  PROVE  ClientInv'
<1> DEFINE s == calls[i].sub
           settles == calls[i].id \in pending /\ calls[i].status = "sent"
<1>0. /\ TypeOK /\ Counters /\ ConnectionsCounted /\ IdsApart /\ SubscriptionsKept
      /\ IdsOfConnection /\ UnsubscribesOwn /\ ServedOnce /\ EventsReachTheirOwner
      /\ Asked /\ EachTimeoutRobsOne
  BY DEF ClientInv
<1>1. PICK ok \in BOOLEAN :
        /\ Answered(i, ok)
        /\ \/ ~ok /\ UNCHANGED server
           \/ /\ ok /\ calls[i].method = "subscribe"
              /\ served' = served \cup {[id |-> nextId, sub |-> calls[i].sub]}
              /\ nextId' = nextId + 1
           \/ /\ ok /\ calls[i].method = "unsubscribe"
              /\ served' = {y \in served : y.id # calls[i].arg}
              /\ UNCHANGED nextId
  BY DEF Answers
<1>2. /\ state = "open" /\ calls[i].id > 0 /\ calls[i].socket = socket
      /\ UNCHANGED <<pending, requestId, socket, state, disconnects, retry, subscriptions,
                     subscribed, aborted, ended, closes>>
  BY DEF Answers, connection
<1> DEFINE gains == settles /\ ok /\ calls[i].method = "subscribe" /\ subscribed[s]
           x == [[calls[i] EXCEPT !.handled = TRUE] EXCEPT !.status = Settled(i, ok)]
<1>3. /\ calls' = [calls EXCEPT ![i] = x]
      /\ subscriptionId' = IF gains THEN [subscriptionId EXCEPT ![s] = nextId] ELSE subscriptionId
      /\ outcome' = IF settles /\ IsFirst(i)
                    THEN [outcome EXCEPT ![s] = IF ok /\ s \notin aborted THEN "returned" ELSE "rejected"]
                    ELSE outcome
  BY <1>1 DEF Answered
<1>4. /\ calls[i] \in Calls /\ s \in Sub /\ calls[i].method \in {"subscribe", "unsubscribe"}
      /\ calls[i].status \in {"waiting", "sent", "done", "failed", "timedOut", "aborted", "expired"}
  BY <1>0, CallFields DEF TypeOK
<1>5. /\ Settled(i, ok) \in {"waiting", "sent", "done", "failed", "timedOut", "aborted", "expired"}
      /\ Settled(i, ok) = "done" => calls[i].status = "done" \/ (settles /\ ok)
      /\ Settled(i, ok) = "sent" => calls[i].status = "sent"
      /\ calls[i].status \in {"timedOut", "expired"} => Settled(i, ok) = calls[i].status
  <2>1. CASE calls[i].id \notin pending
    <3>1. Settled(i, ok) = calls[i].status
      BY <2>1 DEF Settled
    <3> QED
      BY <1>4, <3>1
  <2>2. CASE settles
    BY <2>2 DEF Settled
  <2>3. CASE calls[i].id \in pending /\ calls[i].status = "aborted"
    BY <2>3 DEF Settled
  <2>4. CASE calls[i].id \in pending /\ calls[i].status \notin {"sent", "aborted"}
    BY <1>4, <2>4 DEF Settled
  <2> QED
    BY <2>1, <2>2, <2>3, <2>4
<1>6. /\ x \in Calls /\ x.sub = calls[i].sub /\ x.method = calls[i].method
      /\ x.arg = calls[i].arg /\ x.socket = calls[i].socket /\ x.id = calls[i].id
      /\ x.status = Settled(i, ok)
  BY <1>4, <1>5 DEF Calls
<1> HIDE DEF x, s, settles
<1>7. /\ calls' \in Seq(Calls') /\ DOMAIN calls' = DOMAIN calls
      /\ \A j \in DOMAIN calls :
           /\ calls'[j].sub = calls[j].sub /\ calls'[j].method = calls[j].method
           /\ calls'[j].arg = calls[j].arg /\ calls'[j].socket = calls[j].socket
           /\ calls'[j].id = calls[j].id
      /\ \A j \in DOMAIN calls : j # i => calls'[j] = calls[j]
      /\ calls'[i] = x
  BY <1>0, <1>2, <1>3, <1>6, RequestChanges
<1>8. /\ nextId \in Nat \ {0} /\ served \subseteq [id : 1 .. nextId - 1, sub : Sub]
      /\ \A y \in served : y.id \in 1 .. nextId - 1
  BY <1>0 DEF TypeOK, Counters
<1>9. /\ \A q \in Sub : subscriptionId'[q] = IF gains /\ q = s THEN nextId ELSE subscriptionId[q]
      /\ subscriptionId' \in [Sub -> Nat \cup {None}]
  BY <1>0, <1>3, <1>4, <1>8 DEF TypeOK
<1>10. /\ \A q \in Sub : q # s \/ ~(settles /\ IsFirst(i)) => outcome'[q] = outcome[q]
       /\ \A q \in Sub : outcome'[q] = "none" => outcome[q] = "none"
       /\ outcome' \in [Sub -> {"none", "pending", "returned", "rejected"}]
  BY <1>0, <1>3, <1>4 DEF TypeOK
<1>11. outcome[s] # "none"
  BY <1>0 DEF SubscriptionsKept, s
<1>12. gains => /\ served' = served \cup {[id |-> nextId, sub |-> s]}
                /\ nextId' = nextId + 1
  BY <1>1 DEF s
<1>13. TypeOK'
  <2>1. served' \subseteq [id : 1 .. nextId' - 1, sub : Sub]
    <3>1. nextId' \in Nat /\ nextId <= nextId'
      BY <1>1, <1>8 DEF server
    <3>2. 1 .. nextId - 1 \subseteq 1 .. nextId' - 1
      <4>1. nextId \in Nat
        BY <1>8
      <4>2. \A a, b \in Nat : a <= b => 1 .. a - 1 \subseteq 1 .. b - 1
        OBVIOUS
      <4> QED
        BY <3>1, <4>1, <4>2
    <3>3. \A y \in served : y \in [id : 1 .. nextId' - 1, sub : Sub]
      BY <1>8, <3>2
    <3>4. CASE served' \subseteq served
      BY <3>3, <3>4
    <3>5. CASE served' = served \cup {[id |-> nextId, sub |-> s]} /\ nextId' = nextId + 1
      <4>1. nextId \in 1 .. nextId' - 1
        BY <1>8, <3>5
      <4>2. [id |-> nextId, sub |-> s] \in [id : 1 .. nextId' - 1, sub : Sub]
        BY <1>4, <4>1
      <4> QED
        BY <3>3, <3>5, <4>2
    <3> QED
      BY <1>1, <3>4, <3>5 DEF server, s
  <2> QED
    BY <1>0, <1>2, <1>7, <1>9, <1>10, <2>1 DEF TypeOK
<1>14. Counters' /\ ConnectionsCounted'
  <2>1. nextId' \in Nat \ {0}
    BY <1>1, <1>8 DEF server
  <2> QED
    BY <1>0, <1>2, <2>1 DEF Counters, ConnectionsCounted
<1>15. IdsApart'
  <2>1. \A j \in DOMAIN calls : calls'[j].status # "waiting" => calls'[j].id > 0
    BY <1>0, <1>2, <1>6, <1>7 DEF IdsApart
  <2> QED
    BY <1>0, <1>2, <1>7, <2>1 DEF IdsApart
<1>16. SubscriptionsKept'
  <2>1. \A q \in Sub : outcome'[q] # "none" <=> outcome[q] # "none"
    BY <1>10, <1>11
  <2>2. \A j \in DOMAIN calls : calls[j].sub \in Sub
    BY <1>0, CallFields DEF TypeOK
  <2>3. \A j \in DOMAIN calls' : outcome'[calls'[j].sub] # "none"
    BY <1>0, <1>7, <2>1, <2>2 DEF SubscriptionsKept
  <2>4. \A q \in Sub : subscribed[q] \/ subscriptionId'[q] # None => outcome[q] # "none"
    BY <1>0, <1>9, <1>11 DEF SubscriptionsKept
  <2> QED
    BY <1>0, <1>2, <2>1, <2>3, <2>4 DEF SubscriptionsKept
<1>17. IdsOfConnection'
  BY <1>2 DEF IdsOfConnection, Connected
<1>18. UnsubscribesOwn'
  <2> SUFFICES ASSUME NEW j \in DOMAIN calls, calls[j].method = "unsubscribe", calls[j].socket = socket
      PROVE  /\ calls[j].arg \in 1 .. nextId' - 1
             /\ \A q \in Sub : subscriptionId'[q] # calls[j].arg
    BY <1>2, <1>7 DEF UnsubscribesOwn, Connected
  <2>1. calls[j].arg \in 1 .. nextId - 1 /\ \A q \in Sub : subscriptionId[q] # calls[j].arg
    BY <1>0, <1>2 DEF UnsubscribesOwn
  <2>2. nextId' \in Nat /\ nextId <= nextId'
    BY <1>1, <1>8 DEF server
  <2>3. calls[j].arg # nextId
    BY <1>8, <2>1
  <2> QED
    BY <1>8, <1>9, <2>1, <2>2, <2>3
<1>19. ServedOnce'
  <2>1. CASE served' \subseteq served
    BY <1>0, <2>1 DEF ServedOnce
  <2>2. CASE served' = served \cup {[id |-> nextId, sub |-> s]}
    <3>1. \A y \in served : y.id # nextId
      BY <1>8
    <3> QED
      BY <1>0, <2>2, <3>1 DEF ServedOnce
  <2> QED
    BY <1>1, <2>1, <2>2 DEF server, s
<1>20. EventsReachTheirOwner'
  <2> SUFFICES ASSUME NEW q \in Sub, subscriptionId'[q] # None
      PROVE  [id |-> subscriptionId'[q], sub |-> q] \in served'
    BY DEF EventsReachTheirOwner
  <2>1. CASE gains /\ q = s
    BY <1>9, <1>12, <2>1
  <2>2. CASE ~(gains /\ q = s)
    <3>1. subscriptionId'[q] = subscriptionId[q]
      BY <1>9, <2>2
    <3>2. [id |-> subscriptionId[q], sub |-> q] \in served
      BY <1>0, <1>2, <3>1 DEF EventsReachTheirOwner
    <3>3. calls[i].method = "unsubscribe" => subscriptionId[q] # calls[i].arg
      BY <1>0, <1>2 DEF UnsubscribesOwn
    <3> QED
      BY <1>1, <3>1, <3>2, <3>3 DEF server
  <2> QED
    BY <2>1, <2>2
<1>21. Asked'
  <2> SUFFICES ASSUME NEW q \in Sub, outcome'[q] = "returned", q \notin ended, subscriptionId'[q] = None
      PROVE  \E j \in DOMAIN calls : AskedBy(q, j)'
    BY <1>2, <1>7 DEF Asked
  <2>0. nextId # None
    BY <1>8, Constants
  <2>1. ~(gains /\ q = s) /\ subscriptionId[q] = None
    BY <1>9, <2>0
  <2>2. subscribed[q]
    <3>1. outcome[q] # "none"
      BY <1>10, <1>11
    <3> QED
      BY <1>0, <3>1 DEF SubscriptionsKept
  <2>3. outcome[q] = "returned"
    <3> SUFFICES ASSUME outcome[q] # "returned"  PROVE FALSE
      OBVIOUS
    <3>1. q = s /\ settles /\ IsFirst(i)
      BY <1>10
    <3>2. ok
      BY <1>0, <1>3, <1>4, <3>1 DEF TypeOK
    <3> QED
      BY <2>1, <2>2, <3>1, <3>2 DEF IsFirst
  <2>4. PICK j \in DOMAIN calls : AskedBy(q, j)
    BY <1>0, <1>2, <2>1, <2>3 DEF Asked
  <2>5. CASE j # i
    BY <1>2, <1>7, <2>4, <2>5 DEF AskedBy
  <2>6. CASE j = i
    <3>1. q = s /\ calls[i].method = "subscribe" /\ calls[i].status # "done"
      BY <2>4, <2>6 DEF AskedBy, s
    <3>2. calls'[i].status # "done"
      BY <1>5, <1>6, <1>7, <2>1, <2>2, <3>1
    <3> QED
      BY <1>2, <1>7, <2>4, <2>6, <3>2 DEF AskedBy
  <2> QED
    BY <2>5, <2>6
<1>22. EachTimeoutRobsOne'
  <2>1. Robbed' \subseteq Robbed
    BY <1>2, <1>5, <1>6, <1>7 DEF Robbed
  <2>2. FiredTimers \subseteq FiredTimers'
    BY <1>5, <1>6, <1>7 DEF FiredTimers
  <2>3. FiredTimers' \subseteq DOMAIN calls /\ IsFiniteSet(DOMAIN calls)
    <3>1. DOMAIN calls = 1 .. Len(calls) /\ Len(calls) \in Nat
      BY <1>0, CallFields DEF TypeOK
    <3>2. IsFiniteSet(1 .. Len(calls))
      BY <3>1, FS_Interval
    <3> QED
      BY <1>7, <3>1, <3>2 DEF FiredTimers
  <2>4. IsFiniteSet(FiredTimers')
    BY <2>3, FS_Subset
  <2>5. Cardinality(Robbed') <= Cardinality(Robbed) /\ Cardinality(Robbed') \in Nat
    BY <1>0, <2>1, SetsFinite, FS_Subset, FS_CardinalityType
  <2>6. Cardinality(FiredTimers) <= Cardinality(FiredTimers') /\ Cardinality(FiredTimers') \in Nat
    BY <2>2, <2>4, FS_Subset, FS_CardinalityType
  <2> QED
    BY <1>0, <1>2, <2>5, <2>6, SetsFinite DEF EachTimeoutRobsOne
<1> QED
  BY <1>13, <1>14, <1>15, <1>16, <1>17, <1>18, <1>19, <1>20, <1>21, <1>22 DEF ClientInv

(* A new client. *)
LEMMA ClientInit == Init => ClientInv
<1> SUFFICES ASSUME Init  PROVE ClientInv
  OBVIOUS
<1>1. DOMAIN calls = {} /\ calls \in Seq(Calls) /\ subscriptions \in Seq(Sub)
      /\ ToSet(subscriptions) = {}
  BY EmptySeq DEF Init, ToSet
<1>2. TypeOK
  <2>1. /\ 0 \in 0 .. MaxCloses + 1 /\ 0 \in 0 .. MaxReconnects + 1 /\ 0 \in 0 .. MaxCloses
        /\ None \in Nat \cup {None}
    BY Constants
  <2>2. subscriptionId \in [Sub -> Nat \cup {None}] /\ subscribed \in [Sub -> BOOLEAN]
    BY DEF Init
  <2> QED
    BY <1>1, <2>1, <2>2 DEF Init, TypeOK
<1>3. Counters /\ ConnectionsCounted /\ IdsApart /\ SubscriptionsKept
  BY <1>1, Constants DEF Init, Counters, ConnectionsCounted, IdsApart, SubscriptionsKept
<1>4. IdsOfConnection /\ UnsubscribesOwn /\ ServedOnce /\ EventsReachTheirOwner /\ Asked
  BY <1>1 DEF Init, IdsOfConnection, UnsubscribesOwn, ServedOnce, EventsReachTheirOwner, Asked
<1>5. EachTimeoutRobsOne
  <2>1. Robbed = {} /\ FiredTimers = {} /\ aborted = {}
    BY <1>1 DEF Init, Robbed, FiredTimers
  <2> QED
    BY <2>1, FS_EmptySet DEF EachTimeoutRobsOne
<1> QED
  BY <1>2, <1>3, <1>4, <1>5 DEF ClientInv

(* Every step keeps the invariant. *)
LEMMA ClientInvariant == Spec => []ClientInv
<1>1. ClientInv /\ [Next]_vars => ClientInv'
  <2> SUFFICES ASSUME ClientInv, [Next]_vars  PROVE ClientInv'
    OBVIOUS
  <2>1. CASE UNCHANGED vars
    <3>1. UNCHANGED <<calls, pending, requestId, socket, state, disconnects, retry, subscriptions,
                      subscribed, subscriptionId, outcome, aborted, ended, served, nextId, closes>>
      BY <2>1 DEF vars, requests, connection, subs, users, server
    <3>2. TypeOK' /\ Counters' /\ ConnectionsCounted'
      BY <3>1 DEF ClientInv, TypeOK, Counters, ConnectionsCounted, Calls
    <3>3. IdsApart' /\ SubscriptionsKept' /\ IdsOfConnection' /\ UnsubscribesOwn'
      BY <3>1 DEF ClientInv, IdsApart, SubscriptionsKept, IdsOfConnection, UnsubscribesOwn, Connected
    <3>4. ServedOnce' /\ EventsReachTheirOwner' /\ Asked'
      BY <3>1 DEF ClientInv, ServedOnce, EventsReachTheirOwner, Asked, AskedBy
    <3>5. EachTimeoutRobsOne'
      BY <3>1 DEF ClientInv, EachTimeoutRobsOne, Robbed, FiredTimers
    <3> QED
      BY <3>2, <3>3, <3>4, <3>5 DEF ClientInv
  <2>2. ASSUME NEW s \in Sub, Subscribe(s) \/ Unsubscribe(s) \/ Abort(s)  PROVE ClientInv'
    BY <2>2, SubscribeKeeps, UnsubscribeKeeps, AbortKeeps
  <2>3. ASSUME NEW i \in DOMAIN calls, Timeout(i) \/ Answers(i)  PROVE ClientInv'
    BY <2>3, TimeoutKeeps, AnswersKeeps
  <2> QED
    BY <2>1, <2>2, <2>3, OpenKeeps, CloseKeeps, ReconnectKeeps DEF Next
<1> QED
  BY ClientInit, <1>1, PTL DEF Spec

----------------------------------------------------------------------------
(* The client keeps to its types; there are never more attempts in a row,  *)
(* nor more connections, than the options and the closes allow.            *)
THEOREM ClientTypes == Spec => []TypeOK
<1>1. ClientInv => TypeOK
  BY DEF ClientInv
<1> QED
  BY ClientInvariant, <1>1, PTL

(* While a connection is open, the id of a subscription is one that this   *)
(* connection gave to it: an answer for a request of an earlier connection,*)
(* or of a subscription that was ended, never leaves its id behind.        *)
THEOREM EventsReachOwner == Spec => []EventsReachTheirOwner
<1>1. ClientInv => EventsReachTheirOwner
  BY DEF ClientInv
<1> QED
  BY ClientInvariant, <1>1, PTL

(* After a reconnect a subscription that its user still has is served      *)
(* again, or its request on the new connection was not answered with an id.*)
THEOREM SubscriptionsSurvive == Spec => []NoSubscriptionForgotten
<1>1. ClientInv => NoSubscriptionForgotten
  BY DEF ClientInv, Asked, AskedBy, NoSubscriptionForgotten
<1> QED
  BY ClientInvariant, <1>1, PTL

(* Timeouts and signals delete the entry of the latest request, and so rob *)
(* at most one other request each of its answer.                           *)
THEOREM TimeoutsRobOne == Spec => []EachTimeoutRobsOne
<1>1. ClientInv => EachTimeoutRobsOne
  BY DEF ClientInv
<1> QED
  BY ClientInvariant, <1>1, PTL
=============================================================================
