-------------------------- MODULE WebsocketClient --------------------------
(***************************************************************************)
(* WebsocketClient: JSON-RPC requests and subscriptions over one websocket *)
(* at a time, which is replaced after it closes, and the subscriptions that*)
(* the HTTP transport makes with it for its users.                         *)
(*                                                                         *)
(* Connections are numbered; a connection is lost if it closes after it was*)
(* open, and failed if before.                                             *)
(***************************************************************************)
EXTENDS Integers, Sequences, FiniteSets, FiniteSetsExt, SequencesExt

CONSTANTS
  Sub,           \* the subscriptions that users make
  Signalled,     \* those of them that are given a signal
  None,          \* null
  MaxReconnects, \* options.maxReconnects
  MaxCloses,     \* bound: how many connections close
  MaxLosses      \* bound: how many have closed when an open one is lost

ASSUME WebsocketAssumption ==
  /\ IsFiniteSet(Sub) /\ Signalled \subseteq Sub
  /\ None \notin Nat
  /\ MaxReconnects \in Nat /\ MaxCloses \in Nat /\ MaxLosses \in Nat

VARIABLES
  calls,          \* the calls of makeRequest, in order
  pending,        \* #pendingRequests: ids
  requestId,      \* #requestId
  socket,         \* #webSocket and #connectionPromise: the connection
  state,          \* what it is in
  disconnects,    \* #disconnects
  retry,          \* whether #reconnect is scheduled
  subscriptions,  \* #subscriptions, in the order of insertion
  subscribed,     \* of an RpcSubscription
  subscriptionId, \* of an RpcSubscription
  outcome,        \* of a user's call of the transport's subscribe
  aborted,        \* the subscriptions whose signal was aborted
  served,         \* server: the subscriptions of the open connection
  nextId,         \* server: the id of its next one
  closes,         \* bound: how many connections have closed
  ended           \* history: the subscriptions that users have ended

requests == <<calls, pending, requestId>>
connection == <<socket, state, disconnects, retry>>
subs == <<subscriptions, subscribed, subscriptionId>>
users == <<outcome, aborted, ended>>
server == <<served, nextId>>
vars == <<requests, connection, subs, users, server, closes>>

Init ==
  /\ calls = <<>>
  /\ pending = {}
  /\ requestId = 0
  /\ socket = 0
  /\ state = "none"
  /\ disconnects = 0
  /\ retry = FALSE
  /\ subscriptions = <<>>
  /\ subscribed = [s \in Sub |-> FALSE]
  /\ subscriptionId = [s \in Sub |-> None]
  /\ outcome = [s \in Sub |-> "none"]
  /\ aborted = {}
  /\ served = {}
  /\ nextId = 1
  /\ closes = 0
  /\ ended = {}

----------------------------------------------------------------------------
(* makeRequest.  The id is 0, and no timer runs, while a call waits for the*)
(* connection; one that waits for a connection that fails waits for ever.  *)

NewCall(s, method, arg, connectionNumber) ==
  [sub |-> s, method |-> method, arg |-> arg, socket |-> connectionNumber,
   id |-> 0, status |-> "waiting", handled |-> FALSE]

Sent(call, id) == [call EXCEPT !.id = id, !.status = "sent"]

(* #connectionPromise is fulfilled. *)
Connected == state \in {"open", "lost"}

MakeRequest(s, method, arg) ==
  IF Connected
    THEN /\ requestId' = requestId + 1
         /\ pending' = pending \cup {requestId'}
         /\ calls' = Append(calls, Sent(NewCall(s, method, arg, socket), requestId'))
    ELSE /\ calls' = Append(calls, NewCall(s, method, arg, IF socket = 0 THEN 1 ELSE socket))
         /\ UNCHANGED <<pending, requestId>>

(* The entry that timeouts and signals delete: that of the latest request. *)
AllDeleted == pending' = {}  \* mutant

LatestDeleted == pending' = pending \ {requestId}

RunsWithEntry(call) == call.status \in {"sent", "aborted"} /\ call.id \in pending  \* mutant

RunsTimer(call) == call.status \in {"sent", "aborted"}

(* The call of the user, not of a reconnect. *)
IsFirst(i) == calls[i].method = "subscribe" /\ \A j \in 1 .. i - 1 : calls[j].sub # calls[i].sub

Rejects(i) ==
  outcome' = IF IsFirst(i) /\ outcome[calls[i].sub] = "pending"
               THEN [outcome EXCEPT ![calls[i].sub] = "rejected"] ELSE outcome

(* The timers all run for callTimeout.  That of an aborted call runs on.   *)
Timeout(i) ==
  /\ RunsTimer(calls[i])
  /\ \A j \in DOMAIN calls : RunsTimer(calls[j]) => calls[i].id <= calls[j].id
  /\ LatestDeleted
  /\ calls' = [calls EXCEPT ![i].status = IF @ = "sent" THEN "timedOut" ELSE "expired"]
  /\ Rejects(i)
  /\ UNCHANGED <<requestId, connection, subs, aborted, ended, server, closes>>

----------------------------------------------------------------------------
(* The connection *)

(* The calls that wait for this connection are sent, in their order. *)
Open ==
  LET waits == {i \in DOMAIN calls : calls[i].status = "waiting" /\ calls[i].socket = socket}
      Id(i) == requestId + Cardinality({j \in waits : j <= i})
  IN
  /\ state = "connecting"
  /\ state' = "open"
  /\ disconnects' = 0
  /\ calls' = [i \in DOMAIN calls |-> IF i \in waits THEN Sent(calls[i], Id(i)) ELSE calls[i]]
  /\ requestId' = requestId + Cardinality(waits)
  /\ pending' = pending \cup (requestId + 1 .. requestId')
  /\ UNCHANGED <<socket, retry, subs, users, server, closes>>

RetryAlways == TRUE  \* mutant

RetryAllowed == disconnects < MaxReconnects

Close ==
  /\ closes < MaxCloses
  /\ \/ state = "connecting"
     \/ state = "open" /\ closes < MaxLosses
  /\ state' = IF state = "open" THEN "lost" ELSE "failed"
  /\ disconnects' = disconnects + 1
  /\ retry' = RetryAllowed
  /\ served' = {}
  /\ nextId' = 1
  /\ closes' = closes + 1
  /\ UNCHANGED <<requests, socket, subs, users>>

KeepsIds(ss) ==  \* mutant: the subscription id of the old connection stays
  /\ subscribed' = [s \in Sub |-> s \in ss \/ subscribed[s]]
  /\ UNCHANGED subscriptionId

Subscribes(ss) ==
  /\ subscribed' = [s \in Sub |-> s \in ss \/ subscribed[s]]
  /\ subscriptionId' = [s \in Sub |-> IF s \in ss THEN None ELSE subscriptionId[s]]

AwaitOld == socket  \* mutant: #connectionPromise is not reset before they subscribe

AwaitNew == socket + 1

(* #reconnect *)
Reconnect ==
  LET made == [i \in DOMAIN subscriptions |-> NewCall(subscriptions[i], "subscribe", None, AwaitNew)] IN
  /\ retry
  /\ retry' = FALSE
  /\ socket' = socket + 1
  /\ state' = "connecting"
  /\ Subscribes(ToSet(subscriptions))
  /\ calls' = calls \o made
  /\ UNCHANGED <<pending, requestId, disconnects, subscriptions, users, server, closes>>

----------------------------------------------------------------------------
(* Subscriptions *)

(* The transport's subscribe, with a signal or without. *)
Subscribe(s) ==
  /\ outcome[s] = "none"
  /\ outcome' = [outcome EXCEPT ![s] = "pending"]
  /\ subscriptions' = Append(subscriptions, s)
  /\ Subscribes({s})
  /\ MakeRequest(s, "subscribe", None)
  /\ IF state = "none"
       THEN socket' = 1 /\ state' = "connecting"
       ELSE UNCHANGED <<socket, state>>
  /\ UNCHANGED <<disconnects, retry, aborted, ended, server, closes>>

(* RpcSubscription.unsubscribe *)
Unsubscribes(s) ==
  /\ subscribed' = [subscribed EXCEPT ![s] = FALSE]
  /\ subscriptionId' = [subscriptionId EXCEPT ![s] = None]
  /\ ended' = ended \cup {s}

Unsubscribe(s) ==
  /\ outcome[s] = "returned"
  /\ Unsubscribes(s)
  /\ IF subscriptionId[s] = None THEN UNCHANGED requests
     ELSE MakeRequest(s, "unsubscribe", subscriptionId[s])
  /\ UNCHANGED <<connection, subscriptions, outcome, aborted, server, closes>>

(* The signal's listeners: one for each request of the subscription that   *)
(* was sent, however long ago, and one that unsubscribes.                  *)
Abort(s) ==
  LET listening == {i \in DOMAIN calls :
                      calls[i].sub = s /\ calls[i].method = "subscribe" /\ calls[i].id > 0}
      left == IF listening = {} THEN pending ELSE pending \ {requestId}
      rejected == [i \in DOMAIN calls |->
                     IF i \in listening /\ calls[i].status = "sent"
                       THEN [calls[i] EXCEPT !.status = "aborted"] ELSE calls[i]]
      ends == outcome[s] = "returned" /\ subscriptionId[s] # None
  IN
  /\ s \in Signalled \ aborted /\ outcome[s] # "none"
  /\ aborted' = aborted \cup {s}
  /\ requestId' = IF ends THEN requestId + 1 ELSE requestId
  /\ pending' = IF ends THEN left \cup {requestId'} ELSE left
  /\ calls' = IF ends THEN Append(rejected,
                             Sent(NewCall(s, "unsubscribe", subscriptionId[s], socket), requestId'))
              ELSE rejected
  /\ IF outcome[s] = "returned" THEN Unsubscribes(s)
     ELSE UNCHANGED <<subscribed, subscriptionId, ended>>
  /\ outcome' = IF outcome[s] = "pending" /\ \E i \in listening : IsFirst(i)
                  THEN [outcome EXCEPT ![s] = "rejected"] ELSE outcome
  /\ UNCHANGED <<connection, subscriptions, server, closes>>

----------------------------------------------------------------------------
(* The server answers a request, in any order, and the answer arrives,     *)
(* unless the connection closes before.                                    *)

(* Of an answer that arrived, ok or not. *)
Settled(i, ok) ==
  IF calls[i].id \notin pending THEN calls[i].status
  ELSE CASE calls[i].status = "sent" -> IF ok THEN "done" ELSE "failed"
         [] calls[i].status = "aborted" -> "expired"
         [] OTHER -> calls[i].status

(* throwIfAborted comes after the subscription was made. *)
Answered(i, ok) ==
  LET call == calls[i]
      settles == call.id \in pending /\ call.status = "sent"
  IN
  /\ calls' = [calls EXCEPT ![i].handled = TRUE, ![i].status = Settled(i, ok)]
  /\ IF settles /\ ok /\ call.method = "subscribe" /\ subscribed[call.sub]
       THEN subscriptionId' = [subscriptionId EXCEPT ![call.sub] = nextId]
       ELSE UNCHANGED subscriptionId
  /\ IF settles /\ IsFirst(i)
       THEN outcome' = [outcome EXCEPT ![call.sub] =
                          IF ok /\ call.sub \notin aborted THEN "returned" ELSE "rejected"]
       ELSE UNCHANGED outcome

Answers(i) ==
  /\ state = "open"
  /\ calls[i].id > 0 /\ calls[i].socket = socket /\ ~calls[i].handled
  /\ \E ok \in BOOLEAN :
       /\ Answered(i, ok)
       /\ \/ ~ok /\ UNCHANGED server
          \/ /\ ok /\ calls[i].method = "subscribe"
             /\ served' = served \cup {[id |-> nextId, sub |-> calls[i].sub]}
             /\ nextId' = nextId + 1
          \/ /\ ok /\ calls[i].method = "unsubscribe"
             /\ served' = {x \in served : x.id # calls[i].arg}
             /\ UNCHANGED nextId
  /\ UNCHANGED <<pending, requestId, connection, subscriptions, subscribed, aborted, ended, closes>>

----------------------------------------------------------------------------
Next ==
  \/ Open \/ Close \/ Reconnect
  \/ \E s \in Sub : Subscribe(s) \/ Unsubscribe(s) \/ Abort(s)
  \/ \E i \in DOMAIN calls : Timeout(i) \/ Answers(i)

Spec == Init /\ [][Next]_vars

(* Timers fire.  Nothing is assumed of the network and the server. *)
FairSpec == Spec /\ WF_vars(Reconnect) /\ WF_vars(\E i \in DOMAIN calls : Timeout(i))

----------------------------------------------------------------------------
Calls == [sub : Sub, method : {"subscribe", "unsubscribe"}, arg : Nat \cup {None}, socket : Nat,
          id : 0 .. requestId, handled : BOOLEAN,
          status : {"waiting", "sent", "done", "failed", "timedOut", "aborted", "expired"}]

(* Type invariant; attempts in a row are bounded. *)
TypeOK ==
  /\ calls \in Seq(Calls)
  /\ pending \subseteq 1 .. requestId
  /\ socket \in 0 .. MaxCloses + 1
  /\ state \in {"none", "connecting", "open", "lost", "failed"}
  /\ disconnects \in 0 .. MaxReconnects + 1
  /\ retry \in BOOLEAN
  /\ subscriptions \in Seq(Sub)
  /\ subscribed \in [Sub -> BOOLEAN]
  /\ subscriptionId \in [Sub -> Nat \cup {None}]
  /\ outcome \in [Sub -> {"none", "pending", "returned", "rejected"}]
  /\ aborted \subseteq Sub /\ ended \subseteq Sub
  /\ served \subseteq [id : 1 .. nextId - 1, sub : Sub]
  /\ closes \in 0 .. MaxCloses

(* Events are told to be a subscription's by an id that every connection   *)
(* gives anew.  An id is never that of another subscription, or of an      *)
(* earlier connection, so nobody gets the events of somebody else.         *)
EventsReachTheirOwner ==
  state = "open" =>
    \A s \in Sub : subscriptionId[s] # None =>
      [id |-> subscriptionId[s], sub |-> s] \in served

(* After a reconnect every subscription that its user still has is served  *)
(* again, or asked for on the new connection; it is lost only if that      *)
(* request has failed.                                                     *)
NoSubscriptionForgotten ==
  state = "open" =>
    \A s \in Sub : outcome[s] = "returned" /\ s \notin ended /\ subscriptionId[s] = None =>
      \E i \in DOMAIN calls :
        /\ calls[i].sub = s /\ calls[i].method = "subscribe" /\ calls[i].socket = socket
        /\ calls[i].status # "done"

(* A timeout or a signal deletes the entry of the latest request, not of  *)
(* its own, so a request that waits may have none and its answer is lost.  *)
(* Each such request is owed to another one that timed out or to a signal. *)
Robbed == {i \in DOMAIN calls : calls[i].status = "sent" /\ calls[i].id \notin pending}

FiredTimers == {i \in DOMAIN calls : calls[i].status \in {"timedOut", "expired"}}

EachTimeoutRobsOne == Cardinality(Robbed) <= Cardinality(FiredTimers) + Cardinality(aborted)

(* No request that was sent waits for ever, also on a connection that is   *)
(* lost, or when its entry was deleted: its timeout settles it.  A request  *)
(* that waits for a connection has no timer yet; when that connection fails *)
(* it does wait for ever, since #reconnect replaces the promise.            *)
SentCallsSettle == []<>(\A i \in DOMAIN calls : calls[i].status # "sent")
=============================================================================
