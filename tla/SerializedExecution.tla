------------------------ MODULE SerializedExecution ------------------------
(***************************************************************************)
(* What ParallelTransactionExecutor promises about the order of execution, *)
(* with no queue in sight: a call may start once every earlier call on one *)
(* of its objects has finished, and at most MaxPoolSize calls run at a time.  *)
(* ObjectScheduler is shown to implement it.                               *)
(***************************************************************************)
EXTENDS Integers, FiniteSets

CONSTANTS Tx, Object, MaxPoolSize

VARIABLES
  status,     \* idle, waiting, running, finished
  footprint,  \* the objects a call uses
  order       \* position of a call among those that asked to run; 0 if none

avars == <<status, footprint, order>>

Before(t, u) == order[t] < order[u] /\ footprint[t] \cap footprint[u] # {}

Init ==
  /\ status = [t \in Tx |-> "idle"]
  /\ footprint = [t \in Tx |-> {}]
  /\ order = [t \in Tx |-> 0]

(* From the status function `s', some waiting calls may start: those with  *)
(* nobody before them (in the new order), as far as slots go.              *)
SomeStart(s) ==
  \E S \in SUBSET {t \in Tx : s[t] = "waiting"} :
    /\ \A u \in S, t \in Tx :
         order'[t] < order'[u] /\ footprint'[t] \cap footprint'[u] # {}
           => s[t] \notin {"waiting", "running"}
    /\ Cardinality(S) + Cardinality({t \in Tx : s[t] = "running"}) <= MaxPoolSize
    /\ status' = [t \in Tx |-> IF t \in S THEN "running" ELSE s[t]]

Arrive(t) ==
  /\ status[t] = "idle"
  /\ \E ids \in SUBSET Object : footprint' = [footprint EXCEPT ![t] = ids]
  /\ order' = [order EXCEPT ![t] = 1 + Cardinality({u \in Tx : order[u] > 0})]
  /\ SomeStart([status EXCEPT ![t] = "waiting"])

Finish(t) ==
  /\ status[t] = "running"
  /\ UNCHANGED <<footprint, order>>
  /\ SomeStart([status EXCEPT ![t] = "finished"])

StartLater ==
  /\ UNCHANGED <<footprint, order>>
  /\ SomeStart(status)

Next == StartLater \/ \E t \in Tx : Arrive(t) \/ Finish(t)

Spec == Init /\ [][Next]_avars
=============================================================================
