------------------------- MODULE MCParallelExecutor -------------------------
(* Three calls that may share an object and a pool of one or two coins:    *)
(* enough for a refill to race with a call that finishes or fails, and for *)
(* a late execution of a call that failed to race with the next refill.    *)
EXTENDS ParallelExecutor
CONSTANTS t1, t2, t3
Calls == <<t1, t2, t3>>
MCTx == ToSet(Calls)

(* Nothing tells the calls apart, so it is enough to let them arrive in one*)
(* order. (Symmetry is not sound for liveness.)                            *)
InTurn == \A i \in 1 .. 2 : phase[Calls[i]] = "idle" => phase'[Calls[i + 1]] = "idle"
FairInTurn == Init /\ [][Next /\ InTurn]_vars /\ Fairness
=============================================================================
