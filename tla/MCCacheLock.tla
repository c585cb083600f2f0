---------------------------- MODULE MCCacheLock ----------------------------
(* Four invocations of #updateCache: one that holds the lock, two that wait*)
(* on it together, and one that comes after.                               *)
EXTENDS CacheLock
=============================================================================
