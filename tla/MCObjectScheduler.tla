------------------------- MODULE MCObjectScheduler -------------------------
(* Three or four calls over two objects and fewer slots than calls, so that*)
(* calls wait both for objects and for slots.                              *)
EXTENDS ObjectScheduler
=============================================================================
