------------------------- MODULE MCThreadSafeBuffer -------------------------
(* Two producers and two consumers share one buffer: enough for two       *)
(* sleepers to be woken by one item and for two puts to race.             *)
EXTENDS ThreadSafeBuffer
=============================================================================
