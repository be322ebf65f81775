------------------------------ MODULE MCWorker ------------------------------
(* Small instances of Worker for TLC.                                      *)
EXTENDS Worker

(* Fewer slots than connections and streams, so that every tier runs out.  *)
SlotMaxSmall == [t \in Tiers |-> IF t = TIER_NORMAL THEN 3 ELSE 1]
=============================================================================
