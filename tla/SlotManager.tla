---------------------------- MODULE SlotManager ----------------------------
(***************************************************************************)
(* The tiered slot counters of slot_manager.c.  A slot is the right to use *)
(* one unit of a tier's memory budget.  The counters are a function from   *)
(* tiers to the number of slots handed out (normal_current, large_current, *)
(* huge_current); SlotMax gives the configured limits.  The operators take *)
(* the counters and return the new ones; callers keep them in a variable.  *)
(***************************************************************************)
EXTENDS Integers

CONSTANT SlotMax          \* slots_normal_max, slots_large_max, slots_huge_max

TIER_NORMAL == 0
TIER_LARGE  == 1
TIER_HUGE   == 2
Tiers == {TIER_NORMAL, TIER_LARGE, TIER_HUGE}

ASSUME SlotMaxAssumption == SlotMax \in [Tiers -> Nat]

slot_manager_init == [t \in Tiers |-> 0]

(* Faulty variant: one slot too many.                                      *)
FaultyAvailable(sl, t) == sl[t] <= SlotMax[t]

(* slot_manager_acquire returns 1 exactly when this holds ...              *)
slot_available(sl, t) == sl[t] < SlotMax[t]

(* ... and then counts the slot.                                           *)
slot_manager_acquire(sl, t) == [sl EXCEPT ![t] = @ + 1]

(* A release never takes a counter below zero.                             *)
slot_manager_release(sl, t) == [sl EXCEPT ![t] = IF @ > 0 THEN @ - 1 ELSE @]

(* slot_manager_promote: only upwards, the new slot before the old one is  *)
(* given back, and no change at all when the new tier is full.             *)
can_promote(sl, from, to) ==
    from = to \/ (from < to /\ slot_available(sl, to))

(* Faulty variant: the old slot is not given back.                         *)
FaultyPromote(sl, from, to) == slot_manager_acquire(sl, to)

slot_manager_promote(sl, from, to) ==
    IF from = to THEN sl
    ELSE slot_manager_release(slot_manager_acquire(sl, to), from)
=============================================================================
