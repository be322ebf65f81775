---------------------------- MODULE WorkerProofs ----------------------------
(***************************************************************************)
(* Proofs about Worker, for any number of connections, streams, slots and  *)
(* requests.                                                               *)
(*                                                                         *)
(* The accounting of slots is not inductive by itself: a release stops at  *)
(* zero, so that it subtracts one is known only because the releasing      *)
(* holder is counted; that the holder is counted is OpenHoldsSlot; and     *)
(* that connection_free returns every slot of a connection needs           *)
(* StreamsOwned.  IInv is their conjunction with the bounds.               *)
(***************************************************************************)
EXTENDS Worker, TLAPS, FiniteSetTheorems

(* 1 if the record r of a connection, or x of a stream, holds a slot at t. *)
ConnSlot(r, t)   == IF r.slot_held /\ r.tier = t THEN 1 ELSE 0
StreamSlot(x, t) == IF x.slot_acquired /\ x.tier = t THEN 1 ELSE 0

WithinMax == \A t \in Tiers : slots[t] <= SlotMax[t]

DrainInv ==
    /\ draining => ~listening
    /\ loop = "drained" => draining /\ active_connections = 0
    /\ NoLostDrain

ReadInv ==
    reading # NoConn => conn[reading].state = "READING_HEADERS"
                        /\ conn[reading].protocol = "HTTP_2"

RequestsInv ==
    \A c \in Conn : conn[c].state \in {"READING_BODY", "WRITING_RESPONSE"}
                    => conn[c].requests < MaxRequests

(* The inductive invariant.                                                *)
IInv ==
    /\ TypeOK
    /\ SlotsAccounted
    /\ WithinMax
    /\ OpenHoldsSlot
    /\ StreamsOwned
    /\ ActiveAccounted
    /\ DrainInv
    /\ ReadInv
    /\ RequestsInv
-----------------------------------------------------------------------------
(* Counting.                                                               *)

(* Two sets that agree except on one element: their cardinalities differ   *)
(* by that element.                                                        *)
LEMMA OneChange ==
    ASSUME NEW A, NEW B, NEW x, IsFiniteSet(A), A \ {x} = B \ {x}
    PROVE  /\ IsFiniteSet(B)
           /\ Cardinality(A) \in Nat
           /\ Cardinality(B) \in Nat
           /\ Cardinality(B) = Cardinality(A) - (IF x \in A THEN 1 ELSE 0)
                                              + (IF x \in B THEN 1 ELSE 0)
<1>1. IsFiniteSet(B)
  <2>1. IsFiniteSet(A \cup {x})
    BY FS_AddElement
  <2>2. B \in SUBSET (A \cup {x})
    OBVIOUS
  <2> QED
    BY <2>1, <2>2, FS_Subset
<1>2. Cardinality(A) \in Nat /\ Cardinality(B) \in Nat
  BY <1>1, FS_CardinalityType
<1>3. Cardinality(A \ {x}) = IF x \in A THEN Cardinality(A) - 1 ELSE Cardinality(A)
  BY FS_RemoveElement
<1>4. Cardinality(B \ {x}) = IF x \in B THEN Cardinality(B) - 1 ELSE Cardinality(B)
  BY <1>1, FS_RemoveElement
<1>5. Cardinality(A \ {x}) = Cardinality(B \ {x})
  OBVIOUS
<1> QED
  BY <1>1, <1>2, <1>3, <1>4, <1>5

(* Removing a subset.                                                      *)
LEMMA RemoveSubset ==
    ASSUME NEW A, NEW D, IsFiniteSet(A), D \subseteq A
    PROVE  /\ IsFiniteSet(A \ D) /\ IsFiniteSet(D)
           /\ Cardinality(A) \in Nat
           /\ Cardinality(D) \in Nat
           /\ Cardinality(A \ D) \in Nat
           /\ Cardinality(A \ D) = Cardinality(A) - Cardinality(D)
<1>1. A \cap D = D
  OBVIOUS
<1>2. IsFiniteSet(D)
  BY FS_Subset
<1>3. IsFiniteSet(A \ D) /\ Cardinality(A \ D) = Cardinality(A) - Cardinality(A \cap D)
  BY <1>2, FS_Difference
<1> QED
  BY <1>1, <1>2, <1>3, FS_CardinalityType, ZenonT(30)

(* Every holder set is finite, and a holder is counted.                    *)
LEMMA HoldersFinite ==
    ASSUME NEW t \in Tiers
    PROVE  /\ IsFiniteSet(ConnHolders(t))
           /\ IsFiniteSet(StreamHolders(t))
           /\ Cardinality(ConnHolders(t)) \in Nat
           /\ Cardinality(StreamHolders(t)) \in Nat
<1>1. IsFiniteSet(ConnHolders(t))
  <2>1. ConnHolders(t) \in SUBSET Conn
    BY DEF ConnHolders
  <2> QED
    BY <2>1, WorkerAssumption, FS_Subset
<1>2. IsFiniteSet(StreamHolders(t))
  <2>1. StreamHolders(t) \in SUBSET (Conn \X StreamIds)
    BY DEF StreamHolders
  <2>2. IsFiniteSet(Conn \X StreamIds)
    BY WorkerAssumption, FS_Product
  <2> QED
    BY <2>1, <2>2, FS_Subset
<1> QED
  BY <1>1, <1>2, FS_CardinalityType

(* Changing one connection changes the count of its slot's tier.           *)
LEMMA ConnUpdate ==
    ASSUME TypeOK, NEW c \in Conn, NEW r,
           conn' = [conn EXCEPT ![c] = r],
           NEW t \in Tiers
    PROVE  Cardinality(ConnHolders(t)') =
             Cardinality(ConnHolders(t)) - ConnSlot(conn[c], t) + ConnSlot(r, t)
<1>1. ConnHolders(t) \ {c} = ConnHolders(t)' \ {c}
  BY DEF ConnHolders, TypeOK
<1>2. (c \in ConnHolders(t)) <=> (conn[c].slot_held /\ conn[c].tier = t)
  BY DEF ConnHolders
<1>3. (c \in ConnHolders(t)') <=> (r.slot_held /\ r.tier = t)
  BY DEF ConnHolders, TypeOK
<1>4. Cardinality(ConnHolders(t)') = Cardinality(ConnHolders(t))
        - (IF c \in ConnHolders(t) THEN 1 ELSE 0)
        + (IF c \in ConnHolders(t)' THEN 1 ELSE 0)
  BY <1>1, HoldersFinite, OneChange
<1> QED
  BY <1>2, <1>3, <1>4 DEF ConnSlot

(* Changing one stream changes the count of its slot's tier.               *)
LEMMA StreamUpdate ==
    ASSUME TypeOK, NEW z \in Conn \X StreamIds, NEW x,
           stream' = [stream EXCEPT ![z] = x],
           NEW t \in Tiers
    PROVE  Cardinality(StreamHolders(t)') =
             Cardinality(StreamHolders(t)) - StreamSlot(stream[z], t) + StreamSlot(x, t)
<1>1. StreamHolders(t) \ {z} = StreamHolders(t)' \ {z}
  BY DEF StreamHolders, TypeOK
<1>2. (z \in StreamHolders(t)) <=> (stream[z].slot_acquired /\ stream[z].tier = t)
  BY DEF StreamHolders
<1>3. (z \in StreamHolders(t)') <=> (x.slot_acquired /\ x.tier = t)
  BY DEF StreamHolders, TypeOK
<1>4. Cardinality(StreamHolders(t)') = Cardinality(StreamHolders(t))
        - (IF z \in StreamHolders(t) THEN 1 ELSE 0)
        + (IF z \in StreamHolders(t)' THEN 1 ELSE 0)
  BY <1>1, HoldersFinite, OneChange
<1> QED
  BY <1>2, <1>3, <1>4 DEF StreamSlot

(* Freeing a set of streams returns exactly their slots: from counters     *)
(* that count at least every stream, h2_stream_free never meets its floor. *)
LEMMA StreamsFreed ==
    ASSUME TypeOK, NEW X \in SUBSET (Conn \X StreamIds),
           NEW sl \in [Tiers -> Nat],
           \A t \in Tiers : sl[t] >= Cardinality(StreamHolders(t)),
           stream' = [x \in Conn \X StreamIds |->
                        IF x \in X THEN FreeStream ELSE stream[x]]
    PROVE  /\ h2_stream_free(sl, X) \in [Tiers -> Nat]
           /\ \A t \in Tiers :
                /\ Cardinality(StreamHolders(t)') \in Nat
                /\ Cardinality(StreamHolders(t)') <= Cardinality(StreamHolders(t))
                /\ h2_stream_free(sl, X)[t] =
                     sl[t] - Cardinality(StreamHolders(t))
                           + Cardinality(StreamHolders(t)')
<1> DEFINE D(t) == {x \in X : stream[x].slot_acquired /\ stream[x].tier = t}
<1>1. ASSUME NEW t \in Tiers
      PROVE  /\ Cardinality(D(t)) \in Nat
             /\ Cardinality(StreamHolders(t)') \in Nat
             /\ Cardinality(StreamHolders(t)')
                  = Cardinality(StreamHolders(t)) - Cardinality(D(t))
  <2>1. D(t) \subseteq StreamHolders(t)
    BY DEF StreamHolders
  <2>2. StreamHolders(t)' = StreamHolders(t) \ D(t)
    BY DEF StreamHolders, FreeStream
  <2> HIDE DEF D
  <2> QED
    BY <2>1, <2>2, HoldersFinite, RemoveSubset, ZenonT(30)
<1>2. h2_stream_free(sl, X) =
        [t \in Tiers |-> IF sl[t] >= Cardinality(D(t))
                         THEN sl[t] - Cardinality(D(t)) ELSE 0]
  BY DEF h2_stream_free
<1> HIDE DEF D
<1>3. ASSUME NEW t \in Tiers
      PROVE  /\ h2_stream_free(sl, X)[t] = sl[t] - Cardinality(D(t))
             /\ sl[t] - Cardinality(D(t)) \in Nat
             /\ Cardinality(StreamHolders(t)') <= Cardinality(StreamHolders(t))
             /\ h2_stream_free(sl, X)[t] =
                     sl[t] - Cardinality(StreamHolders(t))
                           + Cardinality(StreamHolders(t)')
  BY <1>1, <1>2, HoldersFinite
<1> QED
  BY <1>1, <1>2, <1>3

(* Whoever holds a slot is counted, so its release is not cut off at zero. *)
LEMMA HolderCounted ==
    ASSUME TypeOK, SlotsAccounted
    PROVE  /\ \A c \in Conn : conn[c].slot_held => slots[conn[c].tier] >= 1
           /\ \A z \in Conn \X StreamIds :
                 stream[z].slot_acquired => slots[stream[z].tier] >= 1
<1>1. ASSUME NEW c \in Conn, conn[c].slot_held
      PROVE  slots[conn[c].tier] >= 1
  <2> DEFINE t == conn[c].tier
  <2>1. t \in Tiers
    BY DEF TypeOK, Connection
  <2>2. ConnHolders(t) # {}
    BY <1>1 DEF ConnHolders
  <2> HIDE DEF t
  <2>3. Cardinality(ConnHolders(t)) # 0
    BY <2>1, <2>2, HoldersFinite, FS_EmptySet
  <2>4. slots[t] = Cardinality(ConnHolders(t)) + Cardinality(StreamHolders(t))
    BY <2>1 DEF SlotsAccounted
  <2>5. slots[t] >= 1
    BY <2>1, <2>3, <2>4, HoldersFinite
  <2> QED
    BY <2>5 DEF t
<1>2. ASSUME NEW z \in Conn \X StreamIds, stream[z].slot_acquired
      PROVE  slots[stream[z].tier] >= 1
  <2> DEFINE t == stream[z].tier
  <2>1. t \in Tiers
    BY DEF TypeOK, H2Stream
  <2>2. StreamHolders(t) # {}
    BY <1>2 DEF StreamHolders
  <2> HIDE DEF t
  <2>3. Cardinality(StreamHolders(t)) # 0
    BY <2>1, <2>2, HoldersFinite, FS_EmptySet
  <2>4. slots[t] = Cardinality(ConnHolders(t)) + Cardinality(StreamHolders(t))
    BY <2>1 DEF SlotsAccounted
  <2>5. slots[t] >= 1
    BY <2>1, <2>3, <2>4, HoldersFinite
  <2> QED
    BY <2>5 DEF t
<1> QED
  BY <1>1, <1>2
-----------------------------------------------------------------------------
(* The slot operations.                                                    *)

(* new is old with one slot moved from tier `from' to tier `to', within    *)
(* the limits.                                                             *)
Moved(old, new, from, to) ==
    /\ to \in Tiers
    /\ new \in [Tiers -> Nat]
    /\ \A t \in Tiers : /\ new[t] = old[t] - (IF from = t THEN 1 ELSE 0)
                                           + (IF to = t THEN 1 ELSE 0)
                        /\ new[t] <= SlotMax[t]

(* Taking and giving back a slot, tier by tier.                            *)
LEMMA AcquireOne ==
    ASSUME NEW sl \in [Tiers -> Nat], NEW t \in Tiers
    PROVE  /\ slot_manager_acquire(sl, t) \in [Tiers -> Nat]
           /\ \A u \in Tiers : slot_manager_acquire(sl, t)[u]
                                = sl[u] + (IF u = t THEN 1 ELSE 0)
BY DEF slot_manager_acquire

LEMMA ReleaseOne ==
    ASSUME NEW sl \in [Tiers -> Nat], NEW t \in Tiers, sl[t] >= 1
    PROVE  /\ slot_manager_release(sl, t) \in [Tiers -> Nat]
           /\ \A u \in Tiers : slot_manager_release(sl, t)[u]
                                = sl[u] - (IF u = t THEN 1 ELSE 0)
<1>1. sl[t] \in Nat /\ sl[t] > 0
  OBVIOUS
<1>2. slot_manager_release(sl, t) = [sl EXCEPT ![t] = sl[t] - 1]
  BY <1>1 DEF slot_manager_release
<1> QED
  BY <1>1, <1>2

(* A promotion moves the slot to the tier it reports.                      *)
LEMMA PromoteMoves ==
    ASSUME TypeOK, WithinMax, NEW tier \in Tiers, NEW required \in Tiers,
           slots[tier] >= 1, required_ok(tier, required)
    PROVE  Moved(slots, try_promote_tier(tier, required).slots, tier,
                 try_promote_tier(tier, required).tier)
<1>1. slots \in [Tiers -> Nat] /\ SlotMax \in [Tiers -> Nat]
  BY SlotMaxAssumption DEF TypeOK
<1>2. CASE tier >= required
  BY <1>1, <1>2 DEF try_promote_tier, Moved, WithinMax, Tiers, TIER_NORMAL,
                    TIER_LARGE, TIER_HUGE
<1>3. CASE ~(tier >= required)
  <2>1. tier < required /\ slots[required] < SlotMax[required] /\ tier # required
    BY <1>3 DEF required_ok, can_promote, slot_available, Tiers, TIER_NORMAL,
                TIER_LARGE, TIER_HUGE
  <2> DEFINE new == slot_manager_promote(slots, tier, required)
  <2>2. new = [[slots EXCEPT ![required] = @ + 1] EXCEPT
                 ![tier] = IF @ > 0 THEN @ - 1 ELSE @]
    BY <2>1 DEF slot_manager_promote, slot_manager_acquire, slot_manager_release
  <2>3. \A t \in Tiers : new[t] = IF t = required THEN slots[t] + 1
                                   ELSE IF t = tier THEN slots[t] - 1 ELSE slots[t]
    BY <1>1, <2>1, <2>2
  <2>4. new \in [Tiers -> Nat]
    BY <1>1, <2>1, <2>2
  <2>5. /\ try_promote_tier(tier, required).slots = new
        /\ try_promote_tier(tier, required).tier = required
    BY <1>3 DEF try_promote_tier
  <2> HIDE DEF new
  <2> QED
    BY <1>1, <2>1, <2>3, <2>4, <2>5 DEF Moved, WithinMax
<1> QED
  BY <1>2, <1>3

(* A downgrade by a holder moves its slot to the tier it reports, and the  *)
(* slot is still held: the branch that loses both slots is dead.  It stays *)
(* in an expensive tier only if no normal slot is free.                    *)
LEMMA DowngradeMoves ==
    ASSUME NEW sl \in [Tiers -> Nat], \A t \in Tiers : sl[t] <= SlotMax[t],
           NEW tier \in Tiers, sl[tier] >= 1
    PROVE  /\ Moved(sl, downgrade_tier_to_normal(sl, tier, TRUE).slots, tier,
                    downgrade_tier_to_normal(sl, tier, TRUE).tier)
           /\ downgrade_tier_to_normal(sl, tier, TRUE).held = TRUE
           /\ downgrade_tier_to_normal(sl, tier, TRUE).tier # TIER_NORMAL
                => downgrade_tier_to_normal(sl, tier, TRUE).slots[TIER_NORMAL]
                     >= SlotMax[TIER_NORMAL]
<1> DEFINE d    == downgrade_tier_to_normal(sl, tier, TRUE)
           rest == slot_manager_release(sl, tier)
<1>1. SlotMax \in [Tiers -> Nat] /\ TIER_NORMAL \in Tiers
  BY SlotMaxAssumption DEF Tiers
<1>2. /\ rest \in [Tiers -> Nat]
      /\ \A u \in Tiers : rest[u] = sl[u] - (IF u = tier THEN 1 ELSE 0)
  BY ReleaseOne
<1>3. CASE tier = TIER_NORMAL
  <2>1. d.slots = sl /\ d.tier = tier /\ d.held = TRUE
    BY <1>3, ZenonT(30) DEF downgrade_tier_to_normal
  <2>2. \A t \in Tiers : sl[t] \in Nat
    OBVIOUS
  <2>3. Moved(sl, sl, tier, tier)
    BY <2>2 DEF Moved
  <2> QED
    BY <1>3, <2>1, <2>3, ZenonT(30) DEF Moved
<1>4. CASE tier # TIER_NORMAL /\ slot_available(rest, TIER_NORMAL)
  <2> DEFINE new == slot_manager_acquire(rest, TIER_NORMAL)
  <2>1. d.slots = new /\ d.tier = TIER_NORMAL /\ d.held = TRUE
    BY <1>4 DEF downgrade_tier_to_normal
  <2>2. /\ new \in [Tiers -> Nat]
        /\ \A u \in Tiers : new[u] = rest[u] + (IF u = TIER_NORMAL THEN 1 ELSE 0)
    BY <1>1, <1>2, AcquireOne
  <2>3. rest[TIER_NORMAL] < SlotMax[TIER_NORMAL]
    BY <1>4 DEF slot_available
  <2> HIDE DEF rest, new
  <2>4. Moved(sl, new, tier, TIER_NORMAL)
    BY <1>1, <1>2, <2>2, <2>3 DEF Moved
  <2> QED
    BY <2>1, <2>4, ZenonT(30) DEF Moved
<1>5. CASE tier # TIER_NORMAL /\ ~slot_available(rest, TIER_NORMAL)
  <2> DEFINE new == slot_manager_acquire(rest, tier)
  <2>1. slot_available(rest, tier)
    BY <1>1, <1>2 DEF slot_available
  <2>2. d.slots = new /\ d.tier = tier /\ d.held = TRUE
    BY <1>5, <2>1 DEF downgrade_tier_to_normal
  <2>3. /\ new \in [Tiers -> Nat]
        /\ \A u \in Tiers : new[u] = rest[u] + (IF u = tier THEN 1 ELSE 0)
    BY <1>2, AcquireOne
  <2> HIDE DEF rest, new
  <2>4. Moved(sl, new, tier, tier)
    BY <1>1, <1>2, <2>3 DEF Moved
  <2>5. new[TIER_NORMAL] >= SlotMax[TIER_NORMAL]
    BY <1>1, <1>2, <1>5, <2>3 DEF slot_available
  <2> QED
    BY <2>2, <2>4, <2>5, ZenonT(30) DEF Moved
<1> QED
  BY <1>3, <1>4, <1>5, ZenonT(30)
-----------------------------------------------------------------------------
(* The kinds of steps.                                                     *)

(* A slot moved to its own tier.                                           *)
LEMMA MovedNowhere ==
    ASSUME TypeOK, WithinMax, NEW tier \in Tiers
    PROVE  Moved(slots, slots, tier, tier)
<1>1. \A t \in Tiers : slots[t] \in Nat
  BY DEF TypeOK
<1> QED
  BY <1>1 DEF Moved, WithinMax, TypeOK

(* A connection without streams moves on, its slot with it.                *)
LEMMA ConnMoves ==
    ASSUME IInv, NEW c \in Conn, NEW r \in Connection,
           reading = NoConn, Live(c), \A s \in StreamIds : ~Open(c, s),
           r.state # "FREE", r.slot_held,
           r.state \in {"READING_BODY", "WRITING_RESPONSE"}
             => r.requests < MaxRequests,
           Moved(slots, slots', conn[c].tier, r.tier),
           conn' = [conn EXCEPT ![c] = r],
           UNCHANGED <<stream, active_connections, draining, listening, loop,
                       exited, reading>>
    PROVE  IInv'
<1> USE DEF IInv
<1>1. conn[c].slot_held /\ conn[c].tier \in Tiers
  BY ZenonT(30) DEF OpenHoldsSlot, TypeOK, Connection
<1>2. TypeOK'
  BY DEF TypeOK, Moved
<1>3. SlotsAccounted'
  <2> SUFFICES ASSUME NEW t \in Tiers
               PROVE  slots'[t] = Cardinality(ConnHolders(t)')
                                + Cardinality(StreamHolders(t)')
    BY ZenonT(30) DEF SlotsAccounted, ConnHolders, StreamHolders
  <2>1. Cardinality(ConnHolders(t)') = Cardinality(ConnHolders(t))
          - ConnSlot(conn[c], t) + ConnSlot(r, t)
    BY ConnUpdate, ZenonT(30)
  <2>2. StreamHolders(t)' = StreamHolders(t)
    BY DEF StreamHolders
  <2>3. slots[t] = Cardinality(ConnHolders(t)) + Cardinality(StreamHolders(t))
    BY DEF SlotsAccounted
  <2>4. slots'[t] = slots[t] - ConnSlot(conn[c], t) + ConnSlot(r, t)
    BY <1>1 DEF Moved, ConnSlot
  <2>5. ConnSlot(conn[c], t) \in {0, 1} /\ ConnSlot(r, t) \in {0, 1}
    BY DEF ConnSlot
  <2> QED
    BY <2>1, <2>2, <2>3, <2>4, <2>5, HoldersFinite
<1>4. WithinMax'
  BY DEF WithinMax, Moved
<1>5. OpenHoldsSlot'
  BY DEF OpenHoldsSlot, Live, Open, TypeOK
<1>6. StreamsOwned'
  BY DEF StreamsOwned, Open, TypeOK
<1>7. ActiveAccounted'
  <2>1. {d \in Conn : Live(d)}' = {d \in Conn : Live(d)}
    BY ZenonT(30) DEF Live, TypeOK
  <2> QED
    BY <2>1, ZenonT(30) DEF ActiveAccounted
<1>8. DrainInv'
  BY DEF DrainInv, NoLostDrain
<1>9. ReadInv'
  BY DEF ReadInv
<1>10. RequestsInv'
  BY DEF RequestsInv, TypeOK
<1> QED
  BY <1>2, <1>3, <1>4, <1>5, <1>6, <1>7, <1>8, <1>9, <1>10

(* The records of unused memory are well typed.                            *)
LEMMA FreeRecords == FreeConnection \in Connection /\ FreeStream \in H2Stream
BY WorkerAssumption DEF FreeConnection, FreeStream, Connection, H2Stream, Tiers

(* A connection is freed: the slot it still holds (own, the record's, or   *)
(* none when the caller has released it into sl) and those of its streams  *)
(* go back.                                                                *)
LEMMA ConnFreed ==
    ASSUME IInv, NEW c \in Conn, Live(c), NEW sl, NEW r,
           \/ sl = slots /\ r = conn[c]
           \/ sl = slot_manager_release(slots, conn[c].tier) /\ ~r.slot_held,
           connection_free(c, sl, r),
           reading \in {NoConn, c}, reading' = NoConn
    PROVE  IInv'
<1> USE DEF IInv
<1> DEFINE X == {c} \X StreamIds
           rest == h2_stream_free(sl, X)
<1>1. /\ conn[c].slot_held /\ conn[c].tier \in Tiers
      /\ slots[conn[c].tier] >= 1
  BY HolderCounted, ZenonT(30) DEF OpenHoldsSlot, TypeOK, Connection
<1>2. /\ conn' = [conn EXCEPT ![c] = FreeConnection]
      /\ stream' = [x \in Conn \X StreamIds |->
                       IF x[1] = c THEN FreeStream ELSE stream[x]]
      /\ active_connections' = active_connections - 1
      /\ worker_check_drain(draining, active_connections - 1)
      /\ UNCHANGED <<draining, exited>>
      /\ slots' = IF r.slot_held THEN slot_manager_release(rest, r.tier) ELSE rest
  BY ZenonT(30) DEF connection_free, h2_connection_free
<1>3. stream' = [x \in Conn \X StreamIds |->
                   IF x \in X THEN FreeStream ELSE stream[x]]
  BY <1>2, ZenonT(30)
<1>4. ASSUME NEW t \in Tiers
      PROVE  /\ Cardinality(ConnHolders(t)')
                  = Cardinality(ConnHolders(t)) - ConnSlot(conn[c], t)
             /\ Cardinality(ConnHolders(t)') \in Nat
             /\ slots[t] = Cardinality(ConnHolders(t)) + Cardinality(StreamHolders(t))
             /\ ConnSlot(conn[c], t) = IF t = conn[c].tier THEN 1 ELSE 0
  <2>1. Cardinality(ConnHolders(t)') = Cardinality(ConnHolders(t))
          - ConnSlot(conn[c], t) + ConnSlot(FreeConnection, t)
    BY <1>2, ConnUpdate, ZenonT(30)
  <2>2. ConnSlot(FreeConnection, t) = 0
    BY DEF ConnSlot, FreeConnection
  <2>3. ConnSlot(conn[c], t) = IF t = conn[c].tier THEN 1 ELSE 0
    BY <1>1, ZenonT(30) DEF ConnSlot
  <2>4. slots[t] = Cardinality(ConnHolders(t)) + Cardinality(StreamHolders(t))
    BY DEF SlotsAccounted
  <2>5. IsFiniteSet(ConnHolders(t)')
    <3>1. ConnHolders(t)' \in SUBSET Conn
      BY DEF ConnHolders
    <3> QED
      BY <3>1, WorkerAssumption, FS_Subset
  <2>6. Cardinality(ConnHolders(t)') \in Nat
    BY <2>5, FS_CardinalityType
  <2> QED
    BY <2>1, <2>2, <2>3, <2>4, <2>6, HoldersFinite
<1>5. /\ sl \in [Tiers -> Nat]
      /\ \A t \in Tiers : /\ sl[t] >= Cardinality(StreamHolders(t))
                          /\ sl[t] = slots[t] - (IF r.slot_held THEN 0
                                                   ELSE ConnSlot(conn[c], t))
  <2>1. slots \in [Tiers -> Nat]
    BY DEF TypeOK
  <2>2. CASE sl = slots /\ r = conn[c]
    BY <1>1, <1>4, <2>1, <2>2, HoldersFinite
  <2>3. CASE sl = slot_manager_release(slots, conn[c].tier) /\ ~r.slot_held
    <3>1. /\ sl \in [Tiers -> Nat]
          /\ \A u \in Tiers : sl[u] = slots[u] - (IF u = conn[c].tier THEN 1 ELSE 0)
      BY <1>1, <2>1, <2>3, ReleaseOne, ZenonT(30)
    <3> QED
      BY <1>4, <2>3, <3>1, HoldersFinite
  <2> QED
    BY <2>2, <2>3
<1>6. X \in SUBSET (Conn \X StreamIds)
  BY ZenonT(30)
<1>7. /\ rest \in [Tiers -> Nat]
      /\ \A t \in Tiers :
           /\ Cardinality(StreamHolders(t)') \in Nat
           /\ Cardinality(StreamHolders(t)') <= Cardinality(StreamHolders(t))
           /\ rest[t] = sl[t] - Cardinality(StreamHolders(t))
                              + Cardinality(StreamHolders(t)')
  <2> HIDE DEF X
  <2> QED
    BY <1>3, <1>5, <1>6, StreamsFreed, ZenonT(30)
<1> HIDE DEF X, rest
<1>8. /\ slots' \in [Tiers -> Nat]
      /\ \A t \in Tiers :
           slots'[t] = Cardinality(ConnHolders(t)') + Cardinality(StreamHolders(t)')
  <2>1. CASE ~r.slot_held
    BY <1>2, <1>4, <1>5, <1>7, <2>1, HoldersFinite
  <2>2. CASE r.slot_held
    <3>1. r = conn[c] /\ sl = slots
      BY <2>2, ZenonT(30)
    <3>2. rest[conn[c].tier] >= 1
      BY <1>1, <1>4, <1>7, <3>1, HoldersFinite
    <3>3. /\ slots' \in [Tiers -> Nat]
          /\ \A u \in Tiers : slots'[u] = rest[u] - (IF u = conn[c].tier THEN 1 ELSE 0)
      BY <1>1, <1>2, <1>7, <2>2, <3>1, <3>2, ReleaseOne, ZenonT(30)
    <3> QED
      BY <1>4, <1>7, <3>1, <3>3, HoldersFinite, SMTT(30)
  <2> QED
    BY <2>1, <2>2, ZenonT(30)
<1>9. /\ active_connections \in Nat
      /\ active_connections - 1 = Cardinality({d \in Conn : Live(d)}')
      /\ active_connections - 1 \in Nat
  <2> DEFINE A == {d \in Conn : Live(d)}
             B == {d \in Conn : Live(d)}'
  <2>1. A \ {c} = B \ {c} /\ c \in A /\ c \notin B
    BY <1>2 DEF Live, TypeOK, FreeConnection
  <2>2. IsFiniteSet(A)
    BY WorkerAssumption, FS_Subset
  <2>3. active_connections = Cardinality(A)
    BY ZenonT(30) DEF ActiveAccounted
  <2> HIDE DEF A, B
  <2>4. Cardinality(B) = Cardinality(A) - 1 /\ Cardinality(A) \in Nat
        /\ Cardinality(B) \in Nat
    BY <2>1, <2>2, OneChange
  <2>5. active_connections - 1 = Cardinality(B) /\ active_connections \in Nat
        /\ active_connections - 1 \in Nat
    BY <2>3, <2>4
  <2> QED
    BY <2>5, ZenonT(30) DEF B
<1>10. TypeOK'
  <2>1. FreeConnection \in Connection /\ FreeStream \in H2Stream
    BY FreeRecords, ZenonT(30)
  <2>2. conn' \in [Conn -> Connection]
    BY <1>2, <2>1 DEF TypeOK
  <2>3. stream' \in [Conn \X StreamIds -> H2Stream]
    BY <1>2, <2>1 DEF TypeOK
  <2>4. listening' \in BOOLEAN /\ loop' \in {"running", "drained", "accept_error"}
    BY <1>2 DEF TypeOK, worker_check_drain
  <2> QED
    BY <1>2, <1>8, <1>9, <2>2, <2>3, <2>4 DEF TypeOK
<1>11. SlotsAccounted'
  BY <1>8 DEF SlotsAccounted, ConnHolders, StreamHolders
<1>12. WithinMax'
  <2>1. \A t \in Tiers : slots'[t] <= slots[t]
    BY <1>4, <1>7, <1>8, HoldersFinite
  <2> QED
    BY <1>8, <2>1, SlotMaxAssumption DEF WithinMax, TypeOK
<1>13. OpenHoldsSlot'
  BY <1>2, ZenonT(30) DEF OpenHoldsSlot, Live, Open, TypeOK, FreeConnection, FreeStream
<1>14. StreamsOwned'
  BY <1>2, ZenonT(30) DEF StreamsOwned, Open, TypeOK, FreeStream
<1>15. ActiveAccounted'
  BY <1>2, <1>9, ZenonT(30) DEF ActiveAccounted
<1>16. DrainInv'
  BY <1>2, <1>9 DEF DrainInv, NoLostDrain, worker_check_drain, TypeOK
<1>17. ReadInv'
  BY DEF ReadInv
<1>18. RequestsInv'
  BY <1>2 DEF RequestsInv, TypeOK, FreeConnection
<1> QED
  BY <1>10, <1>11, <1>12, <1>13, <1>14, <1>15, <1>16, <1>17, <1>18

(* One stream of the connection being read opens or moves on.              *)
LEMMA StreamMoves ==
    ASSUME IInv, NEW c \in Conn, NEW s \in StreamIds, NEW x \in H2Stream,
           reading = c, x.slot_acquired, x.state # "FREE",
           slots' \in [Tiers -> Nat],
           \A t \in Tiers : /\ slots'[t] = slots[t] - StreamSlot(stream[<<c, s>>], t)
                                                  + StreamSlot(x, t)
                            /\ slots'[t] <= SlotMax[t],
           stream' = [stream EXCEPT ![<<c, s>>] = x],
           H2Unchanged
    PROVE  IInv'
<1> USE DEF IInv, H2Unchanged
<1>1. <<c, s>> \in Conn \X StreamIds
  BY ZenonT(30)
<1>2. TypeOK'
  BY <1>1 DEF TypeOK
<1>3. SlotsAccounted'
  <2> SUFFICES ASSUME NEW t \in Tiers
               PROVE  slots'[t] = Cardinality(ConnHolders(t)')
                                + Cardinality(StreamHolders(t)')
    BY ZenonT(30) DEF SlotsAccounted, ConnHolders, StreamHolders
  <2>1. Cardinality(StreamHolders(t)') = Cardinality(StreamHolders(t))
          - StreamSlot(stream[<<c, s>>], t) + StreamSlot(x, t)
    BY <1>1, StreamUpdate, ZenonT(30)
  <2>2. ConnHolders(t)' = ConnHolders(t)
    BY ZenonT(30) DEF ConnHolders
  <2>3. slots[t] = Cardinality(ConnHolders(t)) + Cardinality(StreamHolders(t))
    BY DEF SlotsAccounted
  <2>4. StreamSlot(stream[<<c, s>>], t) \in {0, 1} /\ StreamSlot(x, t) \in {0, 1}
    BY DEF StreamSlot
  <2> QED
    BY <2>1, <2>2, <2>3, <2>4, HoldersFinite
<1>4. WithinMax'
  BY ZenonT(30) DEF WithinMax
<1>5. OpenHoldsSlot'
  BY <1>1, ZenonT(30) DEF OpenHoldsSlot, Live, Open, TypeOK
<1>6. StreamsOwned'
  BY <1>1, WorkerAssumption, ZenonT(30) DEF StreamsOwned, Open, TypeOK, ReadInv
<1>7. ActiveAccounted'
  BY ZenonT(30) DEF ActiveAccounted, Live
<1>8. DrainInv' /\ ReadInv' /\ RequestsInv'
  BY ZenonT(30) DEF DrainInv, NoLostDrain, ReadInv, RequestsInv
<1> QED
  BY <1>2, <1>3, <1>4, <1>5, <1>6, <1>7, <1>8, ZenonT(30)

(* Streams of the connection being read are closed; the read callback goes *)
(* on, or returns with no refused stream left.                             *)
LEMMA StreamsClosed ==
    ASSUME IInv, NEW c \in Conn, reading = c,
           NEW X \in SUBSET (Conn \X StreamIds),
           slots' = h2_stream_free(slots, X),
           stream' = [x \in Conn \X StreamIds |->
                        IF x \in X THEN FreeStream ELSE stream[x]],
           \/ reading' = reading
           \/ /\ reading' = NoConn
              /\ \A s \in StreamIds : stream[<<c, s>>].state = "RESET"
                                          => <<c, s>> \in X,
           UNCHANGED <<conn, active_connections, draining, listening, loop, exited>>
    PROVE  IInv'
<1> USE DEF IInv
<1>1. ASSUME NEW t \in Tiers
      PROVE  slots[t] = Cardinality(ConnHolders(t)) + Cardinality(StreamHolders(t))
  BY ZenonT(30) DEF SlotsAccounted
<1>2. \A t \in Tiers : slots[t] >= Cardinality(StreamHolders(t))
  BY <1>1, HoldersFinite
<1>3. slots \in [Tiers -> Nat]
  BY ZenonT(30) DEF TypeOK
<1>4. /\ slots' \in [Tiers -> Nat]
      /\ \A t \in Tiers :
           /\ Cardinality(StreamHolders(t)') \in Nat
           /\ Cardinality(StreamHolders(t)') <= Cardinality(StreamHolders(t))
           /\ slots'[t] = slots[t] - Cardinality(StreamHolders(t))
                                  + Cardinality(StreamHolders(t)')
  BY <1>2, <1>3, StreamsFreed, ZenonT(30)
<1>5. TypeOK'
  <2>1. stream' \in [Conn \X StreamIds -> H2Stream]
    BY FreeRecords, ZenonT(30) DEF TypeOK
  <2> QED
    BY <1>4, <2>1, ZenonT(30) DEF TypeOK
<1>6. SlotsAccounted'
  <2> SUFFICES ASSUME NEW t \in Tiers
               PROVE  slots'[t] = Cardinality(ConnHolders(t)')
                                + Cardinality(StreamHolders(t)')
    BY ZenonT(30) DEF SlotsAccounted, ConnHolders, StreamHolders
  <2>1. ConnHolders(t)' = ConnHolders(t)
    BY ZenonT(30) DEF ConnHolders
  <2> QED
    BY <1>1, <1>4, <2>1, HoldersFinite, SMTT(30)
<1>7. WithinMax'
  <2>1. \A t \in Tiers : slots'[t] <= slots[t]
    BY <1>3, <1>4, HoldersFinite, SMTT(30)
  <2> QED
    BY <1>3, <1>4, <2>1, SlotMaxAssumption, SMTT(30) DEF WithinMax
<1>8. OpenHoldsSlot'
  BY ZenonT(30) DEF OpenHoldsSlot, Live, Open, FreeStream
<1>9. StreamsOwned'
  BY WorkerAssumption, ZenonT(30) DEF StreamsOwned, Open, FreeStream
<1>10. ActiveAccounted'
  BY ZenonT(30) DEF ActiveAccounted, Live
<1>11. DrainInv' /\ ReadInv' /\ RequestsInv'
  BY ZenonT(30) DEF DrainInv, NoLostDrain, ReadInv, RequestsInv
<1> QED
  BY <1>5, <1>6, <1>7, <1>8, <1>9, <1>10, <1>11, ZenonT(30)
-----------------------------------------------------------------------------
(* HTTP/1.1.                                                               *)

(* A slot moved twice.                                                     *)
LEMMA MovedTwice ==
    ASSUME NEW a \in [Tiers -> Nat], NEW b, NEW d, NEW u \in Tiers, NEW v, NEW w,
           Moved(a, b, u, v), Moved(b, d, v, w)
    PROVE  Moved(a, d, u, w)
<1>1. \A t \in Tiers : a[t] \in Nat /\ b[t] \in Nat /\ d[t] \in Nat
  BY DEF Moved
<1> QED
  BY <1>1 DEF Moved

(* A connection that speaks, or is about to speak, HTTP/1.1, or that is    *)
(* past its headers, has no stream.                                        *)
LEMMA NoStreams ==
    ASSUME IInv, NEW c \in Conn,
           conn[c].protocol # "HTTP_2" \/ conn[c].state # "READING_HEADERS"
    PROVE  \A s \in StreamIds : ~Open(c, s)
BY ZenonT(30) DEF IInv, StreamsOwned

(* process_request keeps the invariant, given the promotion before it.     *)
LEMMA RequestProcessed ==
    ASSUME IInv, NEW c \in Conn, NEW p, NEW keep_alive \in BOOLEAN,
           NEW closes \in BOOLEAN,
           Idle, Live(c), \A s \in StreamIds : ~Open(c, s),
           conn[c].requests < MaxRequests,
           Moved(slots, p.slots, conn[c].tier, p.tier),
           process_request(c, p, keep_alive, closes), OthersUnchanged
    PROVE  IInv'
<1> DEFINE d == downgrade_tier_to_normal(p.slots, p.tier, TRUE)
           r == [conn[c] EXCEPT
                  !.state = IF keep_alive /\ ~closes THEN "WRITING_RESPONSE"
                                                     ELSE "CLOSING",
                  !.protocol = "HTTP_1_1", !.tier = d.tier,
                  !.slot_held = d.held, !.keep_alive = keep_alive]
<1>1. /\ conn[c] \in Connection /\ conn[c].slot_held = TRUE
      /\ conn[c].tier \in Tiers /\ slots \in [Tiers -> Nat]
      /\ slots[conn[c].tier] >= 1
  BY HolderCounted, ZenonT(30) DEF IInv, OpenHoldsSlot, TypeOK, Connection
<1>2. /\ p.slots \in [Tiers -> Nat] /\ p.tier \in Tiers
      /\ \A t \in Tiers : p.slots[t] <= SlotMax[t]
      /\ p.slots[p.tier] >= 1
  BY <1>1 DEF Moved
<1>3. Moved(p.slots, d.slots, p.tier, d.tier) /\ d.held = TRUE
  BY <1>2, DowngradeMoves, ZenonT(30)
<1>4. d.tier \in Tiers
  BY <1>3, ZenonT(30) DEF Moved
<1>5. slots' = d.slots /\ conn' = [conn EXCEPT ![c] = r]
  BY <1>1, ZenonT(30) DEF process_request, IInv, TypeOK
<1> HIDE DEF d
<1>6. /\ r \in Connection /\ r.slot_held /\ r.tier = d.tier
      /\ r.state # "FREE" /\ r.requests < MaxRequests
  BY <1>1, <1>3, <1>4, ZenonT(30) DEF Connection, ConnStates
<1> HIDE DEF r
<1>7. Moved(slots, slots', conn[c].tier, r.tier)
  BY <1>1, <1>3, <1>5, <1>6, MovedTwice, ZenonT(30)
<1> QED
  BY <1>5, <1>6, <1>7, ConnMoves, ZenonT(30) DEF Idle, OthersUnchanged

(* So does connection_send_error.                                          *)
LEMMA ErrorSent ==
    ASSUME IInv, NEW c \in Conn, NEW p,
           Idle, Live(c), \A s \in StreamIds : ~Open(c, s),
           Moved(slots, p.slots, conn[c].tier, p.tier),
           connection_send_error(c, p), OthersUnchanged
    PROVE  IInv'
<1> DEFINE r == [conn[c] EXCEPT !.state = "CLOSING", !.protocol = "HTTP_1_1",
                                !.tier = p.tier, !.keep_alive = FALSE]
<1>1. conn[c] \in Connection /\ conn[c].slot_held = TRUE
  BY ZenonT(30) DEF IInv, OpenHoldsSlot, TypeOK
<1>2. p.tier \in Tiers
  BY DEF Moved
<1>3. slots' = p.slots /\ conn' = [conn EXCEPT ![c] = r]
  BY ZenonT(30) DEF connection_send_error, IInv, TypeOK
<1>4. r \in Connection /\ r.slot_held /\ r.tier = p.tier /\ r.state = "CLOSING"
  BY <1>1, <1>2, ZenonT(30) DEF Connection, ConnStates
<1> HIDE DEF r
<1> QED
  BY <1>3, <1>4, ConnMoves, ZenonT(30) DEF Idle, OthersUnchanged

(* What the read callback knows when it promotes.                          *)
LEMMA HeaderPromotes ==
    ASSUME IInv, NEW c \in Conn, HeaderData(c), NEW required \in Tiers
    PROVE  /\ Idle /\ Live(c) /\ \A s \in StreamIds : ~Open(c, s)
           /\ conn[c].requests < MaxRequests
           /\ Moved(slots, slots, conn[c].tier, conn[c].tier)
           /\ required_ok(conn[c].tier, required)
                => Moved(slots, try_promote_tier(conn[c].tier, required).slots,
                         conn[c].tier, try_promote_tier(conn[c].tier, required).tier)
<1>1. Idle /\ Live(c) /\ conn[c].requests < MaxRequests /\ conn[c].protocol # "HTTP_2"
  BY ZenonT(30) DEF HeaderData, Live
<1>2. conn[c].tier \in Tiers /\ slots[conn[c].tier] >= 1
  BY <1>1, HolderCounted DEF IInv, TypeOK, Connection, OpenHoldsSlot
<1> QED
  BY <1>1, <1>2, NoStreams, MovedNowhere, PromoteMoves, ZenonT(30) DEF IInv

(* The read callback in its three outcomes that keep reading headers or go *)
(* on to the body, and those that answer.                                  *)
LEMMA ReadSteps ==
    ASSUME IInv, NEW c \in Conn, NEW required \in Tiers
    PROVE  /\ read_refused(c) => IInv'
           /\ read_promotion_fails(c, required) => IInv'
           /\ read_partial(c, required) => IInv'
           /\ read_invalid(c, required) => IInv'
           /\ \A keep_alive \in BOOLEAN :
                /\ read_headers_then_body(c, required, keep_alive) => IInv'
                /\ \A closes \in BOOLEAN :
                     read_complete_request(c, required, keep_alive, closes) => IInv'
<1> DEFINE p == try_promote_tier(conn[c].tier, required)
           same == [slots |-> slots, tier |-> conn[c].tier]
<1>1. ASSUME read_refused(c) \/ read_promotion_fails(c, required)
      PROVE  IInv'
  <2>1. HeaderData(c) /\ connection_send_error(c, same) /\ OthersUnchanged
    BY <1>1, ZenonT(30) DEF read_refused, read_promotion_fails
  <2>2. same.slots = slots /\ same.tier = conn[c].tier
    OBVIOUS
  <2> HIDE DEF same
  <2> QED
    BY <2>1, <2>2, HeaderPromotes, ErrorSent, ZenonT(30)
<1>2. ASSUME read_invalid(c, required)
      PROVE  IInv'
  BY <1>2, HeaderPromotes, ErrorSent, ZenonT(30) DEF read_invalid
<1>3. ASSUME NEW r, NEW a, NEW b, NEW keep_alive \in BOOLEAN,
             HeaderData(c), required_ok(conn[c].tier, required),
             slots' = p.slots, conn' = [conn EXCEPT ![c] = r],
             r = [conn[c] EXCEPT !.state = a, !.protocol = "HTTP_1_1",
                                 !.tier = p.tier, !.keep_alive = b],
             a \in {"READING_HEADERS", "READING_BODY"}, b \in BOOLEAN,
             OthersUnchanged
      PROVE  IInv'
  <2>1. conn[c] \in Connection /\ conn[c].slot_held = TRUE
    BY <1>3, HeaderPromotes, ZenonT(30) DEF IInv, OpenHoldsSlot, TypeOK
  <2>2. /\ Idle /\ Live(c) /\ \A s \in StreamIds : ~Open(c, s)
        /\ conn[c].requests < MaxRequests
        /\ Moved(slots, p.slots, conn[c].tier, p.tier)
    BY <1>3, HeaderPromotes
  <2> HIDE DEF p
  <2>3. p.tier \in Tiers
    BY <2>2 DEF Moved
  <2>4. /\ r \in Connection /\ r.slot_held /\ r.tier = p.tier
        /\ r.state # "FREE" /\ r.requests < MaxRequests
    BY <1>3, <2>1, <2>2, <2>3, ZenonT(30) DEF Connection, ConnStates
  <2> QED
    BY <1>3, <2>2, <2>4, ConnMoves, ZenonT(30) DEF Idle, OthersUnchanged
<1>4. ASSUME read_partial(c, required)
      PROVE  IInv'
  <2> DEFINE r == [conn[c] EXCEPT !.state = "READING_HEADERS",
                     !.protocol = "HTTP_1_1", !.tier = p.tier,
                     !.keep_alive = conn[c].keep_alive]
  <2>1. conn[c].state = "READING_HEADERS" /\ conn[c] \in Connection
    BY <1>4, ZenonT(30) DEF read_partial, HeaderData, IInv, TypeOK
  <2>2. conn' = [conn EXCEPT ![c].tier = p.tier, ![c].protocol = "HTTP_1_1"]
    BY <1>4, ZenonT(30) DEF read_partial
  <2>3. conn[c].keep_alive \in BOOLEAN
    BY <2>1 DEF Connection
  <2> HIDE DEF p
  <2>4. conn' = [conn EXCEPT ![c] = r]
    BY <2>1, <2>2, ZenonT(30) DEF IInv, TypeOK, Connection
  <2> HIDE DEF r
  <2>5. /\ HeaderData(c) /\ required_ok(conn[c].tier, required)
        /\ slots' = p.slots /\ OthersUnchanged
    BY <1>4 DEF read_partial, p
  <2> QED
    BY <2>3, <2>4, <2>5, <1>3, ZenonT(30) DEF r
<1>5. ASSUME NEW keep_alive \in BOOLEAN,
             read_headers_then_body(c, required, keep_alive)
      PROVE  IInv'
  <2> DEFINE r == [conn[c] EXCEPT !.state = "READING_BODY",
                     !.protocol = "HTTP_1_1", !.tier = p.tier,
                     !.keep_alive = keep_alive]
  <2>1. conn' = [conn EXCEPT ![c].state = "READING_BODY",
                             ![c].protocol = "HTTP_1_1", ![c].tier = p.tier,
                             ![c].keep_alive = keep_alive]
    BY <1>5, ZenonT(30) DEF read_headers_then_body
  <2> HIDE DEF p
  <2>2. conn' = [conn EXCEPT ![c] = r]
    BY <2>1, ZenonT(30) DEF IInv, TypeOK
  <2> HIDE DEF r
  <2>3. /\ HeaderData(c) /\ required_ok(conn[c].tier, required)
        /\ slots' = p.slots /\ OthersUnchanged
    BY <1>5 DEF read_headers_then_body, p
  <2> QED
    BY <2>2, <2>3, <1>3, ZenonT(30) DEF r
<1>6. ASSUME NEW keep_alive \in BOOLEAN, NEW closes \in BOOLEAN,
             read_complete_request(c, required, keep_alive, closes)
      PROVE  IInv'
  BY <1>6, HeaderPromotes, RequestProcessed, ZenonT(30)
     DEF read_complete_request
<1> QED
  BY <1>1, <1>2, <1>4, <1>5, <1>6

(* The rest of a request's body is here.                                   *)
LEMMA BodyStep ==
    ASSUME IInv, NEW c \in Conn, NEW closes \in BOOLEAN,
           read_body_complete(c, closes)
    PROVE  IInv'
<1> DEFINE same == [slots |-> slots, tier |-> conn[c].tier]
<1>1. /\ Idle /\ conn[c].state = "READING_BODY" /\ OthersUnchanged
      /\ process_request(c, same, conn[c].keep_alive, closes)
  BY ZenonT(30) DEF read_body_complete
<1>2. Live(c) /\ conn[c].requests < MaxRequests
  BY <1>1 DEF Live, IInv, RequestsInv
<1>3. \A s \in StreamIds : ~Open(c, s)
  BY <1>1, NoStreams, ZenonT(30)
<1>4. conn[c].keep_alive \in BOOLEAN /\ conn[c].tier \in Tiers
  BY ZenonT(30) DEF IInv, TypeOK, Connection
<1>5. Moved(slots, same.slots, conn[c].tier, same.tier)
  BY <1>4, MovedNowhere DEF IInv
<1> HIDE DEF same
<1> QED
  BY <1>1, <1>2, <1>3, <1>4, <1>5, RequestProcessed, ZenonT(30)

(* The response is out: the connection is freed or reset for the next      *)
(* request.                                                                *)
LEMMA WriteStep ==
    ASSUME IInv, NEW c \in Conn, conn_write_cb(c)
    PROVE  IInv'
<1> DEFINE rest  == slot_manager_release(slots, conn[c].tier)
           trade == conn[c].slot_held /\ conn[c].tier # TIER_NORMAL
           stays == trade => slot_available(rest, TIER_NORMAL)
<1>1. /\ Idle /\ Live(c) /\ conn[c].state \in {"WRITING_RESPONSE", "CLOSING"}
      /\ UNCHANGED reading
  BY DEF conn_write_cb, Live
<1>2. /\ conn[c] \in Connection /\ conn[c].tier \in Tiers
      /\ conn[c].slot_held = TRUE /\ slots[conn[c].tier] >= 1
      /\ slots \in [Tiers -> Nat]
  BY <1>1, HolderCounted, ZenonT(30) DEF IInv, TypeOK, Connection, OpenHoldsSlot
<1>3. CASE connection_free(c, slots, conn[c])
  BY <1>1, <1>3, ConnFreed DEF Idle
<1>4. CASE connection_free(c, rest, [conn[c] EXCEPT !.tier = TIER_NORMAL,
                                                    !.slot_held = FALSE])
  <2> DEFINE r == [conn[c] EXCEPT !.tier = TIER_NORMAL, !.slot_held = FALSE]
  <2>1. ~r.slot_held
    BY <1>2, ZenonT(30) DEF Connection
  <2>2. rest = slot_manager_release(slots, conn[c].tier)
    OBVIOUS
  <2> HIDE DEF r, rest
  <2>3. connection_free(c, rest, r)
    BY <1>4 DEF r
  <2> QED
    BY <1>1, <2>1, <2>2, <2>3, ConnFreed, ZenonT(30) DEF Idle
<1>5. CASE /\ conn[c].state = "WRITING_RESPONSE"
           /\ stays
           /\ slots' = IF trade THEN slot_manager_acquire(rest, TIER_NORMAL)
                                ELSE slots
           /\ conn' = [conn EXCEPT ![c].state = "READING_HEADERS",
                                   ![c].tier = TIER_NORMAL,
                                   ![c].requests = @ + 1]
           /\ UNCHANGED <<stream, active_connections, draining, listening,
                          loop, exited>>
  <2> DEFINE r == [conn[c] EXCEPT !.state = "READING_HEADERS",
                     !.tier = TIER_NORMAL, !.requests = conn[c].requests + 1]
  <2>1. conn' = [conn EXCEPT ![c] = r]
    BY <1>5, ZenonT(30) DEF IInv, TypeOK
  <2>2. conn[c].requests \in 0..MaxRequests /\ conn[c].requests < MaxRequests
    BY <1>2, <1>5 DEF Connection, IInv, RequestsInv
  <2>3. TIER_NORMAL \in Tiers
    BY DEF Tiers
  <2>4. conn[c].requests + 1 \in 0..MaxRequests
    BY <2>2, WorkerAssumption
  <2>5. /\ r \in Connection /\ r.slot_held /\ r.tier = TIER_NORMAL
        /\ r.state = "READING_HEADERS"
    BY <1>2, <2>3, <2>4, ZenonT(30) DEF Connection, ConnStates
  <2> HIDE DEF r
  <2>6. Moved(slots, slots', conn[c].tier, TIER_NORMAL)
    <3>1. CASE conn[c].tier = TIER_NORMAL
      BY <1>2, <1>5, <2>3, <3>1, MovedNowhere DEF IInv
    <3>2. CASE conn[c].tier # TIER_NORMAL
      <4>1. /\ slots' = slot_manager_acquire(rest, TIER_NORMAL)
            /\ rest[TIER_NORMAL] < SlotMax[TIER_NORMAL]
        BY <1>2, <1>5, <3>2, ZenonT(30) DEF slot_available
      <4>2. /\ rest \in [Tiers -> Nat]
            /\ \A u \in Tiers : rest[u] = slots[u] - (IF u = conn[c].tier THEN 1 ELSE 0)
        BY <1>2, ReleaseOne, ZenonT(30)
      <4> HIDE DEF rest
      <4>3. /\ slots' \in [Tiers -> Nat]
            /\ \A u \in Tiers : slots'[u] = rest[u] + (IF u = TIER_NORMAL THEN 1 ELSE 0)
        BY <2>3, <4>1, <4>2, AcquireOne, ZenonT(30)
      <4>4. \A u \in Tiers : slots[u] \in Nat /\ SlotMax[u] \in Nat
                              /\ slots[u] <= SlotMax[u]
        BY <1>2, SlotMaxAssumption, ZenonT(30) DEF IInv, WithinMax
      <4> QED
        BY <1>2, <2>3, <3>2, <4>1, <4>2, <4>3, <4>4, SMTT(30) DEF Moved
    <3> QED
      BY <3>1, <3>2, ZenonT(30)
  <2>7. \A s \in StreamIds : ~Open(c, s)
    BY <1>5, NoStreams
  <2> QED
    BY <1>1, <1>5, <2>1, <2>5, <2>6, <2>7, ConnMoves, ZenonT(30) DEF Idle
<1> QED
  BY <1>3, <1>4, <1>5 DEF conn_write_cb
-----------------------------------------------------------------------------
(* HTTP/2.                                                                 *)

(* A read callback starts.                                                 *)
LEMMA ReadStart ==
    ASSUME IInv, NEW c \in Conn, h2_read_start(c)
    PROVE  IInv'
<1> DEFINE r == [conn[c] EXCEPT !.protocol = "HTTP_2"]
<1> USE DEF IInv, h2_read_start
<1>1. conn[c] \in Connection /\ conn' = [conn EXCEPT ![c] = r]
  BY ZenonT(30) DEF TypeOK
<1>2. /\ r \in Connection /\ r.slot_held = conn[c].slot_held
      /\ r.tier = conn[c].tier /\ r.state = "READING_HEADERS"
      /\ r.protocol = "HTTP_2" /\ r.requests = conn[c].requests
  BY <1>1 DEF Connection
<1> HIDE DEF r
<1>3. TypeOK'
  BY <1>1, <1>2, ZenonT(30) DEF TypeOK
<1>4. SlotsAccounted'
  <2> SUFFICES ASSUME NEW t \in Tiers
               PROVE  ConnHolders(t)' = ConnHolders(t) /\ StreamHolders(t)' = StreamHolders(t)
    BY DEF SlotsAccounted, ConnHolders, StreamHolders
  <2> QED
    BY <1>1, <1>2 DEF ConnHolders, StreamHolders, TypeOK
<1>5. WithinMax'
  BY DEF WithinMax
<1>6. OpenHoldsSlot'
  BY <1>1, <1>2 DEF OpenHoldsSlot, Live, Open, TypeOK
<1>7. StreamsOwned'
  BY <1>1, <1>2, WorkerAssumption DEF StreamsOwned, Open, TypeOK, Idle
<1>8. ActiveAccounted'
  <2>1. {d \in Conn : Live(d)}' = {d \in Conn : Live(d)}
    BY <1>1, <1>2, ZenonT(30) DEF Live, TypeOK
  <2> QED
    BY <2>1, ZenonT(30) DEF ActiveAccounted
<1>9. DrainInv' /\ ReadInv' /\ RequestsInv'
  BY <1>1, <1>2 DEF DrainInv, NoLostDrain, ReadInv, RequestsInv, TypeOK
<1> QED
  BY <1>3, <1>4, <1>5, <1>6, <1>7, <1>8, <1>9

(* A stream opens with a normal slot.                                      *)
LEMMA BeginHeaders ==
    ASSUME IInv, NEW c \in Conn, NEW s \in StreamIds, h2_on_begin_headers(c, s)
    PROVE  IInv'
<1> DEFINE x == [state |-> "OPEN", tier |-> TIER_NORMAL,
                 slot_acquired |-> TRUE, path |-> FALSE]
<1>1. x \in H2Stream /\ x.slot_acquired /\ x.state # "FREE" /\ x.tier = TIER_NORMAL
  BY ZenonT(30) DEF H2Stream, StreamStates, Tiers
<1>2. TIER_NORMAL \in Tiers /\ slots \in [Tiers -> Nat] /\ SlotMax \in [Tiers -> Nat]
  BY SlotMaxAssumption DEF Tiers, IInv, TypeOK
<1>3. /\ slots' \in [Tiers -> Nat]
      /\ \A u \in Tiers : slots'[u] = slots[u] + (IF u = TIER_NORMAL THEN 1 ELSE 0)
      /\ slots[TIER_NORMAL] < SlotMax[TIER_NORMAL]
  BY <1>2, AcquireOne, ZenonT(30) DEF h2_on_begin_headers, slot_available
<1>4. ~stream[<<c, s>>].slot_acquired
  BY DEF h2_on_begin_headers, IInv, OpenHoldsSlot
<1>5. /\ stream' = [stream EXCEPT ![<<c, s>>] = x]
      /\ reading = c /\ H2Unchanged
  BY DEF h2_on_begin_headers
<1> HIDE DEF x
<1>6. \A t \in Tiers : /\ slots'[t] = slots[t] - StreamSlot(stream[<<c, s>>], t)
                                             + StreamSlot(x, t)
                       /\ slots'[t] <= SlotMax[t]
  BY <1>1, <1>2, <1>3, <1>4 DEF StreamSlot, IInv, WithinMax
<1> QED
  BY <1>1, <1>3, <1>5, <1>6, StreamMoves, ZenonT(30)

(* A stream whose slot moves to the tier of its new record x.              *)
LEMMA StreamMoved ==
    ASSUME IInv, NEW c \in Conn, NEW s \in StreamIds, NEW x \in H2Stream,
           reading = c, Open(c, s), x.slot_acquired = TRUE, x.state # "FREE",
           Moved(slots, slots', stream[<<c, s>>].tier, x.tier),
           stream' = [stream EXCEPT ![<<c, s>>] = x], H2Unchanged
    PROVE  IInv'
<1>1. stream[<<c, s>>].slot_acquired = TRUE
  BY ZenonT(30) DEF IInv, OpenHoldsSlot, TypeOK, H2Stream
<1>2. \A t \in Tiers : /\ slots'[t] = slots[t] - StreamSlot(stream[<<c, s>>], t)
                                             + StreamSlot(x, t)
                       /\ slots'[t] <= SlotMax[t]
  BY <1>1, ZenonT(30) DEF StreamSlot, Moved
<1>3. slots' \in [Tiers -> Nat]
  BY ZenonT(30) DEF Moved
<1> QED
  BY <1>2, <1>3, StreamMoves, ZenonT(30)

(* The path of a request arrives.                                          *)
LEMMA PathStep ==
    ASSUME IInv, NEW c \in Conn, NEW s \in StreamIds, NEW required \in Tiers,
           NEW valid \in BOOLEAN, h2_on_path(c, s, required, valid)
    PROVE  IInv'
<1> DEFINE z == stream[<<c, s>>]
           p == try_promote_tier(z.tier, required)
           ok == valid /\ required_ok(z.tier, required)
<1>1. /\ z \in H2Stream /\ z.state = "OPEN" /\ reading = c /\ H2Unchanged
      /\ Open(c, s)
  BY DEF h2_on_path, IInv, TypeOK, Open
<1>2. z.slot_acquired = TRUE /\ z.tier \in Tiers
  BY <1>1 DEF IInv, OpenHoldsSlot, H2Stream
<1>3. slots[z.tier] >= 1
  BY <1>2, HolderCounted, ZenonT(30) DEF IInv
<1>4. CASE /\ ok
           /\ slots' = p.slots
           /\ stream' = [stream EXCEPT ![<<c, s>>].path = TRUE,
                                       ![<<c, s>>].tier = p.tier]
  <2> DEFINE x == [z EXCEPT !.path = TRUE, !.tier = p.tier]
  <2>1. Moved(slots, p.slots, z.tier, p.tier)
    BY <1>2, <1>3, <1>4, PromoteMoves, ZenonT(30) DEF IInv
  <2> HIDE DEF p
  <2>2. p.tier \in Tiers
    BY <2>1, ZenonT(30) DEF Moved
  <2>3. stream' = [stream EXCEPT ![<<c, s>>] = x]
    BY <1>4, ZenonT(30) DEF IInv, TypeOK
  <2>4. x \in H2Stream /\ x.slot_acquired = TRUE /\ x.state # "FREE" /\ x.tier = p.tier
    BY <1>1, <1>2, <2>2, ZenonT(30) DEF H2Stream
  <2> HIDE DEF x
  <2> QED
    BY <1>1, <1>4, <2>1, <2>3, <2>4, StreamMoved, ZenonT(30)
<1>5. CASE /\ slots' = slots
           /\ stream' = [stream EXCEPT ![<<c, s>>].path = TRUE,
                                       ![<<c, s>>].state = "RESET"]
  <2> DEFINE x == [z EXCEPT !.path = TRUE, !.state = "RESET"]
  <2>1. stream' = [stream EXCEPT ![<<c, s>>] = x]
    BY <1>5, ZenonT(30) DEF IInv, TypeOK
  <2>2. x \in H2Stream /\ x.slot_acquired = TRUE /\ x.state # "FREE" /\ x.tier = z.tier
    BY <1>1, <1>2, ZenonT(30) DEF H2Stream, StreamStates
  <2> HIDE DEF x
  <2>3. Moved(slots, slots', z.tier, z.tier)
    BY <1>2, <1>5, MovedNowhere DEF IInv
  <2> QED
    BY <1>1, <2>1, <2>2, <2>3, StreamMoved, ZenonT(30)
<1> QED
  BY <1>4, <1>5 DEF h2_on_path

(* The request is complete: the expensive slot goes back.                  *)
LEMMA EndStream ==
    ASSUME IInv, NEW c \in Conn, NEW s \in StreamIds, h2_on_end_stream(c, s)
    PROVE  IInv'
<1> DEFINE z == stream[<<c, s>>]
           d == downgrade_tier_to_normal(slots, z.tier, TRUE)
           x == [z EXCEPT !.state = "HALF_CLOSED_REMOTE", !.tier = d.tier,
                          !.slot_acquired = d.held]
<1>1. /\ z \in H2Stream /\ z.state = "OPEN" /\ reading = c /\ H2Unchanged
      /\ Open(c, s)
  BY ZenonT(30) DEF h2_on_end_stream, IInv, TypeOK, Open
<1>2. z.slot_acquired = TRUE /\ z.tier \in Tiers
  BY <1>1, ZenonT(30) DEF IInv, OpenHoldsSlot, H2Stream
<1>3. slots[z.tier] >= 1 /\ slots \in [Tiers -> Nat] /\ \A t \in Tiers : slots[t] <= SlotMax[t]
  BY <1>2, HolderCounted, ZenonT(30) DEF IInv, TypeOK, WithinMax
<1>4. slots' = d.slots /\ stream' = [stream EXCEPT ![<<c, s>>] = x]
  BY <1>2, ZenonT(30) DEF h2_on_end_stream, IInv, TypeOK
<1>5. Moved(slots, d.slots, z.tier, d.tier) /\ d.held = TRUE
  BY <1>2, <1>3, DowngradeMoves, ZenonT(30)
<1> HIDE DEF d
<1>6. d.tier \in Tiers
  BY <1>5, ZenonT(30) DEF Moved
<1>7. x \in H2Stream /\ x.slot_acquired = TRUE /\ x.state # "FREE" /\ x.tier = d.tier
  BY <1>1, <1>5, <1>6, ZenonT(30) DEF H2Stream, StreamStates
<1> HIDE DEF x
<1> QED
  BY <1>1, <1>4, <1>5, <1>7, StreamMoved, ZenonT(30)

(* A stream closes; the read callback returns.                             *)
LEMMA CloseSteps ==
    ASSUME IInv, NEW c \in Conn
    PROVE  /\ \A s \in StreamIds : h2_on_stream_close(c, s) => IInv'
           /\ h2_read_end(c) => IInv'
<1>1. ASSUME NEW s \in StreamIds, h2_on_stream_close(c, s)
      PROVE  IInv'
  <2> DEFINE X == {<<c, s>>}
  <2>1. X \in SUBSET (Conn \X StreamIds)
    OBVIOUS
  <2>2. stream' = [x \in Conn \X StreamIds |->
                     IF x \in X THEN FreeStream ELSE stream[x]]
    BY <1>1, ZenonT(30) DEF h2_on_stream_close, IInv, TypeOK
  <2>3. slots' = h2_stream_free(slots, X) /\ reading = c /\ H2Unchanged
    BY <1>1 DEF h2_on_stream_close
  <2> HIDE DEF X
  <2> QED
    BY <2>1, <2>2, <2>3, StreamsClosed, ZenonT(30) DEF H2Unchanged
<1>2. ASSUME h2_read_end(c)
      PROVE  IInv'
  <2> DEFINE X == {x \in {c} \X StreamIds : stream[x].state = "RESET"}
  <2>1. X \in SUBSET (Conn \X StreamIds)
    BY ZenonT(30)
  <2>2. \A s \in StreamIds : stream[<<c, s>>].state = "RESET" => <<c, s>> \in X
    OBVIOUS
  <2>3. /\ slots' = h2_stream_free(slots, X)
        /\ stream' = [x \in Conn \X StreamIds |->
                         IF x \in X THEN FreeStream ELSE stream[x]]
        /\ reading = c /\ reading' = NoConn
        /\ UNCHANGED <<conn, active_connections, draining, listening, loop, exited>>
    BY <1>2, ZenonT(30) DEF h2_read_end
  <2> HIDE DEF X
  <2> QED
    BY <2>1, <2>2, <2>3, StreamsClosed, ZenonT(30)
<1> QED
  BY <1>1, <1>2, ZenonT(30)
-----------------------------------------------------------------------------
(* Accepting, draining, exiting.                                           *)

(* A connection is accepted with a normal slot.                            *)
LEMMA AcceptStep ==
    ASSUME IInv, NEW c \in Conn, NEW protocol \in {"HTTP_1_1", "TLS"},
           accept_cb(c, protocol)
    PROVE  IInv'
<1> DEFINE r == [state |-> "READING_HEADERS", protocol |-> protocol,
                 tier |-> TIER_NORMAL, slot_held |-> TRUE,
                 keep_alive |-> TRUE, requests |-> 0]
<1> USE DEF IInv
<1>1. /\ r \in Connection /\ r.slot_held /\ r.tier = TIER_NORMAL
      /\ r.state = "READING_HEADERS" /\ r.requests = 0
  BY WorkerAssumption, SMTT(30) DEF Connection, ConnStates, Tiers
<1>2. /\ conn' = [conn EXCEPT ![c] = r]
      /\ ~Live(c) /\ reading = NoConn /\ ~draining /\ listening
      /\ active_connections' = active_connections + 1
      /\ slots[TIER_NORMAL] < SlotMax[TIER_NORMAL]
      /\ UNCHANGED <<stream, draining, listening, loop, exited, reading>>
  BY ZenonT(30) DEF accept_cb, Admitted, slot_available, Idle
<1> HIDE DEF r
<1>3. TIER_NORMAL \in Tiers /\ slots \in [Tiers -> Nat] /\ SlotMax \in [Tiers -> Nat]
  BY SlotMaxAssumption DEF Tiers, TypeOK
<1>4. /\ slots' \in [Tiers -> Nat]
      /\ \A u \in Tiers : slots'[u] = slots[u] + (IF u = TIER_NORMAL THEN 1 ELSE 0)
  BY <1>3, AcquireOne, ZenonT(30) DEF accept_cb
<1>5. ~conn[c].slot_held /\ \A s \in StreamIds : ~Open(c, s)
  BY <1>2, ZenonT(30) DEF OpenHoldsSlot, StreamsOwned, Live
<1>6. TypeOK'
  BY <1>1, <1>2, <1>4, SMTT(30) DEF TypeOK
<1>7. SlotsAccounted'
  <2> SUFFICES ASSUME NEW t \in Tiers
               PROVE  slots'[t] = Cardinality(ConnHolders(t)')
                                + Cardinality(StreamHolders(t)')
    BY ZenonT(30) DEF SlotsAccounted, ConnHolders, StreamHolders
  <2>1. Cardinality(ConnHolders(t)') = Cardinality(ConnHolders(t))
          - ConnSlot(conn[c], t) + ConnSlot(r, t)
    BY <1>2, ConnUpdate, ZenonT(30)
  <2>2. StreamHolders(t)' = StreamHolders(t)
    BY <1>2, ZenonT(30) DEF StreamHolders
  <2>3. slots[t] = Cardinality(ConnHolders(t)) + Cardinality(StreamHolders(t))
    BY DEF SlotsAccounted
  <2>4. ConnSlot(conn[c], t) = 0 /\ ConnSlot(r, t) = IF t = TIER_NORMAL THEN 1 ELSE 0
    BY <1>1, <1>5 DEF ConnSlot
  <2> QED
    BY <1>4, <2>1, <2>2, <2>3, <2>4, HoldersFinite
<1>8. WithinMax'
  BY <1>2, <1>3, <1>4 DEF WithinMax
<1>9. OpenHoldsSlot'
  BY <1>1, <1>2, ZenonT(30) DEF OpenHoldsSlot, Live, Open, TypeOK
<1>10. StreamsOwned'
  BY <1>2, <1>5, ZenonT(30) DEF StreamsOwned, Open, TypeOK
<1>11. ActiveAccounted'
  <2> DEFINE A == {d \in Conn : Live(d)}
             B == {d \in Conn : Live(d)}'
  <2>1. A \ {c} = B \ {c} /\ c \notin A /\ c \in B
    BY <1>1, <1>2, ZenonT(30) DEF Live, TypeOK
  <2>2. IsFiniteSet(A)
    BY WorkerAssumption, FS_Subset
  <2>3. active_connections = Cardinality(A)
    BY DEF ActiveAccounted
  <2> HIDE DEF A, B
  <2>4. active_connections' = Cardinality(B)
    BY <1>2, <2>1, <2>2, <2>3, OneChange, SMTT(30)
  <2> QED
    BY <2>4 DEF ActiveAccounted, B
<1>12. DrainInv' /\ ReadInv'
  BY <1>2, ZenonT(30) DEF DrainInv, NoLostDrain, ReadInv
<1>13. RequestsInv'
  BY <1>1, <1>2, ZenonT(30) DEF RequestsInv, TypeOK
<1> QED
  BY <1>6, <1>7, <1>8, <1>9, <1>10, <1>11, <1>12, <1>13

(* A step that leaves the connections, the streams and their counters.     *)
LEMMA ControlStep ==
    ASSUME IInv, UNCHANGED <<slots, conn, stream, active_connections, reading>>,
           draining' \in BOOLEAN, listening' \in BOOLEAN, exited' \in BOOLEAN,
           loop' \in {"running", "drained", "accept_error"}, DrainInv'
    PROVE  IInv'
<1> USE DEF IInv
<1>1. TypeOK'
  BY ZenonT(30) DEF TypeOK
<1>2. SlotsAccounted'
  BY ZenonT(30) DEF SlotsAccounted, ConnHolders, StreamHolders
<1>3. WithinMax' /\ OpenHoldsSlot' /\ StreamsOwned'
  BY ZenonT(30) DEF WithinMax, OpenHoldsSlot, StreamsOwned, Live, Open
<1>4. ActiveAccounted'
  BY ZenonT(30) DEF ActiveAccounted, Live
<1>5. ReadInv' /\ RequestsInv'
  BY ZenonT(30) DEF ReadInv, RequestsInv
<1> QED
  BY <1>1, <1>2, <1>3, <1>4, <1>5, ZenonT(30)

(* The actions that are not a connection's.                                *)
LEMMA WorkerSteps ==
    ASSUME IInv
    PROVE  /\ accept_fails => IInv'
           /\ accept_error_cb => IInv'
           /\ signal_cb => IInv'
           /\ worker_exit => IInv'
           /\ UNCHANGED vars => IInv'
<1>1. ASSUME accept_fails
      PROVE  IInv'
  <2> DEFINE taken == slot_manager_acquire(slots, TIER_NORMAL)
  <2>1. TIER_NORMAL \in Tiers /\ slots \in [Tiers -> Nat]
    BY ZenonT(30) DEF Tiers, IInv, TypeOK
  <2>2. /\ taken \in [Tiers -> Nat]
        /\ \A u \in Tiers : taken[u] = slots[u] + (IF u = TIER_NORMAL THEN 1 ELSE 0)
    BY <2>1, AcquireOne
  <2>3. slots' = slot_manager_release(taken, TIER_NORMAL)
    BY <1>1 DEF accept_fails
  <2> HIDE DEF taken
  <2>4. /\ slots' \in [Tiers -> Nat]
        /\ \A u \in Tiers : slots'[u] = taken[u] - (IF u = TIER_NORMAL THEN 1 ELSE 0)
    BY <2>1, <2>2, <2>3, ReleaseOne
  <2>5. \A u \in Tiers : slots'[u] = slots[u]
    BY <2>1, <2>2, <2>4
  <2>6. slots' = slots
    BY <2>1, <2>4, <2>5
  <2>7. active_connections' = active_connections
    BY <1>1 DEF accept_fails, IInv, TypeOK
  <2> QED
    BY <1>1, <2>6, <2>7, ControlStep, ZenonT(30)
       DEF accept_fails, IInv, TypeOK, DrainInv, NoLostDrain
<1>2. ASSUME accept_error_cb
      PROVE  IInv'
  BY <1>2, ControlStep, ZenonT(30)
     DEF accept_error_cb, IInv, TypeOK, DrainInv, NoLostDrain
<1>3. ASSUME signal_cb
      PROVE  IInv'
  BY <1>3, ControlStep, ZenonT(30)
     DEF signal_cb, worker_check_drain, IInv, TypeOK, DrainInv,
                           NoLostDrain
<1>4. ASSUME worker_exit
      PROVE  IInv'
  BY <1>4, ControlStep, ZenonT(30)
     DEF worker_exit, IInv, TypeOK, DrainInv, NoLostDrain
<1>5. ASSUME UNCHANGED vars
      PROVE  IInv'
  BY <1>5, ControlStep, ZenonT(30) DEF vars, IInv, TypeOK, DrainInv, NoLostDrain
<1> QED
  BY <1>1, <1>2, <1>3, <1>4, <1>5

(* Timeout, error, end of file, a failed check, a failed HTTP/2 session.   *)
LEMMA FreeSteps ==
    ASSUME IInv, NEW c \in Conn,
           conn_event_cb(c) \/ read_kills(c) \/ h2_input_fails(c)
    PROVE  IInv'
<1>1. CASE conn_event_cb(c) \/ read_kills(c)
  BY <1>1, ConnFreed, ZenonT(30) DEF conn_event_cb, read_kills, Idle
<1>2. CASE h2_input_fails(c)
  <2>1. Live(c)
    BY <1>2, WorkerAssumption, ZenonT(30) DEF h2_input_fails, IInv, ReadInv, Live
  <2> QED
    BY <1>2, <2>1, ConnFreed, ZenonT(30) DEF h2_input_fails
<1> QED
  BY <1>1, <1>2, ZenonT(30)
-----------------------------------------------------------------------------
(* The invariant holds initially ...                                       *)
LEMMA InitIInv == Init => IInv
<1> SUFFICES ASSUME Init
             PROVE  IInv
  BY ZenonT(30)
<1>1. TypeOK
  <2>1. slots \in [Tiers -> Nat]
    BY ZenonT(30) DEF Init, slot_manager_init
  <2> QED
    BY <2>1, FreeRecords, ZenonT(30) DEF Init, TypeOK
<1>2. SlotsAccounted
  <2> SUFFICES ASSUME NEW t \in Tiers
               PROVE  slots[t] = Cardinality(ConnHolders(t)) + Cardinality(StreamHolders(t))
    BY ZenonT(30) DEF SlotsAccounted
  <2>1. ConnHolders(t) = {} /\ StreamHolders(t) = {}
    BY ZenonT(30) DEF Init, ConnHolders, StreamHolders, FreeConnection, FreeStream
  <2>2. Cardinality(ConnHolders(t)) = 0 /\ Cardinality(StreamHolders(t)) = 0
    BY <2>1, FS_EmptySet
  <2>3. slots[t] = 0
    BY ZenonT(30) DEF Init, slot_manager_init
  <2> QED
    BY <2>2, <2>3
<1>3. WithinMax
  BY SlotMaxAssumption DEF Init, slot_manager_init, WithinMax
<1>4. OpenHoldsSlot /\ StreamsOwned
  BY ZenonT(30) DEF Init, OpenHoldsSlot, StreamsOwned, Live, Open, FreeConnection, FreeStream
<1>5. ActiveAccounted
  <2>1. {c \in Conn : Live(c)} = {}
    BY ZenonT(30) DEF Init, Live, FreeConnection
  <2> QED
    BY <2>1, FS_EmptySet DEF Init, ActiveAccounted
<1>6. DrainInv /\ ReadInv /\ RequestsInv
  BY ZenonT(30) DEF Init, DrainInv, NoLostDrain, ReadInv, RequestsInv, FreeConnection
<1> QED
  BY <1>1, <1>2, <1>3, <1>4, <1>5, <1>6 DEF IInv

(* ... and every step preserves it.                                        *)
LEMMA NextIInv == IInv /\ [Next]_vars => IInv'
<1> SUFFICES ASSUME IInv, [Next]_vars
             PROVE  IInv'
  BY ZenonT(30)
<1>1. ASSUME NEW c \in Conn, H1Step(c)
      PROVE  IInv'
  <2>1. TIER_NORMAL \in Tiers
    BY ZenonT(30) DEF Tiers
  <2> QED
    BY <1>1, <2>1, ReadSteps, BodyStep, WriteStep, ZenonT(30) DEF H1Step
<1>2. ASSUME NEW c \in Conn, H2Step(c)
      PROVE  IInv'
  BY <1>2, ReadStart, BeginHeaders, PathStep, EndStream, CloseSteps, FreeSteps DEF H2Step
<1>3. ASSUME NEW c \in Conn, ConnStep(c)
      PROVE  IInv'
  BY <1>1, <1>2, <1>3, AcceptStep, FreeSteps, ZenonT(30) DEF ConnStep
<1> QED
  BY <1>3, WorkerSteps DEF Next, Done

(* The inductive invariant.                                                *)
THEOREM WorkerInvariant == Spec => []IInv
BY InitIInv, NextIInv, PTL DEF Spec

(* Type correctness, for every instance.                                   *)
THEOREM TypeCorrect == Spec => []TypeOK
BY WorkerInvariant, PTL DEF IInv

(* The slot counters are exact for every number of connections, streams    *)
(* and slots: no path through the callbacks leaks a slot or returns one    *)
(* twice.                                                                  *)
THEOREM SlotsAccountedAlways == Spec => []SlotsAccounted
BY WorkerInvariant, PTL DEF IInv

(* The connections and streams in a tier never outnumber its slots.        *)
THEOREM TierCapacityAlways == Spec => []TierCapacity
<1>1. IInv => TierCapacity
  <2> SUFFICES ASSUME IInv, NEW t \in Tiers
               PROVE  Cardinality(ConnHolders(t)) + Cardinality(StreamHolders(t))
                        <= SlotMax[t]
    BY DEF TierCapacity
  <2> QED
    BY ZenonT(30) DEF IInv, SlotsAccounted, WithinMax
<1> QED
  BY <1>1, WorkerInvariant, PTL

(* Whoever is served holds a slot: the branches of the two downgrade       *)
(* functions that lose both slots are dead code.                           *)
THEOREM OpenHoldsSlotAlways == Spec => []OpenHoldsSlot
BY WorkerInvariant, PTL DEF IInv

(* Streams never outlive their connection or the reset they were given.    *)
THEOREM StreamsOwnedAlways == Spec => []StreamsOwned
BY WorkerInvariant, PTL DEF IInv

(* active_connections is exact.                                            *)
THEOREM ActiveAccountedAlways == Spec => []ActiveAccounted
BY WorkerInvariant, PTL DEF IInv

(* The drain signal and the last close cannot miss each other ...          *)
THEOREM NoLostDrainAlways == Spec => []NoLostDrain
BY WorkerInvariant, PTL DEF IInv, DrainInv

(* ... and a drained worker leaves no client behind.                       *)
THEOREM DrainedIsEmptyAlways == Spec => []DrainedIsEmpty
<1>1. IInv => DrainedIsEmpty
  <2> SUFFICES ASSUME IInv, loop = "drained", NEW c \in Conn, Live(c)
               PROVE  FALSE
    BY ZenonT(30) DEF DrainedIsEmpty
  <2> DEFINE A == {d \in Conn : Live(d)}
  <2>1. Cardinality(A) = 0
    BY DEF IInv, DrainInv, ActiveAccounted
  <2>2. IsFiniteSet(A) /\ c \in A
    BY WorkerAssumption, FS_Subset
  <2> HIDE DEF A
  <2> QED
    BY <2>1, <2>2, FS_EmptySet, ZenonT(30)
<1> QED
  BY <1>1, WorkerInvariant, PTL

(* A response starts with an expensive slot still held only if every       *)
(* normal slot is taken: the step case of the action property.             *)
LEMMA ExpensiveSlotStep ==
    ASSUME IInv, [Next]_vars, NEW d \in Conn,
           conn[d].state # "WRITING_RESPONSE", conn'[d].state = "WRITING_RESPONSE",
           conn'[d].tier # TIER_NORMAL
    PROVE  slots'[TIER_NORMAL] >= SlotMax[TIER_NORMAL]
<1>1. conn \in [Conn -> Connection] /\ conn[d] \in Connection
  BY ZenonT(30) DEF IInv, TypeOK
<1>2. ASSUME NEW p, NEW keep_alive, NEW closes, Live(d),
             Moved(slots, p.slots, conn[d].tier, p.tier),
             process_request(d, p, keep_alive, closes)
      PROVE  slots'[TIER_NORMAL] >= SlotMax[TIER_NORMAL]
  <2> DEFINE g == downgrade_tier_to_normal(p.slots, p.tier, TRUE)
  <2>1. /\ conn[d].slot_held = TRUE /\ conn[d].tier \in Tiers
        /\ slots \in [Tiers -> Nat] /\ slots[conn[d].tier] >= 1
    BY <1>1, <1>2, HolderCounted, ZenonT(30)
       DEF IInv, TypeOK, OpenHoldsSlot, Connection
  <2>2. /\ p.slots \in [Tiers -> Nat] /\ p.tier \in Tiers
        /\ \A t \in Tiers : p.slots[t] <= SlotMax[t]
        /\ p.slots[p.tier] >= 1
    BY <1>2, <2>1, SMTT(30) DEF Moved
  <2>3. slots' = g.slots /\ conn'[d].tier = g.tier
    <3>1. downgrade_tier_to_normal(p.slots, p.tier, conn[d].slot_held) = g
      BY <2>1, ZenonT(30)
    <3> HIDE DEF g
    <3>2. conn' = [conn EXCEPT
              ![d].state = IF keep_alive /\ ~closes THEN "WRITING_RESPONSE"
                                                    ELSE "CLOSING",
              ![d].protocol = "HTTP_1_1", ![d].tier = g.tier,
              ![d].slot_held = g.held, ![d].keep_alive = keep_alive]
      BY <1>2, <3>1, ZenonT(30) DEF process_request
    <3>3. slots' = g.slots
      BY <1>2, <3>1, ZenonT(30) DEF process_request
    <3>4. conn'[d].tier = g.tier
      BY <1>1, <3>2 DEF Connection
    <3> QED
      BY <3>3, <3>4, ZenonT(30)
  <2> QED
    BY <2>2, <2>3, DowngradeMoves, ZenonT(30)
<1>3. ASSUME NEW c \in Conn, c # d
      PROVE  /\ ConnStep(c) => conn'[d] = conn[d]
  <2>1. H1Step(c) => conn'[d] = conn[d]
    <3>1. ASSUME NEW p, connection_send_error(c, p)
          PROVE  conn'[d] = conn[d]
      BY <1>1, <1>3, <3>1, ZenonT(30) DEF connection_send_error
    <3>2. ASSUME NEW p, NEW a, NEW b, process_request(c, p, a, b)
          PROVE  conn'[d] = conn[d]
      BY <1>1, <1>3, <3>2, ZenonT(30) DEF process_request
    <3>3. conn_write_cb(c) => conn'[d] = conn[d]
      BY <1>1, <1>3, ZenonT(30) DEF conn_write_cb, connection_free
    <3>4. ASSUME NEW required, read_partial(c, required)
          PROVE  conn'[d] = conn[d]
      BY <1>1, <1>3, <3>4 DEF read_partial
    <3>5. ASSUME NEW required, NEW a, read_headers_then_body(c, required, a)
          PROVE  conn'[d] = conn[d]
      BY <1>1, <1>3, <3>5, ZenonT(30) DEF read_headers_then_body
    <3> QED
      BY <3>1, <3>2, <3>3, <3>4, <3>5, ZenonT(30) DEF H1Step, read_refused,
           read_promotion_fails, read_invalid, read_complete_request,
           read_body_complete
  <2>2. H2Step(c) => conn'[d] = conn[d]
    BY <1>1, <1>3, ZenonT(30)
       DEF H2Step, h2_read_start, h2_on_begin_headers, h2_on_path,
         h2_on_end_stream, h2_on_stream_close, h2_read_end, h2_input_fails,
         H2Unchanged, connection_free
  <2> QED
    BY <1>1, <1>3, <2>1, <2>2, ZenonT(30)
       DEF ConnStep, accept_cb, conn_event_cb, read_kills,
         connection_free
<1>4. /\ ~connection_free(d, slots, conn[d])
      /\ conn'[d] # conn[d]
  <2>1. conn'[d].state # FreeConnection.state
    BY ZenonT(30) DEF FreeConnection
  <2>2. connection_free(d, slots, conn[d]) => conn'[d] = FreeConnection
    BY <1>1, ZenonT(30) DEF connection_free
  <2> QED
    BY <2>1, <2>2, ZenonT(30)
<1>5. ASSUME H1Step(d)
      PROVE  slots'[TIER_NORMAL] >= SlotMax[TIER_NORMAL]
  <2>1. CASE \E required \in Tiers, keep_alive \in BOOLEAN, closes \in BOOLEAN :
               read_complete_request(d, required, keep_alive, closes)
    BY <2>1, <1>2, HeaderPromotes, ZenonT(30) DEF read_complete_request
  <2>2. CASE \E closes \in BOOLEAN : read_body_complete(d, closes)
    <3> DEFINE same == [slots |-> slots, tier |-> conn[d].tier]
    <3>1. conn[d].tier \in Tiers
      BY <1>1, ZenonT(30) DEF Connection
    <3>2. Moved(slots, same.slots, conn[d].tier, same.tier)
      BY <3>1, MovedNowhere, ZenonT(30) DEF IInv
    <3>3. Live(d) /\ \E closes \in BOOLEAN :
                        process_request(d, same, conn[d].keep_alive, closes)
      BY <2>2, ZenonT(30) DEF read_body_complete, Live
    <3> HIDE DEF same
    <3> QED
      BY <1>2, <3>2, <3>3, ZenonT(30)
  <2>3. ASSUME NEW required \in Tiers,
               \/ read_refused(d) \/ read_promotion_fails(d, required)
               \/ read_partial(d, required) \/ read_invalid(d, required)
               \/ \E keep_alive \in BOOLEAN :
                     read_headers_then_body(d, required, keep_alive)
        PROVE  FALSE
    BY <1>1, <2>3 DEF read_refused, read_promotion_fails, read_partial, read_invalid,
         read_headers_then_body, connection_send_error, Connection, HeaderData
  <2>4. ~conn_write_cb(d)
    BY <1>1 DEF conn_write_cb, connection_free, FreeConnection, Connection
  <2>5. TIER_NORMAL \in Tiers
    BY DEF Tiers
  <2> QED
    BY <1>5, <2>1, <2>2, <2>3, <2>4, <2>5, ZenonT(30) DEF H1Step
<1>6. ~H2Step(d)
  BY <1>1, <1>4, ZenonT(30)
     DEF H2Step, h2_read_start, h2_on_begin_headers, h2_on_path,
       h2_on_end_stream, h2_on_stream_close, h2_read_end, h2_input_fails,
       H2Unchanged, Connection
<1>7. ASSUME ConnStep(d)
      PROVE  slots'[TIER_NORMAL] >= SlotMax[TIER_NORMAL]
  BY <1>1, <1>4, <1>5, <1>6, <1>7, SMTT(30)
     DEF ConnStep, accept_cb, conn_event_cb, read_kills
<1>8. ~(accept_fails \/ accept_error_cb \/ signal_cb \/ worker_exit \/ Done
        \/ UNCHANGED vars)
  BY <1>4, ZenonT(30)
     DEF accept_fails, accept_error_cb, signal_cb, worker_exit, Done, vars
<1> QED
  BY <1>3, <1>4, <1>7, <1>8, ZenonT(30) DEF Next

(* "Release large/huge slot ASAP": the action property, for every instance.*)
THEOREM ExpensiveSlotReturnedAlways == Spec => ExpensiveSlotReturned
<1>1. IInv /\ [Next]_vars =>
        [\A c \in Conn :
          (conn[c].state # "WRITING_RESPONSE" /\ conn'[c].state = "WRITING_RESPONSE"
           /\ conn'[c].tier # TIER_NORMAL)
          => slots'[TIER_NORMAL] >= SlotMax[TIER_NORMAL]]_vars
  BY ExpensiveSlotStep, ZenonT(30)
<1> QED
  BY <1>1, WorkerInvariant, PTL DEF Spec, ExpensiveSlotReturned
=============================================================================
