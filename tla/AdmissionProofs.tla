-------------------------- MODULE AdmissionProofs --------------------------
(***************************************************************************)
(* Proofs about what a client meets before it is served: the rate limiter, *)
(* for any set of addresses, rate, burst, table size and clock; and the    *)
(* block and allow lists, for any width of addresses, with the inductive   *)
(* invariant AclInv.                                                       *)
(*                                                                         *)
(* Masks and powers of two need induction.  It is done by the least        *)
(* counterexample (LeastNumber), which needs no operator as a parameter.   *)
(***************************************************************************)
EXTENDS RateLimiter, IpAcl, FiniteSetTheorems, WellFoundedInduction, TLAPS

(* What an address holds in tokens and was granted never exceeds what it   *)
(* started with and what it has earned up to its last stamp; one without   *)
(* an entry has spent the bucket of every entry it lost, at most.          *)
Budget ==
    \A ip \in IP :
        IF table[ip].used
        THEN /\ table[ip].last_update <= now
             /\ table[ip].tokens <= burst
             /\ spent[ip] + table[ip].tokens
                  <= burst * (1 + drops[ip]) + Rate * table[ip].last_update
        ELSE spent[ip] <= burst * drops[ip] + Rate * now

(* A bucket is full, or holds at least what it earned since the last grant.*)
Earned ==
    \A ip \in IP :
        /\ last_grant[ip] <= now
        /\ table[ip].used =>
             \/ table[ip].tokens = burst
             \/ /\ last_grant[ip] # Never
                /\ last_grant[ip] <= table[ip].last_update
                /\ Rate * (table[ip].last_update - last_grant[ip])
                     <= table[ip].tokens

IInv == TypeOK /\ TableExact /\ Budget /\ Earned

(* The table and the count after the entries of the addresses E are freed. *)
After(E) ==
    [table |-> [i \in IP |-> IF i \in E THEN Unused ELSE table[i]],
     num_entries |-> num_entries - Cardinality(E)]
-----------------------------------------------------------------------------
(* The constants and the clocks are natural numbers.                       *)
LEMMA Numbers ==
    /\ Rate \in Nat /\ Token \in Nat /\ burst \in Nat /\ MaxEntries \in Nat
    /\ MaxTime \in Nat /\ CleanupInterval \in Nat
    /\ TypeOK => now \in Nat /\ seconds \in Nat
<1>1. /\ Rate \in Nat /\ Token \in Nat /\ MaxEntries \in Nat /\ MaxTime \in Nat
      /\ CleanupInterval \in Nat /\ TicksPerSecond \in Nat \ {0}
      /\ ConfiguredBurst \in Nat
  BY RateLimiterAssumption
<1>2. burst \in Nat
  BY <1>1 DEF burst
<1>3. TypeOK => now \in Nat
  BY <1>1 DEF TypeOK
<1>4. TypeOK => seconds \in Nat
  BY <1>1, <1>3 DEF seconds
<1>. QED
  BY <1>1, <1>2, <1>3, <1>4

(* Time that passes earns Rate units a tick.                               *)
LEMMA Earnings ==
    ASSUME NEW R \in Nat, NEW a \in Nat, NEW b \in Nat, a <= b
    PROVE  /\ R * (b - a) \in Nat
           /\ R * a \in Nat /\ R * b \in Nat
           /\ R * a + R * (b - a) = R * b
           /\ R * a <= R * b
<1>1. b - a \in Nat
  OBVIOUS
<1>2. PICK d \in Nat : b = a + d /\ b - a = d
  BY <1>1
<1>3. R * (a + d) = R * a + R * d
  OBVIOUS
<1>4. R * d \in Nat /\ R * a \in Nat
  OBVIOUS
<1>. QED
  BY <1>2, <1>3, <1>4

(* A table that is empty satisfies the invariant.                          *)
LEMMA InitIInv == Init => IInv
<1>. SUFFICES ASSUME Init PROVE IInv
  OBVIOUS
<1>1. /\ Unused \in Entry /\ ~Unused.used
  BY DEF Unused, Entry
<1>2. TypeOK
  BY <1>1, Numbers DEF Init, TypeOK
<1>3. Tracked = {}
  BY <1>1 DEF Init, Tracked
<1>4. TableExact
  BY <1>3, FS_EmptySet, Numbers DEF Init, TableExact
<1>5. Budget /\ Earned
  BY <1>1, Numbers DEF Init, Budget, Earned, Never
<1>. QED
  BY <1>2, <1>4, <1>5 DEF IInv

(* lookup frees what has expired, or nothing.                              *)
LEMMA LookupFrees ==
    ASSUME TypeOK, NEW ip \in IP
    PROVE  \E E \in SUBSET Tracked : lookup(ip) = After(E)
<1>1. rate_limiter_cleanup = After(expired) /\ expired \in SUBSET Tracked
  BY DEF rate_limiter_cleanup, After, expired
<1>2. [table |-> table, num_entries |-> num_entries] = After({})
  <2>1. Cardinality({}) = 0 /\ num_entries \in Int
    BY FS_EmptySet DEF TypeOK
  <2>2. table = [i \in IP |-> IF i \in {} THEN Unused ELSE table[i]]
    BY DEF TypeOK
  <2>3. num_entries = num_entries - Cardinality({})
    BY <2>1
  <2>. QED
    BY <2>2, <2>3 DEF After
<1>. QED
  BY <1>1, <1>2 DEF lookup

(* Freeing entries keeps the count exact, and costs the limiter at most    *)
(* one bucket for each.                                                    *)
Freed(E) ==
    /\ After(E).table \in [IP -> Entry]
    /\ \A i \in IP : After(E).table[i] = IF i \in E THEN Unused ELSE table[i]
    /\ After(E).num_entries = Cardinality(Tracked \ E)
    /\ After(E).num_entries \in Nat
    /\ After(E).num_entries <= MaxEntries
    /\ IsFiniteSet(Tracked \ E)
    /\ drops' \in [IP -> Nat]
    /\ \A i \in IP : drops'[i] = drops[i] + (IF i \in E THEN 1 ELSE 0)
    /\ \A i \in IP : ~After(E).table[i].used =>
          spent[i] <= burst * drops'[i] + Rate * now

LEMMA FreeFacts ==
    ASSUME IInv, NEW E \in SUBSET Tracked, Forgets(After(E))
    PROVE  Freed(E)
<1>1. Unused \in Entry /\ ~Unused.used /\ table \in [IP -> Entry]
  BY DEF Unused, Entry, IInv, TypeOK
<1>2. /\ After(E).table = [i \in IP |-> IF i \in E THEN Unused ELSE table[i]]
      /\ After(E).num_entries = num_entries - Cardinality(E)
  BY DEF After
<1>3. /\ After(E).table \in [IP -> Entry]
      /\ \A i \in IP : After(E).table[i] = IF i \in E THEN Unused ELSE table[i]
  BY <1>1, <1>2
<1>4. IsFiniteSet(Tracked) /\ IsFiniteSet(E)
  <2>1. IsFiniteSet(IP) /\ Tracked \in SUBSET IP
    BY RateLimiterAssumption DEF Tracked
  <2>. QED
    BY <2>1, FS_Subset
<1>5. /\ IsFiniteSet(Tracked \ E)
      /\ Cardinality(Tracked \ E) = Cardinality(Tracked) - Cardinality(E)
  <2>1. Tracked \cap E = E
    OBVIOUS
  <2>. QED
    BY <2>1, <1>4, FS_Difference
<1>6. /\ Cardinality(E) \in Nat /\ Cardinality(Tracked \ E) \in Nat
      /\ Cardinality(Tracked) \in Nat
  BY <1>4, <1>5, FS_CardinalityType
<1>7. /\ After(E).num_entries = Cardinality(Tracked \ E)
      /\ After(E).num_entries \in Nat
      /\ After(E).num_entries <= MaxEntries
  BY <1>2, <1>5, <1>6, Numbers DEF IInv, TableExact
<1>8. \A i \in IP : Removed(i, After(E)) <=> i \in E
  BY <1>1, <1>3 DEF Removed, Tracked
<1>9. /\ drops' \in [IP -> Nat]
      /\ \A i \in IP : drops'[i] = drops[i] + (IF i \in E THEN 1 ELSE 0)
  BY <1>8 DEF Forgets, IInv, TypeOK
<1>10. ASSUME NEW i \in IP, ~After(E).table[i].used
       PROVE  spent[i] <= burst * drops'[i] + Rate * now
  <2>1. /\ spent[i] \in Nat /\ drops[i] \in Nat /\ table[i] \in Entry
        /\ table[i].tokens \in Nat /\ table[i].last_update \in Nat
        /\ burst \in Nat /\ Rate \in Nat /\ now \in Nat
    BY Numbers DEF IInv, TypeOK, Entry
  <2>2. CASE i \in E
    <3>1. /\ table[i].last_update <= now
          /\ spent[i] + table[i].tokens
               <= burst * (1 + drops[i]) + Rate * table[i].last_update
      BY <2>2 DEF IInv, Budget, Tracked
    <3>2. Rate * table[i].last_update <= Rate * now
          /\ Rate * table[i].last_update \in Nat /\ Rate * now \in Nat
      BY <2>1, <3>1, Earnings
    <3>3. drops'[i] = 1 + drops[i] /\ burst * (1 + drops[i]) \in Nat
      BY <2>1, <2>2, <1>9
    <3>. QED
      BY <2>1, <3>1, <3>2, <3>3
  <2>3. CASE i \notin E
    <3>1. ~table[i].used /\ drops'[i] = drops[i]
      BY <1>3, <1>9, <1>10, <2>1, <2>3
    <3>. QED
      BY <3>1 DEF IInv, Budget
  <2>. QED
    BY <2>2, <2>3
<1>. QED
  BY <1>3, <1>5, <1>7, <1>9, <1>10 DEF Freed

(* The entry rate_limiter_allow works on: stamped now, and holding no more *)
(* than the budget allows and no less than it has earned.                  *)
Stamped(ip, e) ==
    /\ e \in Entry
    /\ e.used
    /\ e.last_update = now
    /\ e.tokens \in Nat
    /\ e.tokens <= burst
    /\ spent[ip] + e.tokens <= burst * (1 + drops'[ip]) + Rate * now
    /\ \/ e.tokens = burst
       \/ last_grant[ip] # Never /\ Rate * (now - last_grant[ip]) <= e.tokens

LEMMA TouchedFacts ==
    ASSUME IInv, NEW E \in SUBSET Tracked, Forgets(After(E)), NEW ip \in IP
    PROVE  Stamped(ip, touched(After(E).table[ip]))
<1>. DEFINE e == After(E).table[ip]
            t == IF e.used THEN replenish_tokens(e) ELSE burst
<1>0. Freed(E)
  BY FreeFacts
<1>1. /\ spent[ip] \in Nat /\ drops[ip] \in Nat /\ drops'[ip] \in Nat
      /\ e \in Entry /\ e.used \in BOOLEAN
      /\ e.tokens \in Nat /\ e.last_update \in Nat
      /\ burst \in Nat /\ Rate \in Nat /\ now \in Nat /\ seconds \in Nat
      /\ last_grant[ip] \in Nat \cup {Never}
  <2>1. e \in Entry /\ drops'[ip] \in Nat
    BY <1>0 DEF Freed
  <2>2. /\ spent[ip] \in Nat /\ drops[ip] \in Nat
        /\ last_grant[ip] \in Nat \cup {Never}
    BY DEF IInv, TypeOK
  <2>3. burst \in Nat /\ Rate \in Nat /\ now \in Nat /\ seconds \in Nat
    BY Numbers DEF IInv
  <2>4. e.used \in BOOLEAN /\ e.tokens \in Nat /\ e.last_update \in Nat
    <3>. HIDE DEF e
    <3>. QED
      BY <2>1 DEF Entry
  <2>. QED
    BY <2>1, <2>2, <2>3, <2>4
<1>2. CASE ~e.used
  <2>1. t = burst /\ spent[ip] <= burst * drops'[ip] + Rate * now
    BY <1>0, <1>2 DEF Freed
  <2>2. burst * (1 + drops'[ip]) = burst + burst * drops'[ip]
        /\ burst * drops'[ip] \in Nat /\ Rate * now \in Nat
    BY <1>1
  <2>3. spent[ip] + t <= burst * (1 + drops'[ip]) + Rate * now
    BY <1>1, <2>1, <2>2
  <2>4. touched(e) = [used |-> TRUE, tokens |-> t, last_update |-> now,
                      last_request |-> seconds]
    BY DEF touched
  <2>5. t \in Nat /\ t <= burst
    BY <1>1, <2>1
  <2>. HIDE DEF t
  <2>6. touched(e) \in Entry
    <3>. HIDE DEF e
    <3>. QED
      BY <1>1, <2>4, <2>5 DEF Entry
  <2>. QED
    BY <2>1, <2>3, <2>4, <2>5, <2>6 DEF Stamped
<1>3. CASE e.used
  <2>1. ip \notin E /\ e = table[ip] /\ drops'[ip] = drops[ip]
    BY <1>0, <1>1, <1>3 DEF Freed, Unused
  <2>2. /\ e.last_update <= now
        /\ e.tokens <= burst
        /\ spent[ip] + e.tokens <= burst * (1 + drops[ip]) + Rate * e.last_update
        /\ last_grant[ip] <= now
        /\ \/ e.tokens = burst
           \/ /\ last_grant[ip] # Never
              /\ last_grant[ip] <= e.last_update
              /\ Rate * (e.last_update - last_grant[ip]) <= e.tokens
    <3>. HIDE DEF e
    <3>. QED
      BY <1>3, <2>1 DEF IInv, Budget, Earned
  <2>3. t = replenish_tokens(e)
    BY <1>3
  <2>4. touched(e) = [used |-> TRUE, tokens |-> t, last_update |-> now,
                      last_request |-> seconds]
    BY DEF touched
  <2>. DEFINE more == Rate * (now - e.last_update)
  <2>5. /\ more \in Nat
        /\ Rate * e.last_update \in Nat /\ Rate * now \in Nat
        /\ Rate * e.last_update + more = Rate * now
    BY <1>1, <2>2, Earnings
  <2>6. /\ t \in Nat
        /\ e.tokens <= t
        /\ t <= burst /\ t <= e.tokens + more
        /\ t = burst \/ t = e.tokens + more
    <3>1. now = e.last_update => more = 0
      BY <1>1
    <3>2. t = IF now <= e.last_update THEN e.tokens
              ELSE IF e.tokens + more > burst THEN burst ELSE e.tokens + more
      BY <2>3 DEF replenish_tokens
    <3>. HIDE DEF t, e, more
    <3>3. CASE now <= e.last_update
      <4>1. now = e.last_update
        <5>1. e.last_update <= now
          BY <2>2
        <5>. QED
          BY <1>1, <3>3, <5>1
      <4>2. t = e.tokens /\ more = 0
        BY <3>1, <3>2, <3>3, <4>1
      <4>. QED
        BY <1>1, <2>2, <4>2
    <3>4. CASE ~(now <= e.last_update)
      <4>1. t = IF e.tokens + more > burst THEN burst ELSE e.tokens + more
        BY <3>2, <3>4
      <4>. QED
        BY <1>1, <2>2, <2>5, <4>1
    <3>. QED
      BY <3>3, <3>4
  <2>7. spent[ip] + t <= burst * (1 + drops'[ip]) + Rate * now
    <3>1. burst * (1 + drops[ip]) \in Nat
      BY <1>1
    <3>. HIDE DEF t, e, more
    <3>. QED
      BY <1>1, <2>1, <2>2, <2>5, <2>6, <3>1
  <2>8. t = burst \/ (last_grant[ip] # Never /\ Rate * (now - last_grant[ip]) <= t)
    <3>1. CASE e.tokens = burst
      <4>. HIDE DEF t, e, more
      <4>. QED
        BY <1>1, <2>6, <3>1
    <3>2. CASE /\ last_grant[ip] # Never
               /\ last_grant[ip] <= e.last_update
               /\ Rate * (e.last_update - last_grant[ip]) <= e.tokens
      <4>1. last_grant[ip] \in Nat
        BY <1>1, <3>2
      <4>2. /\ Rate * last_grant[ip] + Rate * (now - last_grant[ip]) = Rate * now
            /\ Rate * (now - last_grant[ip]) \in Nat /\ Rate * last_grant[ip] \in Nat
        BY <1>1, <2>2, <4>1, Earnings, ZenonT(30)
      <4>3. /\ Rate * last_grant[ip] + Rate * (e.last_update - last_grant[ip])
                 = Rate * e.last_update
            /\ Rate * (e.last_update - last_grant[ip]) \in Nat
        BY <1>1, <3>2, <4>1, Earnings
      <4>. HIDE DEF t, e, more
      <4>. QED
        BY <1>1, <2>5, <2>6, <3>2, <4>2, <4>3
    <3>. QED
      BY <2>2, <3>1, <3>2
  <2>. HIDE DEF t, e, more
  <2>. QED
    BY <1>1, <2>4, <2>6, <2>7, <2>8 DEF Stamped, Entry, e
<1>. QED
  BY <1>1, <1>2, <1>3

(* rate_limiter_allow stores the entry, with or without the token it       *)
(* spends.                                                                 *)
LEMMA StoreIInv ==
    ASSUME IInv, NEW ip \in IP, rate_limiter_allow(ip) \/ rate_limited(ip)
    PROVE  IInv'
<1>1. PICK E \in SUBSET Tracked : lookup(ip) = After(E)
  BY LookupFrees DEF IInv
<1>. DEFINE g == After(E)
            e == touched(g.table[ip])
<1>2. /\ Forgets(g) /\ Room(ip, g)
      /\ num_entries' = Counted(ip, g)
      /\ UNCHANGED <<now, cleanup_at>>
  BY <1>1 DEF rate_limiter_allow, rate_limited
<1>3. Freed(E) /\ Stamped(ip, e)
  BY <1>2, FreeFacts, TouchedFacts
<1>4. /\ burst \in Nat /\ Rate \in Nat /\ now \in Nat /\ Token \in Nat
      /\ MaxEntries \in Nat
      /\ spent \in [IP -> Nat] /\ drops \in [IP -> Nat]
      /\ last_grant \in [IP -> Nat \cup {Never}]
      /\ drops' \in [IP -> Nat]
  BY <1>3, Numbers DEF IInv, TypeOK, Freed
(* The entry stored. *)
<1>5. PICK f \in Entry :
        /\ table' = [g.table EXCEPT ![ip] = f]
        /\ f.used /\ f.last_update = now
        /\ f.tokens \in Nat /\ f.tokens <= burst
        /\ spent' \in [IP -> Nat]
        /\ \A i \in IP : i # ip => spent'[i] = spent[i]
        /\ spent'[ip] + f.tokens = spent[ip] + e.tokens
        /\ \/ last_grant' = last_grant /\ f.tokens = e.tokens
           \/ last_grant' = [last_grant EXCEPT ![ip] = now]
  <2>1. e \in Entry /\ e.used /\ e.last_update = now /\ e.tokens \in Nat
        /\ e.tokens <= burst
    BY <1>3 DEF Stamped
  <2>2. CASE rate_limited(ip)
    <3>1. table' = [g.table EXCEPT ![ip] = e] /\ UNCHANGED <<spent, last_grant>>
      BY <2>2, <1>1, ZenonT(30) DEF rate_limited
    <3>. HIDE DEF e, g
    <3>. QED
      BY <1>4, <2>1, <3>1, ZenonT(30)
  <2>3. CASE rate_limiter_allow(ip)
    <3>1. /\ table' = [g.table EXCEPT ![ip] = [e EXCEPT !.tokens = e.tokens - Token]]
          /\ spent' = [spent EXCEPT ![ip] = spent[ip] + Token]
          /\ last_grant' = [last_grant EXCEPT ![ip] = now]
          /\ e.tokens >= Token
      BY <2>3, <1>1 DEF rate_limiter_allow, enough
    <3>. HIDE DEF e, g
    <3>. DEFINE f == [e EXCEPT !.tokens = e.tokens - Token]
    <3>2. e.tokens - Token \in Nat /\ e.tokens - Token <= burst
          /\ (spent[ip] + Token) + (e.tokens - Token) = spent[ip] + e.tokens
      BY <1>4, <2>1, <3>1
    <3>3. f \in Entry /\ f.used /\ f.last_update = now /\ f.tokens = e.tokens - Token
      BY <2>1, <3>2 DEF Entry
    <3>4. /\ spent' \in [IP -> Nat] /\ spent'[ip] = spent[ip] + Token
          /\ \A i \in IP : i # ip => spent'[i] = spent[i]
      BY <1>4, <3>1
    <3>5. table' = [g.table EXCEPT ![ip] = f]
      BY <3>1
    <3>. HIDE DEF f
    <3>. QED
      BY <3>1, <3>2, <3>3, <3>4, <3>5, ZenonT(30)
  <2>. QED
    BY <2>2, <2>3
<1>6. /\ table' \in [IP -> Entry]
      /\ table'[ip] = f
      /\ \A i \in IP : i # ip => table'[i] = g.table[i]
  BY <1>3, <1>5, ZenonT(30) DEF Freed
<1>7. last_grant' \in [IP -> Nat \cup {Never}]
      /\ \A i \in IP : i # ip => last_grant'[i] = last_grant[i]
  BY <1>4, <1>5
<1>8. num_entries' = Cardinality(Tracked') /\ num_entries' <= MaxEntries
      /\ num_entries' \in Int
  <2>1. Tracked' = (Tracked \ E) \cup {ip}
    BY <1>3, <1>5, <1>6, SMTT(60) DEF Freed, Tracked, Unused
  <2>2. ip \in Tracked \ E <=> g.table[ip].used
    BY <1>3 DEF Freed, Tracked, Unused
  <2>3. /\ IsFiniteSet(Tracked \ E) /\ g.num_entries = Cardinality(Tracked \ E)
        /\ g.num_entries \in Nat /\ g.num_entries <= MaxEntries
    BY <1>3 DEF Freed
  <2>4. Cardinality(Tracked') = IF ip \in Tracked \ E THEN Cardinality(Tracked \ E)
                                ELSE Cardinality(Tracked \ E) + 1
    BY <2>1, <2>3, FS_AddElement, ZenonT(30)
  <2>. HIDE DEF g
  <2>. QED
    BY <1>2, <1>4, <2>2, <2>3, <2>4 DEF Counted, Room
<1>9. TypeOK'
  BY <1>2, <1>4, <1>5, <1>6, <1>7, <1>8, ZenonT(30) DEF IInv, TypeOK
<1>10. Budget'
  <2>. SUFFICES ASSUME NEW i \in IP
                PROVE  IF table'[i].used
                       THEN /\ table'[i].last_update <= now
                            /\ table'[i].tokens <= burst
                            /\ spent'[i] + table'[i].tokens
                                 <= burst * (1 + drops'[i]) + Rate * table'[i].last_update
                       ELSE spent'[i] <= burst * drops'[i] + Rate * now
    BY <1>2, ZenonT(30) DEF Budget, burst
  <2>1. CASE i = ip
    BY <2>1, <1>3, <1>4, <1>5, <1>6, SMTT(90) DEF Stamped
  <2>2. CASE i # ip
    <3>1. table'[i] = g.table[i] /\ spent'[i] = spent[i]
      BY <2>2, <1>5, <1>6
    <3>2. CASE ~g.table[i].used
      BY <3>1, <3>2, <1>3 DEF Freed
    <3>3. CASE g.table[i].used
      <4>1. g.table[i] = table[i] /\ drops'[i] = drops[i] /\ table[i].used
        BY <3>3, <1>3, <1>4, SMTT(60) DEF Freed, Unused
      <4>. QED
        BY <3>1, <3>3, <4>1 DEF IInv, Budget
    <3>. QED
      BY <3>2, <3>3
  <2>. QED
    BY <2>1, <2>2
<1>11. Earned'
  <2>. SUFFICES ASSUME NEW i \in IP
                PROVE  /\ last_grant'[i] <= now
                       /\ table'[i].used =>
                            \/ table'[i].tokens = burst
                            \/ /\ last_grant'[i] # Never
                               /\ last_grant'[i] <= table'[i].last_update
                               /\ Rate * (table'[i].last_update - last_grant'[i])
                                    <= table'[i].tokens
    BY <1>2 DEF Earned, burst, Never
  <2>1. last_grant[i] <= now
    BY DEF IInv, Earned
  <2>2. CASE i # ip
    <3>1. table'[i] = g.table[i] /\ last_grant'[i] = last_grant[i]
      BY <2>2, <1>6, <1>7
    <3>2. g.table[i].used => g.table[i] = table[i]
      BY <1>3 DEF Freed, Unused
    <3>. HIDE DEF g
    <3>. QED
      BY <2>1, <3>1, <3>2 DEF IInv, Earned
  <2>3. CASE i = ip /\ last_grant' = last_grant /\ f.tokens = e.tokens
    <3>. HIDE DEF e
    <3>. QED
      BY <2>1, <2>3, <1>3, <1>5, <1>6 DEF Stamped
  <2>4. CASE i = ip /\ last_grant' = [last_grant EXCEPT ![ip] = now]
    <3>1. last_grant'[i] = now /\ table'[i].last_update = now /\ now # Never
          /\ table'[i].tokens \in Nat
      BY <2>4, <1>4, <1>5, <1>6 DEF Never
    <3>2. Rate * (now - now) = 0
      BY <1>4
    <3>. QED
      BY <1>4, <3>1, <3>2
  <2>. QED
    BY <1>5, <2>2, <2>3, <2>4, ZenonT(30)
<1>. QED
  BY <1>8, <1>9, <1>10, <1>11 DEF IInv, TableExact

(* A cleanup, run by the timer or for an address that then finds no room.  *)
LEMMA FreeIInv ==
    ASSUME IInv, cleanup_timer_cb \/ \E ip \in IP : untracked(ip)
    PROVE  IInv'
<1>1. PICK E \in SUBSET Tracked :
        /\ Forgets(After(E))
        /\ table' = After(E).table /\ num_entries' = After(E).num_entries
        /\ UNCHANGED <<now, spent, last_grant>>
  <2>1. CASE cleanup_timer_cb
    <3>1. rate_limiter_cleanup = After(expired) /\ expired \in SUBSET Tracked
      BY DEF rate_limiter_cleanup, After, expired
    <3>. QED
      BY <2>1, <3>1 DEF cleanup_timer_cb
  <2>2. ASSUME NEW ip \in IP, untracked(ip)
        PROVE  \E E \in SUBSET Tracked :
                 /\ Forgets(After(E))
                 /\ table' = After(E).table /\ num_entries' = After(E).num_entries
                 /\ UNCHANGED <<now, spent, last_grant>>
    <3>1. PICK E \in SUBSET Tracked : lookup(ip) = After(E)
      BY LookupFrees DEF IInv
    <3>. QED
      BY <2>2, <3>1 DEF untracked
  <2>. QED
    BY <2>1, <2>2
<1>2. Freed(E)
  BY <1>1, FreeFacts
<1>3. cleanup_at' \in Nat
  BY Numbers DEF IInv, TypeOK, cleanup_timer_cb, untracked
<1>4. TypeOK'
  BY <1>1, <1>2, <1>3 DEF IInv, TypeOK, Freed
<1>5. TableExact'
  <2>1. Tracked' = Tracked \ E
    BY <1>1, <1>2 DEF Freed, Tracked, Unused
  <2>. QED
    BY <1>1, <1>2, <2>1 DEF Freed, TableExact
<1>6. \A i \in IP : table'[i].used =>
        table'[i] = table[i] /\ drops'[i] = drops[i]
  BY <1>1, <1>2 DEF Freed, Unused, IInv, TypeOK
<1>7. Budget'
  BY <1>1, <1>2, <1>6, ZenonT(30) DEF IInv, Budget, Freed, burst
<1>8. Earned'
  BY <1>1, <1>6 DEF IInv, Earned, burst, Never
<1>. QED
  BY <1>4, <1>5, <1>7, <1>8 DEF IInv

(* Time passes.                                                            *)
LEMMA TickIInv ==
    ASSUME IInv, Tick
    PROVE  IInv'
<1>1. /\ now' = now + 1 /\ now' \in 0..MaxTime /\ now \in Nat /\ Rate \in Nat
      /\ UNCHANGED <<table, num_entries, cleanup_at, spent, drops, last_grant>>
  BY Numbers DEF IInv, TypeOK, Tick
<1>2. TypeOK' /\ TableExact'
  BY <1>1 DEF IInv, TypeOK, TableExact, Tracked
<1>3. Rate * now <= Rate * now' /\ Rate * now \in Nat /\ Rate * now' \in Nat
  BY <1>1, Earnings
<1>4. Budget'
  <2>. SUFFICES ASSUME NEW i \in IP
                PROVE  IF table[i].used
                       THEN /\ table[i].last_update <= now'
                            /\ table[i].tokens <= burst
                            /\ spent[i] + table[i].tokens
                                 <= burst * (1 + drops[i]) + Rate * table[i].last_update
                       ELSE spent[i] <= burst * drops[i] + Rate * now'
    BY <1>1 DEF Budget, burst
  <2>1. CASE table[i].used
    <3>1. table[i].last_update \in Nat
      BY DEF IInv, TypeOK, Entry
    <3>2. table[i].last_update <= now
      BY <2>1 DEF IInv, Budget
    <3>3. table[i].last_update <= now'
      BY <1>1, <3>1, <3>2
    <3>. QED
      BY <2>1, <3>3 DEF IInv, Budget
  <2>2. CASE ~table[i].used
    <3>1. spent[i] <= burst * drops[i] + Rate * now
      BY <2>2 DEF IInv, Budget
    <3>2. spent[i] \in Nat /\ burst * drops[i] \in Nat
      <4>1. drops[i] \in Nat /\ burst \in Nat
        BY Numbers DEF IInv, TypeOK
      <4>. QED
        BY <4>1 DEF IInv, TypeOK
    <3>3. spent[i] <= burst * drops[i] + Rate * now'
      BY <1>3, <3>1, <3>2
    <3>. QED
      BY <2>2, <3>3
  <2>. QED
    BY <2>1, <2>2
<1>5. Earned'
  <2>1. \A i \in IP : last_grant[i] <= now'
    BY <1>1 DEF IInv, TypeOK, Earned, Never
  <2>. QED
    BY <1>1, <2>1 DEF IInv, Earned, burst, Never
<1>. QED
  BY <1>2, <1>4, <1>5 DEF IInv

(* Every step keeps the invariant.                                         *)
LEMMA NextIInv == IInv /\ [Next]_vars => IInv'
<1>. SUFFICES ASSUME IInv, [Next]_vars PROVE IInv'
  OBVIOUS
<1>1. CASE UNCHANGED vars
  BY <1>1 DEF vars, IInv, TypeOK, TableExact, Tracked, Budget, Earned, burst, Never
<1>2. CASE Next
  BY <1>2, StoreIInv, FreeIInv, TickIInv DEF Next
<1>. QED
  BY <1>1, <1>2

(* The invariant that bounds what every client of a worker may obtain.     *)
THEOREM LimiterInvariant == Spec => []IInv
<1>. QED
  BY InitIInv, NextIInv, PTL DEF Spec

(* rl->num_entries counts the entries of the table exactly, and stays      *)
(* within RATE_LIMITER_MAX_ENTRIES, through both ways rate_limiter_cleanup *)
(* is called.                                                              *)
THEOREM TableExactAlways == Spec => []TableExact
<1>1. IInv => TableExact
  BY DEF IInv
<1>. QED
  BY <1>1, LimiterInvariant, PTL

(* replenish_tokens and rate_limiter_allow never grant an address more     *)
(* than its rate and one bucket for each entry it had.                     *)
THEOREM RateBoundAlways == Spec => []RateBound
<1>1. IInv => RateBound
  <2>. SUFFICES ASSUME IInv, NEW ip \in IP
                PROVE  spent[ip] <= burst * (1 + drops[ip]) + Rate * now
    BY DEF RateBound
  <2>1. /\ burst \in Nat /\ Rate \in Nat /\ now \in Nat
        /\ spent[ip] \in Nat /\ drops[ip] \in Nat
        /\ table[ip].tokens \in Nat /\ table[ip].last_update \in Nat
    BY Numbers DEF IInv, TypeOK, Entry
  <2>2. CASE table[ip].used
    <3>1. /\ table[ip].last_update <= now
          /\ spent[ip] + table[ip].tokens
               <= burst * (1 + drops[ip]) + Rate * table[ip].last_update
      BY <2>2 DEF IInv, Budget
    <3>2. /\ Rate * table[ip].last_update <= Rate * now
          /\ Rate * table[ip].last_update \in Nat /\ Rate * now \in Nat
      BY <2>1, <3>1, Earnings, ZenonT(30)
    <3>3. burst * (1 + drops[ip]) \in Nat
      BY <2>1
    <3>. QED
      BY <2>1, <3>1, <3>2, <3>3
  <2>3. CASE ~table[ip].used
    <3>1. spent[ip] <= burst * drops[ip] + Rate * now
      BY <2>3 DEF IInv, Budget
    <3>2. burst * (1 + drops[ip]) = burst + burst * drops[ip]
          /\ burst * drops[ip] \in Nat /\ Rate * now \in Nat
      BY <2>1
    <3>. QED
      BY <2>1, <3>1, <3>2
  <2>. QED
    BY <2>2, <2>3
<1>. QED
  BY <1>1, LimiterInvariant, PTL

(* If the bucket holds at least one token, rate_limiter_allow refuses a    *)
(* tracked client only within one token's time of a request it granted.    *)
THEOREM SpacedRequestsPassAlways ==
    ASSUME burst >= Token
    PROVE  Spec => SpacedRequestsPass
<1>1. ASSUME IInv, NEW ip \in IP, rate_limited(ip)
      PROVE  last_grant[ip] # Never /\ Rate * (now - last_grant[ip]) < Token
  <2>1. PICK E \in SUBSET Tracked : lookup(ip) = After(E)
    BY <1>1, LookupFrees DEF IInv
  <2>. DEFINE e == touched(After(E).table[ip])
  <2>2. Forgets(After(E)) /\ ~(e.tokens >= Token)
    BY <1>1, <2>1 DEF rate_limited, enough
  <2>3. Stamped(ip, e)
    BY <1>1, <2>2, TouchedFacts
  <2>. HIDE DEF e
  <2>4. /\ e.tokens \in Nat /\ Token \in Nat /\ burst \in Nat /\ Rate \in Nat
        /\ now \in Nat
    BY <1>1, <2>3, Numbers DEF Stamped, IInv
  <2>5. e.tokens # burst
    BY <2>2, <2>4
  <2>6. last_grant[ip] # Never /\ Rate * (now - last_grant[ip]) <= e.tokens
    BY <2>3, <2>5 DEF Stamped
  <2>7. Rate * (now - last_grant[ip]) \in Int
    <3>1. last_grant[ip] \in Int
      BY <1>1, <2>6 DEF IInv, TypeOK, Never
    <3>. QED
      BY <2>4, <3>1
  <2>. QED
    BY <2>2, <2>4, <2>6, <2>7
<1>2. IInv => \A ip \in IP : rate_limited(ip)
                => last_grant[ip] # Never /\ Rate * (now - last_grant[ip]) < Token
  BY <1>1
<1>3. IInv /\ [Next]_vars =>
        [\A ip \in IP : rate_limited(ip)
            => last_grant[ip] # Never /\ Rate * (now - last_grant[ip]) < Token]_vars
  BY <1>2
<1>. QED
  BY <1>3, LimiterInvariant, PTL DEF Spec, SpacedRequestsPass

-----------------------------------------------------------------------------
(* The block and allow lists.                                              *)

(* Induction over the natural numbers, in a form without a parameter: a    *)
(* set of numbers that is not empty has a least one.                       *)
LEMMA LeastNumber ==
    ASSUME NEW T \in SUBSET Nat, T # {}
    PROVE  \E x \in T : \A y \in T : x <= y
<1>. DEFINE R == {ss \in Nat \X Nat : ss[1] < ss[2]}
<1>1. IsWellFoundedOn(R, Nat)
  BY NatLessThanWellFounded DEF OpToRel
<1>2. \A x, y \in Nat : y < x => <<y, x>> \in R
  OBVIOUS
<1>. HIDE DEF R
<1>3. PICK x \in T : \A y \in T : ~(<<y, x>> \in R)
  BY <1>1, WFMin, ZenonT(30)
<1>4. \A y \in T : ~(y < x)
  BY <1>2, <1>3, ZenonT(30)
<1>5. QED
  BY <1>4

(* A set with 0 and the successors of its numbers has all numbers.         *)
LEMMA NatSet ==
    ASSUME NEW P, 0 \in P, \A n \in Nat : n \in P => n + 1 \in P
    PROVE  Nat \subseteq P
<1>. SUFFICES ASSUME ~(Nat \subseteq P) PROVE FALSE
  OBVIOUS
<1>1. PICK x \in Nat \ P : \A y \in Nat \ P : x <= y
  BY LeastNumber, ZenonT(30)
<1>2. x # 0
 OBVIOUS
<1>3. x - 1 \in Nat /\ x - 1 < x  /\ x - 1 + 1 = x
  BY <1>2
<1>4. x - 1 \in P
  BY <1>1, <1>3
<1>5. QED
  BY <1>3, <1>4

(* The first powers of two.                                                *)
PowersTo(n) == {h \in [0..n -> Nat] : h[0] = 1 /\ \A i \in 1..n : h[i] = 2 * h[i - 1]}

(* They exist, and longer tables agree with shorter ones.                  *)
LEMMA PowersExist == \A n \in Nat : PowersTo(n) # {}
<1>. DEFINE S == {n \in Nat : PowersTo(n) # {}}
<1>1. 0 \in S
  <2>1. [i \in 0..0 |-> 1] \in PowersTo(0)
    BY DEF PowersTo
  <2>2. QED
    BY <2>1
<1>2. ASSUME NEW n \in Nat, n \in S
      PROVE  n + 1 \in S
  <2>1. PICK h : h \in PowersTo(n)
    BY <1>2
  <2>. DEFINE k == [i \in 0..(n + 1) |-> IF i = n + 1 THEN 2 * h[n] ELSE h[i]]
  <2>2. h \in [0..n -> Nat] /\ h[0] = 1 /\ \A i \in 1..n : h[i] = 2 * h[i - 1]
    BY <2>1 DEF PowersTo
  <2>3. k \in [0..(n + 1) -> Nat] /\ k[0] = 1
    BY <2>2
  <2>4. ASSUME NEW i \in 1..(n + 1) PROVE k[i] = 2 * k[i - 1]
    BY <2>2
  <2>5. k \in PowersTo(n + 1)
    BY <2>3, <2>4 DEF PowersTo
  <2>6. QED
    BY <2>5
<1>. HIDE DEF S
<1>3. Nat \subseteq S
  BY <1>1, <1>2, NatSet
<1>4. QED
  BY <1>3 DEF S

LEMMA PowersAgree ==
    ASSUME NEW n \in Nat, NEW h \in PowersTo(n), NEW k \in PowersTo(n + 1)
    PROVE  h[n] = k[n]
<1>. DEFINE S == {i \in Nat : i <= n => h[i] = k[i]}
<1>1. /\ h[0] = 1 /\ \A i \in 1..n : h[i] = 2 * h[i - 1]
      /\ k[0] = 1 /\ \A i \in 1..(n + 1) : k[i] = 2 * k[i - 1]
  BY DEF PowersTo
<1>2. 0 \in S
  BY <1>1
<1>3. ASSUME NEW i \in Nat, i \in S PROVE i + 1 \in S
  <2>1. SUFFICES ASSUME i + 1 <= n PROVE h[i + 1] = k[i + 1]
    OBVIOUS
  <2>2. i + 1 \in 1..n /\ i + 1 \in 1..(n + 1) /\ (i + 1) - 1 = i /\ h[i] = k[i]
    BY <1>3, <2>1
  <2>3. h[i + 1] = 2 * h[i] /\ k[i + 1] = 2 * k[i]
    BY <1>1, <2>2
  <2>4. QED
    BY <2>2, <2>3
<1>. HIDE DEF S
<1>4. Nat \subseteq S
  BY <1>2, <1>3, NatSet
<1>5. QED
  BY <1>4 DEF S

(* So the recursive definition of Pow2 defines a function.                 *)
LEMMA Pow2Defined == Pow2 = [n \in Nat |-> IF n = 0 THEN 1 ELSE 2 * Pow2[n - 1]]
<1>. DEFINE to(n) == CHOOSE h : h \in PowersTo(n)
            g == [n \in Nat |-> to(n)[n]]
<1>1. ASSUME NEW n \in Nat PROVE to(n) \in PowersTo(n)
  BY PowersExist
<1>. HIDE DEF to
<1>2. ASSUME NEW n \in Nat PROVE g[n] = IF n = 0 THEN 1 ELSE 2 * g[n - 1]
  <2>1. CASE n = 0
    BY <1>1, <2>1 DEF PowersTo
  <2>2. CASE n # 0
    <3>1. n - 1 \in Nat /\ (n - 1) + 1 = n /\ n \in 1..n
      BY <2>2
    <3>2. to(n) \in PowersTo(n) /\ to(n - 1) \in PowersTo(n - 1)
      BY <1>1, <3>1
    <3>3. to(n)[n] = 2 * to(n)[n - 1]
      BY <3>1, <3>2 DEF PowersTo
    <3>4. to(n)[n - 1] = to(n - 1)[n - 1]
      BY <3>1, <3>2, PowersAgree
    <3>5. QED
      BY <2>2, <3>1, <3>3, <3>4
  <2>3. QED
    BY <2>1, <2>2
<1>3. g = [n \in Nat |-> IF n = 0 THEN 1 ELSE 2 * g[n - 1]]
  BY <1>2
<1>. HIDE DEF g
<1>4. \E f : f = [n \in Nat |-> IF n = 0 THEN 1 ELSE 2 * f[n - 1]]
  BY <1>3
<1>5. QED
  BY <1>4 DEF Pow2

(* What there is to know about Pow2.                                       *)
LEMMA Pow2Step ==
    /\ Pow2[0] = 1
    /\ \A n \in Nat : Pow2[n] \in Nat \ {0} /\ Pow2[n + 1] = 2 * Pow2[n]
<1>1. \A n \in Nat : Pow2[n] = IF n = 0 THEN 1 ELSE 2 * Pow2[n - 1]
  BY Pow2Defined
<1>2. Pow2[0] = 1 /\ \A n \in Nat : Pow2[n + 1] = 2 * Pow2[n]
  BY <1>1
<1>. DEFINE S == {n \in Nat : Pow2[n] \in Nat \ {0}}
<1>3. 0 \in S /\ \A n \in Nat : n \in S => n + 1 \in S
  BY <1>2
<1>. HIDE DEF S
<1>4. Nat \subseteq S
  BY <1>3, NatSet
<1>5. QED
  BY <1>2, <1>4 DEF S

-----------------------------------------------------------------------------
(* Bytes and their bits, the highest first.                                *)

BitOf(x, j) == (x \div Pow2[ByteBits - 1 - j]) % 2

(* Shifting once more halves.                                              *)
LEMMA HalfOf ==
    ASSUME NEW x \in Nat, NEW m \in Nat \ {0}
    PROVE  x \div (2 * m) = (x \div m) \div 2 /\ x \div m \in Nat
OBVIOUS

(* Two bytes agree under the mask of cidr_match if and only if they agree  *)
(* in the bits it leaves.                                                  *)
LEMMA MaskedBits ==
    ASSUME NEW x \in Byte, NEW y \in Byte
    PROVE  \A r \in 0..ByteBits :
              mask(x, r) = mask(y, r) <=> \A j \in 0..(r - 1) : BitOf(x, j) = BitOf(y, j)
<1>. DEFINE S == {r \in Nat : r <= ByteBits =>
                    (mask(x, r) = mask(y, r)
                     <=> \A j \in 0..(r - 1) : BitOf(x, j) = BitOf(y, j))}
<1>1. ByteBits \in Nat /\ x \in Nat /\ y \in Nat
      /\ Pow2[ByteBits] \in Nat \ {0} /\ x < Pow2[ByteBits] /\ y < Pow2[ByteBits]
  <2>1. ByteBits \in Nat
    BY IpAclAssumption
  <2>2. Pow2[ByteBits] \in Nat \ {0}
    BY <2>1, Pow2Step
  <2>3. QED
    BY <2>1, <2>2 DEF Byte
<1>2. 0 \in S
  <2>1. ByteBits - 0 = ByteBits
    BY <1>1
  <2>2. mask(x, 0) = 0 /\ mask(y, 0) = 0
    BY <1>1, <2>1 DEF mask
  <2>3. QED
    BY <2>2
<1>3. ASSUME NEW r \in Nat, r \in S
      PROVE  r + 1 \in S
  <2>. SUFFICES ASSUME r + 1 <= ByteBits
                PROVE  mask(x, r + 1) = mask(y, r + 1)
                       <=> \A j \in 0..r : BitOf(x, j) = BitOf(y, j)
    BY (r + 1) - 1 = r
  <2>. DEFINE m == Pow2[ByteBits - 1 - r]
              p == x \div m
              q == y \div m
  <2>1. ByteBits - 1 - r \in Nat /\ (ByteBits - 1 - r) + 1 = ByteBits - r
        /\ ByteBits - (r + 1) = ByteBits - 1 - r
    BY <1>1
  <2>2. m \in Nat \ {0} /\ Pow2[ByteBits - r] = 2 * m
    BY <2>1, Pow2Step
  <2>3. mask(x, r + 1) = p /\ mask(y, r + 1) = q
    BY <2>1 DEF mask
  <2>4. BitOf(x, r) = p % 2 /\ BitOf(y, r) = q % 2
    BY DEF BitOf
  <2>5. mask(x, r) = p \div 2 /\ mask(y, r) = q \div 2 /\ p \in Nat /\ q \in Nat
    BY <1>1, <2>2, HalfOf DEF mask
  <2>6. mask(x, r) = mask(y, r) <=> \A j \in 0..(r - 1) : BitOf(x, j) = BitOf(y, j)
    BY <1>1, <1>3
  <2>. HIDE DEF p, q
  <2>7. p = q <=> p \div 2 = q \div 2 /\ p % 2 = q % 2
    BY <2>5
  <2>8. (\A j \in 0..r : BitOf(x, j) = BitOf(y, j))
        <=> BitOf(x, r) = BitOf(y, r) /\ \A j \in 0..(r - 1) : BitOf(x, j) = BitOf(y, j)
    OBVIOUS
  <2>9. QED
    BY <2>3, <2>4, <2>5, <2>6, <2>7, <2>8
<1>. HIDE DEF S
<1>4. Nat \subseteq S
  BY <1>2, <1>3, NatSet
<1>5. QED
  BY <1>4 DEF S

(* Two bytes are equal if and only if all their bits are.                  *)
LEMMA ByteBit ==
    ASSUME NEW x \in Byte, NEW y \in Byte
    PROVE  x = y <=> \A j \in 0..(ByteBits - 1) : BitOf(x, j) = BitOf(y, j)
<1>1. ByteBits \in 0..ByteBits /\ ByteBits - ByteBits = 0 /\ x \in Nat /\ y \in Nat
  BY IpAclAssumption, Pow2Step DEF Byte
<1>2. mask(x, ByteBits) = x /\ mask(y, ByteBits) = y
  BY <1>1, Pow2Step DEF mask
<1>3. QED
  BY <1>1, <1>2, MaskedBits

-----------------------------------------------------------------------------

(* Which byte a bit of an address is in, and where.                        *)
LEMMA BytePosition ==
    ASSUME NEW i \in Nat
    PROVE  /\ i \div ByteBits \in Nat
           /\ i % ByteBits \in 0..(ByteBits - 1)
           /\ i = ByteBits * (i \div ByteBits) + (i % ByteBits)
BY IpAclAssumption

LEMMA BitPosition ==
    ASSUME NEW q \in Nat, NEW j \in 0..(ByteBits - 1)
    PROVE  /\ ByteBits * q + j \in Nat
           /\ (ByteBits * q + j) \div ByteBits = q
           /\ (ByteBits * q + j) % ByteBits = j
BY IpAclAssumption

LEMMA BitBefore ==
    ASSUME NEW q \in Nat, NEW j \in 0..(ByteBits - 1),
           NEW k \in Nat, NEW r \in 0..(ByteBits - 1)
    PROVE  ByteBits * q + j < ByteBits * k + r <=> q < k \/ (q = k /\ j < r)
<1>1. ByteBits \in Nat \ {0} /\ ByteBits * q \in Nat /\ ByteBits * k \in Nat
  BY IpAclAssumption
<1>2. CASE q = k
  BY <1>1, <1>2
<1>3. CASE q < k
  <2>1. ByteBits * k = ByteBits * q + ByteBits * (k - q)
    BY <1>1
  <2>2. ByteBits * (k - q) >= ByteBits
    BY <1>1, <1>3
  <2>3. QED
    BY <1>1, <1>3, <2>1, <2>2
<1>4. CASE q > k
  <2>1. ByteBits * q = ByteBits * k + ByteBits * (q - k)
    BY <1>1
  <2>2. ByteBits * (q - k) >= ByteBits
    BY <1>1, <1>4
  <2>3. QED
    BY <1>1, <1>4, <2>1, <2>2
<1>5. QED
  BY <1>2, <1>3, <1>4

(* cidr_match compares whole bytes and one masked byte; that is to compare *)
(* the first prefix_len bits, for addresses and bytes of any size.         *)
THEOREM MatchIsBits ==
    ASSUME NEW addr \in Addr, NEW network \in Addr,
           NEW prefix_len \in 0..(AddrBytes * ByteBits)
    PROVE  cidr_match(addr, network, prefix_len)
           <=> SameBits(addr, network, 0, prefix_len)
<1>. DEFINE full == prefix_len \div ByteBits
            rest == prefix_len % ByteBits
<1>1. /\ ByteBits \in Nat \ {0} /\ AddrBytes \in Nat \ {0} /\ prefix_len \in Nat
      /\ AddrBytes * ByteBits \in Nat /\ prefix_len <= AddrBytes * ByteBits
  BY IpAclAssumption
<1>2. /\ full \in Nat /\ rest \in 0..(ByteBits - 1)
      /\ prefix_len = ByteBits * full + rest
  BY <1>1, BytePosition
<1>3. ASSUME NEW q \in Nat, NEW j \in 0..(ByteBits - 1)
      PROVE  /\ ByteBits * q + j < prefix_len <=> q < full \/ (q = full /\ j < rest)
             /\ ByteBits * q + j < AddrBytes * ByteBits <=> q < AddrBytes
  <2>1. 0 \in 0..(ByteBits - 1) /\ AddrBytes * ByteBits = ByteBits * AddrBytes + 0
    BY <1>1
  <2>2. ByteBits * q + j < ByteBits * full + rest <=> q < full \/ (q = full /\ j < rest)
    BY <1>2, BitBefore
  <2>3. ByteBits * q + j < ByteBits * AddrBytes + 0
        <=> q < AddrBytes \/ (q = AddrBytes /\ j < 0)
    BY <1>1, <2>1, BitBefore
  <2>4. QED
    BY <1>1, <1>2, <2>1, <2>2, <2>3
<1>4. full <= AddrBytes /\ (rest > 0 => full < AddrBytes)
  <2>1. 0 \in 0..(ByteBits - 1)
    BY <1>1
  <2>2. CASE full > AddrBytes
    <3>1. ByteBits * AddrBytes + 0 < prefix_len
      BY <1>1, <1>3, <2>1, <2>2
    <3>2. QED
      BY <1>1, <3>1
  <2>3. CASE full = AddrBytes
    BY <1>1, <1>2, <2>3
  <2>4. QED
    BY <1>1, <1>2, <2>2, <2>3
<1>5. ASSUME NEW q \in Nat, NEW j \in 0..(ByteBits - 1), NEW a \in Addr
      PROVE  Bit(a, ByteBits * q + j) = BitOf(a[q + 1], j)
  BY BitPosition DEF Bit, BitOf
<1>6. ASSUME NEW q \in Nat, q < AddrBytes, NEW a \in Addr
      PROVE  a[q + 1] \in Byte
  BY <1>1, <1>6 DEF Addr
<1>. HIDE DEF full, rest
<1>7. SameBits(addr, network, 0, prefix_len)
      <=> \A q \in Nat, j \in 0..(ByteBits - 1) :
             q < full \/ (q = full /\ j < rest)
             => BitOf(addr[q + 1], j) = BitOf(network[q + 1], j)
  <2>1. ASSUME SameBits(addr, network, 0, prefix_len),
               NEW q \in Nat, NEW j \in 0..(ByteBits - 1),
               q < full \/ (q = full /\ j < rest)
        PROVE  BitOf(addr[q + 1], j) = BitOf(network[q + 1], j)
    <3>1. ByteBits * q + j \in 0..(0 + prefix_len - 1)
      BY <1>1, <1>3, <2>1, BitPosition, SMTT(60)
    <3>2. Bit(addr, ByteBits * q + j) = Bit(network, ByteBits * q + j)
      BY <2>1, <3>1 DEF SameBits
    <3>3. QED
      BY <1>5, <3>2
  <2>2. ASSUME \A q \in Nat, j \in 0..(ByteBits - 1) :
                  q < full \/ (q = full /\ j < rest)
                  => BitOf(addr[q + 1], j) = BitOf(network[q + 1], j),
               NEW i \in 0..(0 + prefix_len - 1)
        PROVE  Bit(addr, i) = Bit(network, i)
    <3>. DEFINE q == i \div ByteBits
                j == i % ByteBits
    <3>1. i \in Nat /\ i < prefix_len
      BY <1>1
    <3>2. q \in Nat /\ j \in 0..(ByteBits - 1) /\ i = ByteBits * q + j
      BY <3>1, BytePosition
    <3>. HIDE DEF q, j
    <3>3. q < full \/ (q = full /\ j < rest)
      BY <1>3, <3>1, <3>2
    <3>4. QED
      BY <1>5, <2>2, <3>2, <3>3
  <2>3. QED
    BY <2>1, <2>2 DEF SameBits
<1>8. ASSUME NEW q \in Nat, q < full
      PROVE  addr[q + 1] = network[q + 1]
             <=> \A j \in 0..(ByteBits - 1) :
                    BitOf(addr[q + 1], j) = BitOf(network[q + 1], j)
  BY <1>1, <1>2, <1>4, <1>6, <1>8, ByteBit
<1>9. ASSUME rest > 0
      PROVE  mask(addr[full + 1], rest) = mask(network[full + 1], rest)
             <=> \A j \in 0..(rest - 1) :
                    BitOf(addr[full + 1], j) = BitOf(network[full + 1], j)
  <2>1. addr[full + 1] \in Byte /\ network[full + 1] \in Byte
    BY <1>2, <1>4, <1>6, <1>9
  <2>2. rest \in 0..ByteBits
    BY <1>1, <1>2
  <2>3. QED
    BY <2>1, <2>2, MaskedBits
<1>10. cidr_match(addr, network, prefix_len)
       <=> /\ \A q \in Nat : q < full => addr[q + 1] = network[q + 1]
           /\ rest > 0 => mask(addr[full + 1], rest) = mask(network[full + 1], rest)
  <2>1. cidr_match(addr, network, prefix_len)
        <=> /\ \A i \in 1..full : addr[i] = network[i]
            /\ rest > 0 /\ full < AddrBytes
               => mask(addr[full + 1], rest) = mask(network[full + 1], rest)
    BY DEF cidr_match, full, rest
  <2>2. (\A i \in 1..full : addr[i] = network[i])
        <=> \A q \in Nat : q < full => addr[q + 1] = network[q + 1]
    <3>1. \A q \in Nat : q < full => q + 1 \in 1..full
      BY <1>2
    <3>2. \A i \in 1..full : i - 1 \in Nat /\ i - 1 < full /\ (i - 1) + 1 = i
      BY <1>2
    <3>3. QED
      BY <3>1, <3>2
  <2>3. QED
    BY <1>4, <2>1, <2>2
<1>11. (\A q \in Nat, j \in 0..(ByteBits - 1) :
           q < full \/ (q = full /\ j < rest)
           => BitOf(addr[q + 1], j) = BitOf(network[q + 1], j))
       <=> /\ \A q \in Nat : q < full =>
                 \A j \in 0..(ByteBits - 1) :
                    BitOf(addr[q + 1], j) = BitOf(network[q + 1], j)
           /\ rest > 0 => \A j \in 0..(rest - 1) :
                             BitOf(addr[full + 1], j) = BitOf(network[full + 1], j)
  <2>1. \A j : j \in 0..(rest - 1) <=> (j \in 0..(ByteBits - 1) /\ j < rest)
    BY <1>1, <1>2
  <2>2. (\E j \in 0..(rest - 1) : TRUE) <=> rest > 0
    BY <1>1, <1>2
  <2>3. QED
    BY <1>2, <2>1, <2>2, ZenonT(30)
<1>12. QED
  BY <1>7, <1>8, <1>9, <1>10, <1>11, ZenonT(30)

(* The IPv4 addresses are those that agree with one of them in the bits    *)
(* before the IPv4 part.                                                   *)
LEMMA MappedBits ==
    ASSUME NEW addr \in Addr, NEW network \in Mapped
    PROVE  addr \in Mapped <=> SameBits(addr, network, 0, V4Offset)
<1>. DEFINE n == AddrBytes - V4Bytes
<1>1. n \in Nat /\ n <= AddrBytes /\ ByteBits \in Nat \ {0} /\ AddrBytes \in Nat
  BY IpAclAssumption
<1>2. V4Offset = ByteBits * n + 0 /\ 0 \in 0..(ByteBits - 1)
  BY <1>1 DEF V4Offset
<1>3. V4Offset \div ByteBits = n /\ V4Offset % ByteBits = 0 /\ V4Offset \in Nat
  BY <1>1, <1>2, BitPosition
<1>4. V4Offset <= AddrBytes * ByteBits
  <2>1. AddrBytes * ByteBits = ByteBits * n + ByteBits * V4Bytes
    BY IpAclAssumption
  <2>2. ByteBits * V4Bytes \in Nat
    BY IpAclAssumption
  <2>3. QED
    BY <1>1, <1>2, <2>1, <2>2
<1>5. network \in Addr /\ \A i \in 1..n : network[i] = V4Prefix[i]
  BY DEF Mapped
<1>6. V4Offset \in 0..(AddrBytes * ByteBits)
  BY <1>1, <1>3, <1>4
<1>7. SameBits(addr, network, 0, V4Offset) <=> cidr_match(addr, network, V4Offset)
  BY <1>5, <1>6, MatchIsBits
<1>8. cidr_match(addr, network, V4Offset) <=> \A i \in 1..n : addr[i] = network[i]
  BY <1>3 DEF cidr_match
<1>9. QED
  BY <1>5, <1>7, <1>8 DEF Mapped

(* parse_cidr and cidr_match together find the addresses that a line means *)
(* bit by bit.                                                             *)
LEMMA RangeMeaning ==
    ASSUME NEW line \in Line, line.kind \in {"cidr4", "cidr6"}, prefix_ok(line),
           NEW addr \in Addr
    PROVE  /\ line.addr \in Addr
           /\ parse_cidr(line) \in 0..(AddrBytes * ByteBits)
           /\ cidr_match(addr, line.addr, parse_cidr(line)) <=> Covers(line, addr)
<1>. DEFINE n == atoi(line.prefix)
<1>1. n \in Nat
  <2>1. line.prefix \in PrefixText
    BY DEF Line
  <2>2. n \in Int
    <3>1. line.prefix.numeric => line.prefix.value \in -1..(AddrBytes * ByteBits + 1)
      BY <2>1 DEF PrefixText
    <3>2. AddrBytes * ByteBits \in Nat
      BY IpAclAssumption
    <3>3. QED
      BY <3>1, <3>2 DEF atoi
  <2>3. QED
    BY <2>2 DEF prefix_ok
<1>2. CASE line.kind = "cidr6"
  <2>1. line.addr \in Addr
    BY <1>2 DEF Line
  <2>2. parse_cidr(line) = n /\ n \in 0..(AddrBytes * ByteBits)
    BY <1>1, <1>2, IpAclAssumption DEF parse_cidr, prefix_ok
  <2>3. Covers(line, addr) <=> SameBits(addr, line.addr, 0, n)
    BY <1>2 DEF Covers
  <2>4. QED
    BY <2>1, <2>2, <2>3, MatchIsBits
<1>3. CASE line.kind = "cidr4"
  <2>1. line.addr \in Mapped /\ line.addr \in Addr
    BY <1>3 DEF Line, Mapped
  <2>2. parse_cidr(line) = V4Offset + n /\ n <= V4Bytes * ByteBits
    BY <1>3 DEF parse_cidr, prefix_ok
  <2>3. V4Offset \in Nat /\ V4Offset + V4Bytes * ByteBits = AddrBytes * ByteBits
    <3>1. AddrBytes - V4Bytes \in Nat /\ V4Bytes \in Nat /\ AddrBytes \in Nat /\ ByteBits \in Nat
      BY IpAclAssumption
    <3>2. QED
      BY <3>1 DEF V4Offset
  <2>4. V4Offset + n \in 0..(AddrBytes * ByteBits)
    BY <1>1, <2>2, <2>3, IpAclAssumption
  <2>5. Covers(line, addr) <=> addr \in Mapped /\ SameBits(addr, line.addr, V4Offset, n)
    BY <1>3 DEF Covers
  <2>6. addr \in Mapped <=> SameBits(addr, line.addr, 0, V4Offset)
    BY <2>1, MappedBits
  <2>7. SameBits(addr, line.addr, 0, V4Offset + n)
        <=> SameBits(addr, line.addr, 0, V4Offset) /\ SameBits(addr, line.addr, V4Offset, n)
    <3>1. \A i : i \in 0..(0 + (V4Offset + n) - 1)
                 <=> i \in 0..(0 + V4Offset - 1) \/ i \in V4Offset..(V4Offset + n - 1)
      BY <1>1, <2>3
    <3>2. QED
      BY <3>1, ZenonT(30) DEF SameBits
  <2>8. QED
    BY <2>1, <2>2, <2>4, <2>5, <2>6, <2>7, MatchIsBits
<1>4. QED
  BY <1>2, <1>3
-----------------------------------------------------------------------------

(* The inductive invariant: a list holds the addresses and ranges of the   *)
(* lines it has taken, and nothing else.                                   *)
ExactLines(l) == {line \in lines[l] : line.kind \in {"ip4", "ip6"}}
RangeLines(l) == {line \in lines[l] : line.kind \in {"cidr4", "cidr6"}}

Entered ==
    \A l \in Lists :
       /\ lines[l] = ExactLines(l) \cup RangeLines(l)
       /\ \A line \in RangeLines(l) : prefix_ok(line)
       /\ ip_acl[l].exact = {line.addr : line \in ExactLines(l)}
       /\ ip_acl[l].cidr = {<<line.addr, parse_cidr(line)>> : line \in RangeLines(l)}

AclInv == AclTypeOK /\ Entered

LEMMA AclInitInv == AclInit => AclInv
BY IpAclAssumption DEF AclInit, AclInv, AclTypeOK, Entered, ExactLines, RangeLines, Lists

(* A line that is taken.                                                   *)
LEMMA TakesKeeps ==
    ASSUME AclInv, NEW line \in Line, phase \in Lists, line_num' \in 0..MaxLines,
           NEW acl, takes(line, acl),
           acl \in [exact : SUBSET Addr, cidr : SUBSET (Addr \X (0..(AddrBytes * ByteBits)))],
           \/ /\ line.kind \in {"ip4", "ip6"}
              /\ acl.exact = ip_acl[phase].exact \cup {line.addr}
              /\ acl.cidr = ip_acl[phase].cidr
           \/ /\ line.kind \in {"cidr4", "cidr6"} /\ prefix_ok(line)
              /\ acl.exact = ip_acl[phase].exact
              /\ acl.cidr = ip_acl[phase].cidr \cup {<<line.addr, parse_cidr(line)>>}
    PROVE  AclInv'
<1>1. /\ ip_acl'[phase] = acl /\ lines'[phase] = lines[phase] \cup {line}
      /\ \A l \in Lists \ {phase} : ip_acl'[l] = ip_acl[l] /\ lines'[l] = lines[l]
  BY DEF AclInv, AclTypeOK, takes
<1>2. AclTypeOK'
  BY DEF AclInv, AclTypeOK, takes
<1>3. ASSUME NEW l \in Lists
      PROVE  /\ lines'[l] = ExactLines(l)' \cup RangeLines(l)'
             /\ \A x \in RangeLines(l)' : prefix_ok(x)
             /\ ip_acl'[l].exact = {x.addr : x \in ExactLines(l)'}
             /\ ip_acl'[l].cidr = {<<x.addr, parse_cidr(x)>> : x \in RangeLines(l)'}
  <2>1. /\ lines[l] = ExactLines(l) \cup RangeLines(l)
        /\ \A x \in RangeLines(l) : prefix_ok(x)
        /\ ip_acl[l].exact = {x.addr : x \in ExactLines(l)}
        /\ ip_acl[l].cidr = {<<x.addr, parse_cidr(x)>> : x \in RangeLines(l)}
    BY DEF AclInv, Entered
  <2>2. CASE l # phase
    <3>1. ExactLines(l)' = ExactLines(l) /\ RangeLines(l)' = RangeLines(l)
      BY <1>1, <2>2 DEF ExactLines, RangeLines
    <3>2. QED
      BY <1>1, <2>1, <2>2, <3>1
  <2>3. CASE l = phase /\ line.kind \in {"ip4", "ip6"}
    <3>1. ExactLines(l)' = ExactLines(l) \cup {line} /\ RangeLines(l)' = RangeLines(l)
      BY <1>1, <2>3 DEF ExactLines, RangeLines
    <3>2. acl.exact = ip_acl[l].exact \cup {line.addr} /\ acl.cidr = ip_acl[l].cidr
      BY <2>3
    <3>3. {x.addr : x \in ExactLines(l)'} = {x.addr : x \in ExactLines(l)} \cup {line.addr}
      BY <3>1
    <3>4. /\ lines'[l] = ExactLines(l)' \cup RangeLines(l)'
          /\ \A x \in RangeLines(l)' : prefix_ok(x)
      <4>1. lines'[l] = lines[l] \cup {line}
        BY <1>1, <2>3
      <4>2. QED
        BY <2>1, <2>3, <3>1, <4>1, SMTT(60)
    <3>5. ip_acl'[l].cidr = {<<x.addr, parse_cidr(x)>> : x \in RangeLines(l)'}
      BY <1>1, <2>1, <2>3, <3>1, <3>2
    <3>6. ip_acl'[l].exact = {x.addr : x \in ExactLines(l)'}
      <4>1. ip_acl'[l].exact = ip_acl[l].exact \cup {line.addr}
        BY <1>1, <2>3, <3>2
      <4>2. QED
        BY <2>1, <3>3, <4>1, ZenonT(30)
    <3>7. QED
      BY <3>4, <3>5, <3>6
  <2>4. CASE l = phase /\ line.kind \in {"cidr4", "cidr6"} /\ prefix_ok(line)
    <3>1. ExactLines(l)' = ExactLines(l) /\ RangeLines(l)' = RangeLines(l) \cup {line}
      BY <1>1, <2>4 DEF ExactLines, RangeLines
    <3>2. acl.exact = ip_acl[l].exact
          /\ acl.cidr = ip_acl[l].cidr \cup {<<line.addr, parse_cidr(line)>>}
      BY <2>4
    <3>3. {<<x.addr, parse_cidr(x)>> : x \in RangeLines(l)'}
          = {<<x.addr, parse_cidr(x)>> : x \in RangeLines(l)}
            \cup {<<line.addr, parse_cidr(line)>>}
      BY <3>1
    <3>4. /\ lines'[l] = ExactLines(l)' \cup RangeLines(l)'
          /\ \A x \in RangeLines(l)' : prefix_ok(x)
      <4>1. lines'[l] = lines[l] \cup {line}
        BY <1>1, <2>4
      <4>2. \A x \in RangeLines(l)' : prefix_ok(x)
        BY <2>1, <2>4, <3>1
      <4>3. QED
        BY <2>1, <3>1, <4>1, <4>2, SMTT(60)
    <3>5. ip_acl'[l].exact = {x.addr : x \in ExactLines(l)'}
      BY <1>1, <2>1, <2>4, <3>1, <3>2
    <3>6. ip_acl'[l].cidr = {<<x.addr, parse_cidr(x)>> : x \in RangeLines(l)'}
      <4>1. ip_acl'[l].cidr = ip_acl[l].cidr \cup {<<line.addr, parse_cidr(line)>>}
        BY <1>1, <2>4, <3>2
      <4>2. QED
        BY <2>1, <3>3, <4>1, ZenonT(30)
    <3>7. QED
      BY <3>4, <3>5, <3>6
  <2>5. QED
    BY <2>2, <2>3, <2>4
<1>4. QED
  BY <1>2, <1>3 DEF AclInv, Entered

LEMMA AclStep == AclInv /\ [AclNext]_acl_vars => AclInv'
<1>. SUFFICES ASSUME AclInv, [AclNext]_acl_vars
              PROVE  AclInv'
  OBVIOUS
<1>1. ASSUME NEW line \in Line, add_exact_entry(line)
      PROVE  AclInv'
  <2>. DEFINE acl == [ip_acl[phase] EXCEPT !.exact = @ \cup {line.addr}]
  <2>1. takes(line, acl) /\ phase \in Lists /\ line.kind \in {"ip4", "ip6"}
        /\ line_num' \in 0..MaxLines
    BY <1>1, IpAclAssumption DEF add_exact_entry, fgets, AclInv, AclTypeOK
  <2>2. line.addr \in Addr
    BY <2>1 DEF Line, Mapped
  <2>3. acl \in [exact : SUBSET Addr, cidr : SUBSET (Addr \X (0..(AddrBytes * ByteBits)))]
        /\ acl.exact = ip_acl[phase].exact \cup {line.addr}
        /\ acl.cidr = ip_acl[phase].cidr
    BY <2>1, <2>2 DEF AclInv, AclTypeOK
  <2>. HIDE DEF acl
  <2>4. QED
    BY <2>1, <2>3, TakesKeeps
<1>2. ASSUME NEW line \in Line, add_cidr_entry(line)
      PROVE  AclInv'
  <2>. DEFINE acl == [ip_acl[phase] EXCEPT !.cidr = @ \cup {<<line.addr, parse_cidr(line)>>}]
  <2>1. takes(line, acl) /\ phase \in Lists /\ line.kind \in {"cidr4", "cidr6"}
        /\ prefix_ok(line) /\ line_num' \in 0..MaxLines
    BY <1>2, IpAclAssumption DEF add_cidr_entry, fgets, AclInv, AclTypeOK
  <2>2. line.addr \in Addr /\ parse_cidr(line) \in 0..(AddrBytes * ByteBits)
    <3>1. line.addr \in Addr
      BY <2>1 DEF Line, Mapped
    <3>2. QED
      BY <2>1, <3>1, RangeMeaning
  <2>3. acl \in [exact : SUBSET Addr, cidr : SUBSET (Addr \X (0..(AddrBytes * ByteBits)))]
        /\ acl.exact = ip_acl[phase].exact
        /\ acl.cidr = ip_acl[phase].cidr \cup {<<line.addr, parse_cidr(line)>>}
    BY <2>1, <2>2 DEF AclInv, AclTypeOK
  <2>. HIDE DEF acl
  <2>4. QED
    BY <2>1, <2>3, TakesKeeps
<1>3. ASSUME UNCHANGED <<ip_acl, lines>>, phase' \in Lists \cup {"serving"},
             line_num' \in 0..MaxLines
      PROVE  AclInv'
  BY <1>3 DEF AclInv, AclTypeOK, Entered, ExactLines, RangeLines
<1>4. ASSUME NEW line \in Line, skip_line(line)
      PROVE  AclInv'
  BY <1>3, <1>4, IpAclAssumption DEF skip_line, fgets, AclInv, AclTypeOK
<1>5. CASE load_ends
  BY <1>3, <1>5 DEF load_ends, AclInv, AclTypeOK, Lists
<1>6. CASE UNCHANGED acl_vars
  BY <1>3, <1>6 DEF acl_vars, AclInv, AclTypeOK
<1>7. QED
  BY <1>1, <1>2, <1>4, <1>5, <1>6 DEF AclNext

(* What is entered finds what the lines mean.                              *)
LEMMA EnteredListed == AclInv => ContainsListed
<1>. SUFFICES ASSUME AclInv, NEW l \in Lists, NEW addr \in Addr
              PROVE  ip_acl_contains(ip_acl[l], addr) <=> Listed(l, addr)
  BY DEF ContainsListed
<1>1. lines[l] \subseteq Line
  BY DEF AclInv, AclTypeOK
<1>2. /\ lines[l] = ExactLines(l) \cup RangeLines(l)
      /\ \A x \in RangeLines(l) : prefix_ok(x)
      /\ ip_acl[l].exact = {x.addr : x \in ExactLines(l)}
      /\ ip_acl[l].cidr = {<<x.addr, parse_cidr(x)>> : x \in RangeLines(l)}
  BY DEF AclInv, Entered
<1>3. ASSUME NEW x \in ExactLines(l)
      PROVE  Covers(x, addr) <=> addr = x.addr
  BY DEF ExactLines, Covers
<1>4. ASSUME NEW x \in RangeLines(l)
      PROVE  Covers(x, addr) <=> cidr_match(addr, x.addr, parse_cidr(x))
  <2>1. x \in Line /\ x.kind \in {"cidr4", "cidr6"} /\ prefix_ok(x)
    BY <1>1, <1>2 DEF RangeLines
  <2>2. QED
    BY <2>1, RangeMeaning
<1>5. addr \in ip_acl[l].exact <=> \E x \in ExactLines(l) : Covers(x, addr)
  BY <1>2, <1>3
<1>6. (\E e \in ip_acl[l].cidr : cidr_match(addr, e[1], e[2]))
      <=> \E x \in RangeLines(l) : Covers(x, addr)
  <2>1. ASSUME NEW x \in RangeLines(l)
        PROVE  <<x.addr, parse_cidr(x)>>[1] = x.addr
               /\ <<x.addr, parse_cidr(x)>>[2] = parse_cidr(x)
    OBVIOUS
  <2>2. QED
    BY <1>2, <1>4, <2>1
<1>7. Listed(l, addr) <=> (\E x \in ExactLines(l) : Covers(x, addr))
                          \/ (\E x \in RangeLines(l) : Covers(x, addr))
  BY <1>2 DEF Listed
<1>8. QED
  BY <1>5, <1>6, <1>7 DEF ip_acl_contains

(* The lists hold what was taken from their files, after any number of     *)
(* lines and whatever was skipped for want of memory.                      *)
THEOREM AclInvariant == AclSpec => []AclInv
BY AclInitInv, AclStep, PTL DEF AclSpec

(* ip_acl_contains finds in a list exactly the clients that the lines      *)
(* taken into it mean bit by bit, for any width of addresses, bytes and    *)
(* IPv4 parts: the 16, 8 and 4 of ip_acl.c among them.                     *)
THEOREM ContainsListedAlways == AclSpec => []ContainsListed
BY AclInvariant, EnteredListed, PTL

(* ip_acl_check follows.                                                   *)
LEMMA ListedVerdict == ContainsListed => VerdictSound
BY DEF ContainsListed, VerdictSound, ip_acl_check, Lists

(* ip_acl_check blocks the clients that a block line covers and no others, *)
(* and lets past the rate limiter only those that an allow line and no     *)
(* block line covers.                                                      *)
THEOREM VerdictSoundAlways == AclSpec => []VerdictSound
BY ContainsListedAlways, ListedVerdict, PTL
=============================================================================
