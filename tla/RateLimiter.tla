---------------------------- MODULE RateLimiter ----------------------------
(***************************************************************************)
(* The per-worker rate limiter of rate_limiter.c: a bounded table with one *)
(* token bucket per client address.                                        *)
(*                                                                         *)
(* Time is a number of ticks, TicksPerSecond of them to a second, so that  *)
(* the truncation to whole seconds of last_request shows.  Tokens are      *)
(* integers in a unit small enough to be exact: 1.0 token is Token units   *)
(* and a tick earns Rate units.                                            *)
(*                                                                         *)
(* The code reads two clocks.  Buckets are stamped with CLOCK_MONOTONIC,   *)
(* which on Linux starts near zero when the machine boots; the cleanup     *)
(* compares the stamps with time(NULL).  Epoch is the difference, in       *)
(* seconds: decades on a machine whose clock is set, about zero on one     *)
(* without a battery-backed clock before it hears from a time server.      *)
(***************************************************************************)
EXTENDS Integers, FiniteSets

CONSTANTS IP,               \* client addresses (RateLimitKey)
          MaxEntries,       \* RATE_LIMITER_MAX_ENTRIES
          EntryTTL,         \* RATE_LIMITER_ENTRY_TTL, in seconds
          TicksPerSecond,
          Token,            \* units in one token
          Rate,             \* rl->rate, in units per tick
          ConfiguredBurst,  \* rate_limit_burst, in units
          CleanupInterval,  \* period of the worker's cleanup timer, in ticks
          Epoch,            \* wall clock minus monotonic clock, in seconds
          MaxTime,          \* bound on the clock
          MaxSpent          \* bound on what one address is granted, in units

(* A rate of zero disables the limiter, which then admits everyone and     *)
(* touches none of this state.                                             *)
ASSUME RateLimiterAssumption ==
    /\ IsFiniteSet(IP)
    /\ MaxEntries \in Nat
    /\ EntryTTL \in Nat
    /\ TicksPerSecond \in Nat \ {0}
    /\ Token \in Nat \ {0}
    /\ Rate \in Nat \ {0}
    /\ ConfiguredBurst \in Nat
    /\ CleanupInterval \in Nat
    /\ Epoch \in Nat
    /\ MaxTime \in Nat
    /\ MaxSpent \in Nat

VARIABLES
    table,                  \* rl->buckets, one place for each address
    num_entries,            \* rl->num_entries
    now,                    \* CLOCK_MONOTONIC
    cleanup_at,             \* when the worker's cleanup timer is due
    spent,                  \* history: units each address was granted
    drops,                  \* history: times its entry was removed
    last_grant              \* history: when it was last granted a request

vars == <<table, num_entries, now, cleanup_at, spent, drops, last_grant>>

Never  == -1
Entry  == [used : BOOLEAN, tokens : Nat, last_update : Nat, last_request : Nat]
Unused == [used |-> FALSE, tokens |-> 0, last_update |-> 0, last_request |-> 0]

Tracked == {ip \in IP : table[ip].used}

(* Seconds of the two clocks.                                              *)
get_time_precise == now
seconds  == now \div TicksPerSecond
time     == seconds + Epoch

(* rl->burst: "Default burst = rate".                                      *)
burst == IF ConfiguredBurst > 0 THEN ConfiguredBurst ELSE Rate * TicksPerSecond

TypeOK ==
    /\ table \in [IP -> Entry]
    /\ num_entries \in Int
    /\ now \in 0..MaxTime
    /\ cleanup_at \in Nat
    /\ spent \in [IP -> Nat]
    /\ drops \in [IP -> Nat]
    /\ last_grant \in [IP -> Nat \cup {Never}]

(* rate_limiter_init, in a worker started at some time after boot.         *)
Init ==
    /\ table = [ip \in IP |-> Unused]
    /\ num_entries = 0
    /\ now = 0
    /\ cleanup_at = CleanupInterval
    /\ spent = [ip \in IP |-> 0]
    /\ drops = [ip \in IP |-> 0]
    /\ last_grant = [ip \in IP |-> Never]
-----------------------------------------------------------------------------
(* What a cleanup removes.                                                 *)
expired == {ip \in Tracked : table[ip].last_request < time - EntryTTL}

(* Faulty variant: num_entries is not brought down.                        *)
FaultyCleanup ==
    [table |-> [ip \in IP |-> IF ip \in expired THEN Unused ELSE table[ip]],
     num_entries |-> num_entries]

rate_limiter_cleanup ==
    [table |-> [ip \in IP |-> IF ip \in expired THEN Unused ELSE table[ip]],
     num_entries |-> num_entries - Cardinality(expired)]

(* get_entry looks an address up; when it is new and the table is full, it *)
(* runs a cleanup first.                                                   *)
lookup(ip) ==
    IF table[ip].used \/ num_entries < MaxEntries
    THEN [table |-> table, num_entries |-> num_entries]
    ELSE rate_limiter_cleanup

(* Faulty variant: only whole seconds earn tokens.                         *)
FaultyReplenish(e) ==
    LET earned == Rate * TicksPerSecond * ((now - e.last_update) \div TicksPerSecond)
    IN  IF e.tokens + earned > burst THEN burst ELSE e.tokens + earned

(* Tokens of an entry after replenish_tokens.                              *)
replenish_tokens(e) ==
    LET new_tokens == e.tokens + Rate * (now - e.last_update)
    IN  IF now <= e.last_update THEN e.tokens
        ELSE IF new_tokens > burst THEN burst ELSE new_tokens

(* The entry rate_limiter_allow works on, stamped and replenished: the one *)
(* found, or a new one with a full bucket.                                 *)
touched(e) ==
    [used |-> TRUE,
     tokens |-> IF e.used THEN replenish_tokens(e) ELSE burst,
     last_update |-> now,
     last_request |-> seconds]

Removed(ip, g) == table[ip].used /\ ~g.table[ip].used
Forgets(g) == drops' = [i \in IP |-> drops[i] + (IF Removed(i, g) THEN 1 ELSE 0)]
Counted(ip, g) == IF g.table[ip].used THEN g.num_entries ELSE g.num_entries + 1

(* There is room for the entry, and memory.                                *)
Room(ip, g) == g.table[ip].used \/ g.num_entries < MaxEntries

(* Faulty variant: a fraction of a token is enough.                        *)
FaultyEnough(e) == e.tokens > 0

enough(e) == e.tokens >= Token

(* Faulty variant: a granted request costs nothing.                        *)
FaultyAllow(ip) ==
    LET g == lookup(ip)
        e == touched(g.table[ip])
    IN  /\ Room(ip, g)
        /\ enough(e)
        /\ spent[ip] < MaxSpent
        /\ table' = [g.table EXCEPT ![ip] = e]
        /\ num_entries' = Counted(ip, g)
        /\ Forgets(g)
        /\ spent' = [spent EXCEPT ![ip] = @ + Token]
        /\ last_grant' = [last_grant EXCEPT ![ip] = now]
        /\ UNCHANGED <<now, cleanup_at>>

(* rate_limiter_allow returns 1: the bucket has a token, which is spent.   *)
rate_limiter_allow(ip) ==
    LET g == lookup(ip)
        e == touched(g.table[ip])
    IN  /\ Room(ip, g)
        /\ enough(e)
        /\ spent[ip] < MaxSpent
        /\ table' = [g.table EXCEPT ![ip] = [e EXCEPT !.tokens = @ - Token]]
        /\ num_entries' = Counted(ip, g)
        /\ Forgets(g)
        /\ spent' = [spent EXCEPT ![ip] = @ + Token]
        /\ last_grant' = [last_grant EXCEPT ![ip] = now]
        /\ UNCHANGED <<now, cleanup_at>>

(* It returns 0 because the bucket is empty ...                            *)
rate_limited(ip) ==
    LET g == lookup(ip)
        e == touched(g.table[ip])
    IN  /\ Room(ip, g)
        /\ ~enough(e)
        /\ table' = [g.table EXCEPT ![ip] = e]
        /\ num_entries' = Counted(ip, g)
        /\ Forgets(g)
        /\ UNCHANGED <<now, cleanup_at, spent, last_grant>>

(* ... or because there is no entry: the table is still full after the     *)
(* cleanup, or malloc fails.                                               *)
untracked(ip) ==
    LET g == lookup(ip)
    IN  /\ ~g.table[ip].used
        /\ table' = g.table
        /\ num_entries' = g.num_entries
        /\ Forgets(g)
        /\ UNCHANGED <<now, cleanup_at, spent, last_grant>>

(* The worker's timer.                                                     *)
cleanup_timer_cb ==
    /\ now >= cleanup_at
    /\ cleanup_at' = cleanup_at + CleanupInterval
    /\ table' = rate_limiter_cleanup.table
    /\ num_entries' = rate_limiter_cleanup.num_entries
    /\ Forgets(rate_limiter_cleanup)
    /\ UNCHANGED <<now, spent, last_grant>>

Tick ==
    /\ now < MaxTime
    /\ now' = now + 1
    /\ UNCHANGED <<table, num_entries, cleanup_at, spent, drops, last_grant>>

Next ==
    \/ \E ip \in IP : rate_limiter_allow(ip) \/ rate_limited(ip) \/ untracked(ip)
    \/ cleanup_timer_cb
    \/ Tick

Spec == Init /\ [][Next]_vars
-----------------------------------------------------------------------------
(* num_entries is the number of entries and never exceeds the limit,       *)
(* whichever of the two callers runs the cleanup: a count that drifts      *)
(* would in the end turn every new client away, or let the table grow.     *)
TableExact == num_entries = Cardinality(Tracked) /\ num_entries <= MaxEntries

(* What a client obtains is bounded by its rate and one full bucket, plus  *)
(* one more for each time its entry was removed from the table.            *)
RateBound == \A ip \in IP : spent[ip] <= burst * (1 + drops[ip]) + Rate * now

(* A client that keeps to the configured rate is not refused: a tracked    *)
(* request is turned down only if one was granted less than the time of    *)
(* one token ago, however many refused requests came in between.           *)
SpacedRequestsPass ==
    [][\A ip \in IP : rate_limited(ip)
          => last_grant[ip] # Never /\ Rate * (now - last_grant[ip]) < Token]_vars

(* "Entries expire after 60 seconds of inactivity": an entry is removed    *)
(* only if its client has been silent for the TTL.                         *)
ExpireOnlyIdle ==
    [][\A ip \in IP : (table[ip].used /\ ~table'[ip].used)
          => now - table[ip].last_update >= EntryTTL * TicksPerSecond]_vars
=============================================================================
