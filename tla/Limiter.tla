------------------------------- MODULE Limiter ------------------------------
(***************************************************************************)
(* The send-rate gate: one token bucket and one 429 circuit breaker for    *)
(* each endpoint class, on the monotonic clock.  Time is relative: a       *)
(* bucket keeps the ticks since its last refill, a breaker the ticks it    *)
(* stays open.                                                             *)
(***************************************************************************)
EXTENDS Integers, FiniteSets

CONSTANTS Classes,       \* endpoint classes; "order" is one of them
          PerSec,        \* tokens per second of each class
          ReservedExit,  \* reserved_exit_order
          Second,        \* ticks in a second (milliseconds in the code)
          TripAfter, BaseCooldown, MaxCooldown,  \* BreakerConfig
          IntMax         \* where the breaker's counters saturate

ASSUME LimiterAssumption ==
    /\ "order" \in Classes /\ PerSec \in [Classes -> Int]
    /\ ReservedExit \in Int /\ Second \in Nat \ {0}
    /\ IntMax \in Nat \ {0}
    /\ \A i \in {TripAfter, BaseCooldown, MaxCooldown} : i \in Int /\ i <= IntMax

VARIABLES bucket, breaker,
          exitLane,  \* a bucket of the reserved tokens that only exits draw from
          hits,      \* 429 answers of a class since its last success (history)
          quiet      \* ticks since the last of them (history)

limiterVars == <<bucket, breaker, exitLane, hits, quiet>>

Least(a, b) == IF a < b THEN a ELSE b
Most(a, b) == IF a > b THEN a ELSE b

\* One token accrues every 1000 / per_sec milliseconds, in integers.
order_capacity == Most(Most(PerSec["order"], ReservedExit), 1)
capacity(c) == IF c = "order" THEN order_capacity ELSE Most(PerSec[c], 0)

\* Mutant of refill_period: a fixed budget, nothing accrues.
NoPeriod(c) == 0

refill_period(c) == IF capacity(c) <= 0 THEN 0 ELSE Second \div capacity(c)

clamp_reserved == Most(Least(ReservedExit, order_capacity), 0)
reserved_exit(c) == IF c = "order" THEN clamp_reserved ELSE 0

\* min(base * 2^(trips-1), max), clamped to at least base.
cooldown_base == Most(BaseCooldown, 1)
cooldown_cap == IF MaxCooldown >= cooldown_base THEN MaxCooldown ELSE cooldown_base
cooldown[trips \in Nat] ==
    IF trips <= 1 THEN cooldown_base
    ELSE IF cooldown[trips - 1] > cooldown_cap \div 2 THEN cooldown_cap
    ELSE Least(2 * cooldown[trips - 1], cooldown_cap)
cooldown_seconds_for(trips) == cooldown[trips]

trip_threshold == Most(TripAfter, 1)

\* Bounds of the histories, past which nothing distinguishes values.
MaxQuiet == cooldown_cap * Second
MaxHits == trip_threshold + Most(MaxCooldown, 0)

FullBucket(c) == [tokens |-> capacity(c), elapsed |-> 0]
ClosedBreaker == [run |-> 0, trips |-> 0, open |-> 0]

LimiterFresh ==
    [bucket |-> [c \in Classes |-> FullBucket(c)],
     breaker |-> [c \in Classes |-> ClosedBreaker]]

LimiterInit ==
    /\ bucket = LimiterFresh.bucket /\ breaker = LimiterFresh.breaker
    /\ exitLane = [tokens |-> clamp_reserved, phase |-> 0]
    /\ hits = [c \in Classes |-> 0] /\ quiet = [c \in Classes |-> MaxQuiet]

-----------------------------------------------------------------------------
\* Mutant of refill: the remainder of a period is thrown away.
RefillNow(c, b) ==
    LET p == refill_period(c)
        whole == IF p <= 0 THEN 0 ELSE b.elapsed \div p
    IN  IF whole = 0 THEN [b EXCEPT !.elapsed = 0]
        ELSE [tokens |-> Least(b.tokens + whole, capacity(c)), elapsed |-> 0]

\* Whole periods are credited up to the capacity; the stamp moves by exactly
\* those periods, so the remainder of a period is kept.
refill(c, b) ==
    LET p == refill_period(c)
        whole == IF p <= 0 THEN 0 ELSE b.elapsed \div p
    IN  IF whole = 0 THEN b
        ELSE [tokens |-> b.tokens + Least(whole, capacity(c) - b.tokens),
              elapsed |-> b.elapsed - whole * p]

lane_floor(c, is_exit) == IF is_exit THEN 0 ELSE reserved_exit(c)

try_acquire(c, b, is_exit) ==
    LET r == refill(c, b)
    IN  IF r.tokens > lane_floor(c, is_exit)
        THEN [ok |-> TRUE, bucket |-> [r EXCEPT !.tokens = @ - 1]]
        ELSE [ok |-> FALSE, bucket |-> r]

is_open(c) == breaker[c].open > 0

\* Exits pass an open breaker; only an empty bucket stops them.
denied_by_breaker(c, is_exit) == ~is_exit /\ is_open(c)

Granted(c, is_exit) ==
    ~denied_by_breaker(c, is_exit) /\ try_acquire(c, bucket[c], is_exit).ok

acquire(c, is_exit) ==
    /\ bucket' = IF denied_by_breaker(c, is_exit) THEN bucket
                 ELSE [bucket EXCEPT ![c] = try_acquire(c, @, is_exit).bucket]
    /\ exitLane' = IF c = "order" /\ is_exit /\ Granted(c, is_exit)
                   THEN [exitLane EXCEPT !.tokens = Most(@ - 1, 0)] ELSE exitLane
    /\ UNCHANGED <<breaker, hits, quiet>>

\* Mutant of record_429: the breaker opens once and is not extended.
OpensOnce(c) ==
    LET b == breaker[c]
        run == Least(b.run + 1, IntMax)
        trips == IF run = trip_threshold THEN Least(b.trips + 1, IntMax) ELSE b.trips
    IN  /\ breaker' = [breaker EXCEPT ![c] =
              [run |-> run, trips |-> trips,
               open |-> IF run = trip_threshold
                        THEN cooldown_seconds_for(trips) * Second ELSE b.open]]
        /\ hits' = [hits EXCEPT ![c] = Least(@ + 1, MaxHits)]
        /\ quiet' = [quiet EXCEPT ![c] = 0]
        /\ UNCHANGED <<bucket, exitLane>>

record_429(c) ==
    LET b == breaker[c]
        run == Least(b.run + 1, IntMax)
        tripped == run >= trip_threshold
        trips == IF tripped THEN Least(b.trips + 1, IntMax) ELSE b.trips
    IN  /\ breaker' = [breaker EXCEPT ![c] =
              [run |-> run, trips |-> trips,
               open |-> IF tripped THEN cooldown_seconds_for(trips) * Second ELSE b.open]]
        /\ hits' = [hits EXCEPT ![c] = Least(@ + 1, MaxHits)]
        /\ quiet' = [quiet EXCEPT ![c] = 0]
        /\ UNCHANGED <<bucket, exitLane>>

record_success(c) ==
    /\ breaker' = [breaker EXCEPT ![c] = ClosedBreaker]
    /\ hits' = [hits EXCEPT ![c] = 0]
    /\ UNCHANGED <<bucket, exitLane, quiet>>

\* One tick of the steady clock.  A bucket's `elapsed' is kept below what can
\* still matter: beyond a full bucket only the remainder of a period counts.
LimiterTick ==
    /\ bucket' = [c \in Classes |->
          LET p == refill_period(c)
              e == bucket[c].elapsed + 1
              full == p * (capacity(c) + 1)
          IN  [bucket[c] EXCEPT !.elapsed = IF p <= 0 THEN 0
                                            ELSE IF e >= full THEN e - p ELSE e]]
    /\ breaker' = [c \in Classes |-> [breaker[c] EXCEPT !.open = Most(@ - 1, 0)]]
    /\ quiet' = [c \in Classes |-> Least(quiet[c] + 1, MaxQuiet)]
    /\ exitLane' =
          LET p == Second \div order_capacity
          IN  IF p = 0 THEN exitLane
              ELSE IF exitLane.phase + 1 < p THEN [exitLane EXCEPT !.phase = @ + 1]
              ELSE [tokens |-> Least(exitLane.tokens + 1, clamp_reserved), phase |-> 0]
    /\ UNCHANGED hits

\* A new process has a full bucket and a closed breaker.
LimiterRestart ==
    /\ bucket' = LimiterFresh.bucket /\ breaker' = LimiterFresh.breaker
    /\ exitLane' = [tokens |-> clamp_reserved, phase |-> 0]
    /\ hits' = [c \in Classes |-> 0] /\ quiet' = [c \in Classes |-> MaxQuiet]

LimiterTypeOK ==
    /\ \A c \in Classes :
          /\ bucket[c].tokens \in 0 .. capacity(c) /\ bucket[c].elapsed \in Nat
          /\ breaker[c] \in [run : 0 .. IntMax, trips : 0 .. IntMax, open : 0 .. MaxQuiet]
          /\ hits[c] \in 0 .. MaxHits /\ quiet[c] \in 0 .. MaxQuiet
    /\ exitLane.tokens \in 0 .. clamp_reserved
=============================================================================
