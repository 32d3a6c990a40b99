---------------------------- MODULE RateLimiter -----------------------------
(* The token bucket of one caller and resource.  The caller hands in the   *)
(* time, and nothing says that it never goes back.                         *)
EXTENDS Nothing, Integers, Sequences, FiniteSetsExt

CONSTANTS
    Rate, Burst,
    Costs,
    MaxStamp,    \* bound on the times handed in
    MaxGranted  \* bound on the history

ASSUME RateAssumption ==
    Rate \in Nat /\ Burst \in Nat /\ Costs \subseteq Nat /\ MaxStamp \in Nat /\ None \notin Nat

VARIABLES
    tokens,
    lastRefill,     \* None before the first call
    latest,         \* the latest time handed in: history
    granted         \* the calls that were let through, [at, cost, total], with
                    \* the cost of each and of all so far: history

rateVars == <<tokens, lastRefill, latest, granted>>

RateInit == tokens = Burst /\ lastRefill = None /\ latest = 0 /\ granted = <<>>

Total == IF granted = <<>> THEN 0 ELSE granted[Len(granted)].total

Accrued(time) == Min({Burst, tokens + (time - lastRefill) * Rate})

\* Mutant: the anchor follows the clock back.
RefillBack(time) ==
    IF lastRefill = None \/ time <= lastRefill THEN [tokens |-> tokens, at |-> time]
    ELSE [tokens |-> Accrued(time), at |-> time]

\* What the bucket holds, and since when, at a time.
Refill(time) ==
    IF lastRefill = None THEN [tokens |-> tokens, at |-> time]
    ELSE IF time > lastRefill THEN [tokens |-> Accrued(time), at |-> time]
    ELSE [tokens |-> tokens, at |-> lastRefill]

Acquire(time, cost) ==
    LET bucket == Refill(time) IN
    /\ lastRefill' = bucket.at
    /\ latest' = Max({latest, time})
    /\ IF bucket.tokens >= cost
       THEN /\ tokens' = bucket.tokens - cost
            /\ granted' = Append(granted, [at |-> latest', cost |-> cost, total |-> Total + cost])
       ELSE /\ tokens' = bucket.tokens
            /\ UNCHANGED granted

RateNext == Len(granted) < MaxGranted /\ \E time \in 0..MaxStamp, cost \in Costs : Acquire(time, cost)

RateSpec == RateInit /\ [][RateNext]_rateVars

\* Whatever times are handed in, no stretch of time lets through more than a
\* full bucket and what accrues meanwhile.
RateBounded ==
    \A i, j \in DOMAIN granted : i <= j =>
        granted[j].total - granted[i].total + granted[i].cost
            <= Burst + Rate * (granted[j].at - granted[i].at)
=============================================================================
