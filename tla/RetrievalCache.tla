--------------------------- MODULE RetrievalCache ---------------------------
(* The cache of retrieval results: entries in the order of their last use, *)
(* with a time to live and the version they were made under.               *)
EXTENDS Nothing, Integers, Sequences, SequencesExt, Ordering

CONSTANTS
    Keys, Versions,
    MaxSize, Ttl,
    MaxTime, MaxCalls     \* bounds on the clock and on the calls

ASSUME CacheAssumption ==
    /\ IsFiniteSet(Keys) /\ MaxSize \in Nat /\ Ttl \in Nat
    /\ None \notin [key : Keys, value : Nat, expires : Nat, version : Versions]
    /\ None \notin [value : Nat, at : Nat, version : Versions]

VARIABLES
    entries,    \* oldest use first: [key, value, expires, version]
    now,
    served,     \* of the last get: None or [key, value, version]
    puts,       \* key -> None or its last put, until it is taken back: history
    since,      \* key -> the other keys used since its last use: history
    calls

cacheVars == <<entries, now, served, puts, since, calls>>

CacheInit ==
    /\ entries = <<>> /\ now = 0 /\ served = None
    /\ puts = [k \in Keys |-> None] /\ since = [k \in Keys |-> {}]
    /\ calls = 0

Called == calls < MaxCalls /\ calls' = calls + 1

Touched(k) == since' = [o \in Keys |-> IF o = k THEN {} ELSE since[o] \union {k}]

Without(k) == Picked(entries, {n \in DOMAIN entries : entries[n].key # k})

Entry(k) == LET at == {e \in ToSet(entries) : e.key = k} IN
            IF at = {} THEN None ELSE CHOOSE e \in at : TRUE

\* Mutant: the version an entry was made under is not asked for.
StaleByTime(e, version) == e.expires <= now

Stale(e, version) == e.expires <= now \/ e.version # version

Get(k, version) ==
    LET e == Entry(k) IN
    /\ Called
    /\ IF e = None
       THEN served' = None /\ UNCHANGED <<entries, puts, since>>
       ELSE IF Stale(e, version)
       THEN /\ entries' = Without(k) /\ served' = None
            /\ puts' = [puts EXCEPT ![k] = None]
            /\ UNCHANGED since
       ELSE /\ entries' = Append(Without(k), e)
            /\ served' = [key |-> k, value |-> e.value, version |-> version]
            /\ Touched(k)
            /\ UNCHANGED puts
    /\ UNCHANGED now

\* The value is the number of the call that put it.
Put(k, version) ==
    LET e   == [key |-> k, value |-> calls, expires |-> now + Ttl, version |-> version]
        all == Append(Without(k), e)
        over == IF Len(all) > MaxSize THEN Len(all) - MaxSize ELSE 0 IN
    /\ Called
    /\ entries' = SubSeq(all, over + 1, Len(all))
    /\ served' = None
    /\ puts' = [puts EXCEPT ![k] = [value |-> calls, at |-> now, version |-> version]]
    /\ Touched(k)
    /\ UNCHANGED now

InvalidateVersion(version) ==
    /\ Called
    /\ entries' = Picked(entries, {n \in DOMAIN entries : entries[n].version # version})
    /\ puts' = [k \in Keys |-> IF puts[k] # None /\ puts[k].version = version THEN None
                                ELSE puts[k]]
    /\ served' = None
    /\ UNCHANGED <<now, since>>

Clear ==
    /\ Called
    /\ entries' = <<>> /\ puts' = [k \in Keys |-> None] /\ served' = None
    /\ UNCHANGED <<now, since>>

Tick == now < MaxTime /\ now' = now + 1 /\ served' = None /\ UNCHANGED <<entries, puts, since, calls>>

CacheNext ==
    \/ \E k \in Keys, version \in Versions : Get(k, version) \/ Put(k, version)
    \/ \E version \in Versions : InvalidateVersion(version)
    \/ Clear \/ Tick

CacheSpec == CacheInit /\ [][CacheNext]_cacheVars

\* A result that is served is the one last put under its key, made under the
\* version asked for and younger than its time to live.  A result nobody
\* took back is still there unless as many other keys as the cache holds
\* were put or served since it was: eviction takes the least recently used.
CacheServes ==
    /\ served # None =>
        LET put == puts[served.key] IN
        /\ put # None /\ put.value = served.value
        /\ put.version = served.version /\ now < put.at + Ttl
    /\ \A k \in Keys : (puts[k] # None /\ Cardinality(since[k]) < MaxSize) =>
        Entry(k) # None /\ Entry(k).value = puts[k].value
=============================================================================
