------------------------------ MODULE WorkPool ------------------------------
(***************************************************************************)
(* TaskScheduler over WorkerPool: a heap of prioritised tasks, a drain     *)
(* that hands all of it to the pool, and a semaphore whose waiters are     *)
(* served in turn.  A failed attempt waits outside the semaphore and       *)
(* queues again.                                                           *)
(***************************************************************************)
EXTENDS Nothing, Integers, Sequences, SequencesExt, Ordering

CONSTANTS
    Tasks,          \* each submitted once
    Prio,           \* task -> priority
    WorkerCount,
    MaxRetries

ASSUME PoolAssumption ==
    /\ IsFiniteSet(Tasks) /\ Prio \in [Tasks -> Int]
    /\ WorkerCount \in Nat /\ MaxRetries \in Nat
    /\ None \notin {"waiting", "result", "error", "cancelled"}

VARIABLES
    heap,           \* tasks pushed and not drained
    seq,            \* the tasks in the order of their submission
    draining,       \* whether a drain is scheduled
    line,           \* who waits for the semaphore, in order
    running,        \* who holds it
    backoff,        \* who sleeps between two attempts
    attempt,        \* task -> attempts that failed
    future,         \* task -> None, "waiting", "result", "error", "cancelled"
    begun,          \* the tasks in the order of their first attempts
    stats

poolVars == <<heap, seq, draining, line, running, backoff, attempt, future, begun, stats>>

PoolInit ==
    /\ heap = {} /\ seq = <<>> /\ draining = FALSE /\ line = <<>> /\ running = {}
    /\ backoff = {} /\ begun = <<>>
    /\ attempt = [t \in Tasks |-> 0]
    /\ future = [t \in Tasks |-> None]
    /\ stats = [submitted |-> 0, completed |-> 0, failed |-> 0, retried |-> 0, inflight |-> 0]

Place(t) == CHOOSE n \in DOMAIN seq : seq[n] = t

\* Mutant: the heap gives the lowest priority first.
LowestFirst(a, b) == Prio[a] < Prio[b] \/ (Prio[a] = Prio[b] /\ Place(a) < Place(b))

\* The order of sort_key, (-priority, seq).
Before(a, b) ==
    \/ 0 - Prio[a] < 0 - Prio[b]
    \/ Prio[a] = Prio[b] /\ Place(a) < Place(b)

Submit(t) ==
    /\ future[t] = None
    /\ seq' = Append(seq, t)
    /\ heap' = heap \union {t}
    /\ draining' = TRUE
    /\ future' = [future EXCEPT ![t] = "waiting"]
    /\ UNCHANGED <<line, running, backoff, attempt, begun, stats>>

\* One synchronous loop: every task becomes a coroutine at the semaphore.
Drain ==
    /\ draining
    /\ draining' = FALSE
    /\ heap' = {}
    /\ line' = line \o Ordered(heap, Before)
    /\ stats' = [stats EXCEPT !.submitted = @ + Cardinality(heap)]
    /\ UNCHANGED <<seq, running, backoff, attempt, future, begun>>

BeginTask ==
    /\ line # <<>> /\ Cardinality(running) < WorkerCount
    /\ LET t == Head(line) IN
       /\ running' = running \union {t}
       /\ begun' = IF t \in ToSet(begun) THEN begun ELSE Append(begun, t)
    /\ line' = Tail(line)
    /\ stats' = [stats EXCEPT !.inflight = @ + 1]
    /\ UNCHANGED <<heap, seq, draining, backoff, attempt, future>>

\* A future its caller gave up is left alone.
Settled(t, outcome) ==
    future' = IF future[t] = "waiting" THEN [future EXCEPT ![t] = outcome] ELSE future

Completes(t) ==
    /\ t \in running
    /\ running' = running \ {t}
    /\ stats' = [stats EXCEPT !.completed = @ + 1, !.inflight = @ - 1]
    /\ Settled(t, "result")
    /\ UNCHANGED <<heap, seq, draining, line, backoff, attempt, begun>>

Fails(t) ==
    /\ t \in running
    /\ running' = running \ {t}
    /\ IF attempt[t] = MaxRetries
       THEN /\ stats' = [stats EXCEPT !.failed = @ + 1, !.inflight = @ - 1]
            /\ Settled(t, "error")
            /\ UNCHANGED <<backoff, attempt>>
       ELSE /\ stats' = [stats EXCEPT !.retried = @ + 1, !.inflight = @ - 1]
            /\ backoff' = backoff \union {t}
            /\ attempt' = [attempt EXCEPT ![t] = @ + 1]
            /\ UNCHANGED future
    /\ UNCHANGED <<heap, seq, draining, line, begun>>

Requeues(t) ==
    /\ t \in backoff
    /\ backoff' = backoff \ {t}
    /\ line' = Append(line, t)
    /\ UNCHANGED <<heap, seq, draining, running, attempt, future, begun, stats>>

\* The caller is cancelled; its task runs on.
CancelTask(t) ==
    /\ future[t] = "waiting"
    /\ future' = [future EXCEPT ![t] = "cancelled"]
    /\ UNCHANGED <<heap, seq, draining, line, running, backoff, attempt, begun, stats>>

PoolNext ==
    \/ \E t \in Tasks : Submit(t) \/ Completes(t) \/ Fails(t) \/ Requeues(t) \/ CancelTask(t)
    \/ Drain \/ BeginTask

PoolSpec == PoolInit /\ [][PoolNext]_poolVars

---------------------------------------------------------------------------

\* A task begins before every task that was submitted after it with no
\* higher priority, however drains, retries, cancelled callers and the
\* limit of the pool interleave, and no attempt exceeds that limit.  (One
\* of higher priority that comes after a drain waits behind it all.)
PriorityKept ==
    /\ \A a, b \in ToSet(seq) :
          (Place(a) < Place(b) /\ Prio[a] >= Prio[b] /\ b \in ToSet(begun)) =>
             \E n, m \in DOMAIN begun : begun[n] = a /\ begun[m] = b /\ n < m
    /\ Cardinality(running) <= WorkerCount
    /\ stats.inflight = Cardinality(running)
    /\ stats.submitted = stats.completed + stats.failed + Len(line) + Cardinality(running \union backoff)
=============================================================================
