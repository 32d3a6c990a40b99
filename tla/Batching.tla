------------------------------ MODULE Batching ------------------------------
(***************************************************************************)
(* BatchingEngine: callers submit an item and wait for its result; a       *)
(* buffer is handed to process_batch when it is full, when the timer of    *)
(* its first item fires, or on flush().  One asyncio lock covers the       *)
(* buffer and the whole of a flush.                                        *)
(***************************************************************************)
EXTENDS Naturals, Sequences, SequencesExt

CONSTANTS
    None,
    Callers,        \* each submits one item, which it names
    MaxSize         \* spec.max_size

VARIABLES
    buffer,         \* callers whose items wait, in order
    timer,          \* _flush_task: "none", "armed" (asleep or at the lock), "done"
    flushing,       \* None, or the batch the holder of the lock processes
    fut,            \* caller -> its future
    processed       \* the batches process_batch was given

batchVars == <<buffer, timer, flushing, fut, processed>>

Init ==
    /\ buffer = <<>> /\ timer = "none" /\ flushing = None /\ processed = <<>>
    /\ fut = [c \in Callers |-> "new"]

LockFree == flushing = None

\* Mutant: the timer is created once and never again.
TimerUnset == timer = "none"

TimerNeeded == timer \in {"none", "done"}

\* _flush_locked up to its await: the buffer is taken by whoever flushes.
StartFlush(items, by) ==
    /\ buffer' = <<>>
    /\ flushing' = [items |-> items, by |-> by]
    /\ processed' = Append(processed, items)

Submit(c) ==
    /\ LockFree /\ fut[c] = "new"
    /\ fut' = [fut EXCEPT ![c] = "waiting"]
    /\ LET items == Append(buffer, c) IN
       IF Len(items) >= MaxSize
       THEN StartFlush(items, c) /\ UNCHANGED timer
       ELSE /\ buffer' = items
            /\ timer' = IF TimerNeeded THEN "armed" ELSE timer
            /\ UNCHANGED <<flushing, processed>>

Flush ==
    /\ LockFree /\ buffer # <<>>
    /\ StartFlush(buffer, "flush")
    /\ UNCHANGED <<timer, fut>>

TimerFires ==
    /\ LockFree /\ timer = "armed"
    /\ IF buffer = <<>>
       THEN timer' = "done" /\ UNCHANGED <<buffer, flushing, processed>>
       ELSE StartFlush(buffer, "timer") /\ UNCHANGED timer
    /\ UNCHANGED fut

\* The lock is released; a timer that flushed is over.
Release ==
    /\ flushing' = None
    /\ timer' = IF flushing.by = "timer" THEN "done" ELSE timer
    /\ UNCHANGED <<buffer, processed>>

\* A future that its caller gave up is left alone.
Settle(outcome) ==
    fut' = [c \in Callers |->
              IF c \in ToSet(flushing.items) /\ fut[c] = "waiting" THEN outcome[c] ELSE fut[c]]

\* process_batch answers with one result per item: the n-th is the n-th item's.
Answers(n) ==
    /\ flushing # None /\ Release
    /\ LET items == flushing.items
           results == SubSeq(items, 1, n) IN
       IF Len(results) # Len(items)
       THEN Settle([c \in Callers |-> "error"])
       ELSE Settle([c \in Callers |->
                IF \E k \in DOMAIN items : items[k] = c /\ results[k] = c
                THEN "result" ELSE "error"])

\* It answers, short or in full, or raises.
Returns == \E n \in 0..MaxSize : flushing # None /\ n <= Len(flushing.items) /\ Answers(n)

Raises ==
    /\ flushing # None /\ Release
    /\ Settle([c \in Callers |-> "error"])

\* A waiting caller is cancelled.  The one that flushes takes the whole
\* batch with it: CancelledError is no Exception, and nobody settles the
\* other futures.
Cancel(c) ==
    /\ fut[c] = "waiting"
    /\ IF flushing # None /\ flushing.by = c
       THEN /\ Release
            /\ fut' = [d \in Callers |->
                         IF d = c THEN "cancelled"
                         ELSE IF d \in ToSet(flushing.items) /\ fut[d] = "waiting" THEN "lost"
                         ELSE fut[d]]
       ELSE fut' = [fut EXCEPT ![c] = "cancelled"] /\ UNCHANGED <<buffer, timer, flushing, processed>>

Next ==
    \/ \E c \in Callers : Submit(c) \/ Cancel(c)
    \/ Flush \/ TimerFires \/ Returns \/ Raises

\* The timer's sleep ends, and process_batch answers or raises.
Fairness == WF_batchVars(TimerFires) /\ WF_batchVars(Returns \/ Raises)

Spec == Init /\ [][Next]_batchVars /\ Fairness

---------------------------------------------------------------------------

\* Every caller gets its answer or an error, however flushes by size, by
\* time and by hand overlap and whatever callers give up, unless the caller
\* that ran the flush of its batch was cancelled.  A caller submits once, so
\* it waits for ever if no state without waiting callers follows.
Settles == []<>(\A c \in Callers : fut[c] # "waiting")
=============================================================================
