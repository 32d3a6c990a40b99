----------------------------- MODULE Lifecycle -----------------------------
(***************************************************************************)
(* The lifecycle scanner: usage and feedback counters in Redis, read by    *)
(* scans in several round trips while accesses and outcomes write them;    *)
(* relevance scores; decay, which sets one status per entity; and the      *)
(* compaction and refresh plans, which are computed and not applied.       *)
(*                                                                         *)
(* Scores are hundredths, rounded down; time passes in half-lives of the   *)
(* recency.                                                                *)
(***************************************************************************)
EXTENDS Nothing, Integers, Sequences, FiniteSets, FiniteSetsExt, SequencesExt

CONSTANTS
    Kind,               \* qualified name, a sequence -> kind of its node and unit
    Graphs,             \* the edge sets a scan may be given: [src, kind, dst]
    Scanners,
    Writers,            \* callers of record_access and record_outcome
    UsageSaturation, CentralitySaturation,
    LowPriority, CentralityLow, RefreshBelow, SuccessFloor,     \* in hundredths
    DecayAge,
    Used,               \* the entities accesses are recorded for
    MaxClock, MaxCounted  \* bounds on the time, and on writes and scans counted

Entities == DOMAIN Kind

\* Names are sequences; saturations and thresholds are numbers.
ASSUME LifecycleAssumption ==
    /\ IsFiniteSet(Entities) /\ Entities # {} /\ Used \subseteq Entities
    /\ \A e \in Entities : Len(e) \in Nat
    /\ \A edges \in Graphs : IsFiniteSet(edges)
    /\ UsageSaturation \in Nat /\ CentralitySaturation \in Nat
    /\ {LowPriority, CentralityLow, RefreshBelow, SuccessFloor, DecayAge, MaxClock, MaxCounted} \subseteq Nat
    /\ None \notin Nat

VARIABLES
    clock,
    usage, lastAccess, attempts, successes,     \* the keys of each entity
    status,             \* entity -> "active" or "low"
    write,              \* writer -> None, or the second half it owes
    scan,               \* scanner -> None, or its pass
    known,              \* the edges of the last scan that returned, or None
    counted                 \* counted against MaxCounted

lifeVars == <<clock, usage, lastAccess, attempts, successes, status, write, scan, known, counted>>
signals  == <<usage, lastAccess, attempts, successes>>

LifeInit ==
    /\ known = None
    /\ clock = 0 /\ counted = 0
    /\ usage = [e \in Entities |-> 0] /\ lastAccess = [e \in Entities |-> None]
    /\ attempts = [e \in Entities |-> 0] /\ successes = [e \in Entities |-> 0]
    /\ status = [e \in Entities |-> "active"]
    /\ write = [w \in Writers |-> None] /\ scan = [s \in Scanners |-> None]

---------------------------------------------------------------------------
(* Scores.                                                                 *)

\* 100 * sqrt(count / saturation), at most 100.
Saturating(count, saturation) ==
    IF saturation = 0 THEN 0
    ELSE IF count >= saturation THEN 100
    ELSE CHOOSE r \in 0..99 : /\ r * r * saturation <= count * 10000
                              /\ (r + 1) * (r + 1) * saturation > count * 10000

Halved[n \in 0..MaxClock] == IF n = 0 THEN 100 ELSE Halved[n - 1] \div 2

Recency(last, now) ==
    IF last = None THEN 0 ELSE IF now <= last THEN 100 ELSE Halved[now - last]

SuccessRate(tried, won) == IF tried = 0 THEN 0 ELSE Min({100, (100 * won) \div tried})

InDegree(edges, e) == Cardinality({x \in edges : x.dst = e})

Score(e, seen, edges, now) ==
    LET used    == Saturating(seen.usage[e], UsageSaturation)
        recency == Recency(seen.last[e], now)
        central == Saturating(InDegree(edges, e), CentralitySaturation)
        success == SuccessRate(seen.attempts[e], seen.successes[e]) IN
    [score |-> (40 * used + 30 * recency + 20 * central + 10 * success) \div 100,
     centrality |-> central, success |-> success]

---------------------------------------------------------------------------
(* Decay.                                                                  *)

IsStale(last, now) == last = None \/ last < now - DecayAge

\* Mutant: the score is not asked.
DowngradeUnscored(b, last, now) == IsStale(last, now) /\ b.centrality < CentralityLow

DowngradeDue(b, last, now) ==
    IsStale(last, now) /\ b.centrality < CentralityLow /\ b.score < LowPriority

\* No caller marks an entity as orphaned.
DecayAction(b, last, current, now) ==
    IF current = "low" /\ b.score >= LowPriority THEN "promote"
    ELSE IF current = "active" /\ DowngradeDue(b, last, now) THEN "downgrade"
    ELSE "no_op"

---------------------------------------------------------------------------
(* Plans.  A node and its unit share their id.                             *)

Modules == {e \in Entities : Kind[e] = "Module"}

\* The parents, up to a module or to the first that is not among the units.
UnitModule[e \in Entities] ==
    IF e \in Modules \/ Len(e) = 1 THEN e
    ELSE IF Front(e) \in Entities THEN UnitModule[Front(e)] ELSE Front(e)

\* The longest proper prefix that is a module, if any is.
NodeModule(e) ==
    LET cuts == {n \in 1..Len(e) - 1 : SubSeq(e, 1, n) \in Modules} IN
    IF cuts = {} THEN None ELSE SubSeq(e, 1, Max(cuts))

Units == {e \in Entities : Kind[e] # "External"}

MemoryVictims(scores) ==
    {e \in Units : Kind[e] \notin {"Module", "Class"} /\ scores[e].score < LowPriority}

\* Per module with victims: who is merged, and over whom the summary is
\* made, which is empty without the module's own unit.
MemoryPlan(scores) ==
    LET victims == MemoryVictims(scores) IN
    {[module  |-> m,
      merged  |-> {e \in victims : UnitModule[e] = m},
      summary |-> IF m \in Modules THEN {e \in Units \ victims : UnitModule[e] = m} ELSE {}] :
        m \in {UnitModule[e] : e \in victims}}

\* Each edge that touches a victim, moved to the module; one that the move
\* closes on itself is dropped.
PreservedEdges(edges, victims, m) ==
    LET to(e) == IF e \in victims THEN m ELSE e
        moved == {[src |-> to(x.src), kind |-> x.kind, dst |-> to(x.dst)] :
                      x \in {y \in edges : y.src \in victims \/ y.dst \in victims}} IN
    {x \in moved : x.src # x.dst}

Compactable(scores) ==
    {e \in Entities : /\ Kind[e] \in {"Function", "Method", "Constant"}
                      /\ scores[e].centrality < CentralityLow
                      /\ NodeModule(e) # None}

Merge(m, edges, scores) ==
    LET merged == {e \in Compactable(scores) : NodeModule(e) = m} IN
    [target |-> m, merged |-> merged, kept |-> PreservedEdges(edges, merged, m)]

GraphPlan(edges, scores) ==
    {Merge(m, edges, scores) : m \in {NodeModule(e) : e \in Compactable(scores)}}

Signature(edges, e) == {x.dst : x \in {y \in edges : y.src = e}}

\* Without earlier signatures nothing has drifted.
RefreshPlan(scores, before, edges) ==
    {e \in Entities : \/ scores[e].score < RefreshBelow
                      \/ before # None /\ Signature(before, e) # Signature(edges, e)
                      \/ scores[e].success < SuccessFloor}

---------------------------------------------------------------------------
(* Writers.  Nothing keeps the second key from being written by an older   *)
(* call.                                                                   *)

Disturbed == [s \in Scanners |-> IF scan[s] = None THEN None ELSE [scan[s] EXCEPT !.alone = FALSE]]

RecordAccess(w, e) ==
    /\ write[w] = None /\ counted < MaxCounted
    /\ usage' = [usage EXCEPT ![e] = @ + 1]
    /\ write' = [write EXCEPT ![w] = [op |-> "access", entity |-> e, at |-> clock]]
    /\ counted' = counted + 1 /\ scan' = Disturbed
    /\ UNCHANGED <<clock, lastAccess, attempts, successes, status, known>>

SetLastAccess(w) ==
    /\ write[w] # None /\ write[w].op = "access"
    /\ lastAccess' = [lastAccess EXCEPT ![write[w].entity] = write[w].at]
    /\ write' = [write EXCEPT ![w] = None] /\ scan' = Disturbed
    /\ UNCHANGED <<clock, usage, attempts, successes, status, known, counted>>

RecordOutcome(w, e, success) ==
    /\ write[w] = None /\ counted < MaxCounted
    /\ attempts' = [attempts EXCEPT ![e] = @ + 1]
    /\ write' = IF success THEN [write EXCEPT ![w] = [op |-> "success", entity |-> e]] ELSE write
    /\ counted' = counted + 1 /\ scan' = Disturbed
    /\ UNCHANGED <<clock, usage, lastAccess, successes, status, known>>

CountSuccess(w) ==
    /\ write[w] # None /\ write[w].op = "success"
    /\ successes' = [successes EXCEPT ![write[w].entity] = @ + 1]
    /\ write' = [write EXCEPT ![w] = None] /\ scan' = Disturbed
    /\ UNCHANGED <<clock, usage, lastAccess, attempts, status, known, counted>>

\* The process of a writer dies between the two writes.
WriterDies(w) ==
    /\ write[w] # None
    /\ write' = [write EXCEPT ![w] = None]
    /\ UNCHANGED <<clock, signals, status, scan, known, counted>>

\* Scans and writes last far less than the half-life of two weeks.
LifeTick ==
    /\ clock < MaxClock
    /\ \A s \in Scanners : scan[s] = None
    /\ \A w \in Writers : write[w] = None
    /\ clock' = clock + 1
    /\ UNCHANGED <<signals, status, write, scan, known, counted>>

---------------------------------------------------------------------------
(* A scan.  "first" and "alone" are history: the signals it began with,    *)
(* and whether nobody else wrote since.                                    *)

EntityIds == SetToSeq(Entities)

BeginScan(s, edges) ==
    /\ scan[s] = None /\ counted < MaxCounted
    /\ counted' = counted + 1
    /\ scan' = [Disturbed EXCEPT ![s] =
          [pc |-> "last", now |-> clock, edges |-> edges, before |-> known,
           seen |-> [usage |-> usage, last |-> None, attempts |-> None, successes |-> None],
           current |-> <<>>, todo |-> {}, applied |-> FALSE,
           first |-> usage, alone |-> \A o \in Scanners \ {s} : scan[o] = None]]
    /\ UNCHANGED <<clock, signals, status, write, known>>

Reads(s, pc, seen, next) ==
    /\ scan[s].pc = pc
    /\ scan' = [scan EXCEPT ![s].pc = next, ![s].seen = seen]
    /\ UNCHANGED <<clock, signals, status, write, known, counted>>

ReadLast(s)      == Reads(s, "last", [scan[s].seen EXCEPT !.last = lastAccess], "attempts")
ReadAttempts(s)  == Reads(s, "attempts", [scan[s].seen EXCEPT !.attempts = attempts], "successes")
ReadSuccesses(s) == Reads(s, "successes", [scan[s].seen EXCEPT !.successes = successes], "status")

Scores(p) == [e \in Entities |-> Score(e, p.seen, p.edges, p.now)]

\* What decay decides of the n-th entity on the status it read.
DecayDecision(p, n) ==
    LET e == EntityIds[n] IN
    DecayAction(Score(e, p.seen, p.edges, p.now), p.seen.last[e], p.current[n], p.now)

DecayDue(p) == {n \in DOMAIN EntityIds : DecayDecision(p, n) # "no_op"}

\* get_status of one entity after the other; after the last, the decisions
\* are due, unless this is a dry run.
ReadStatus(s) ==
    LET p == [scan[s] EXCEPT !.current = Append(@, status[EntityIds[Len(@) + 1]])] IN
    /\ scan[s].pc = "status"
    /\ IF Len(p.current) < Len(EntityIds)
       THEN scan' = [scan EXCEPT ![s] = p]
       ELSE \E apply \in BOOLEAN :
              scan' = [scan EXCEPT ![s] = [p EXCEPT !.pc = "apply", !.applied = apply,
                                                    !.todo = IF apply THEN DecayDue(p) ELSE {}]]
    /\ UNCHANGED <<clock, signals, status, write, known, counted>>

Applied(action) == IF action = "downgrade" THEN "low" ELSE "active"

\* _apply, in the order of the ids.
Apply(s) ==
    /\ scan[s].pc = "apply" /\ scan[s].todo # {}
    /\ LET n == Min(scan[s].todo) IN
       /\ status' = [status EXCEPT ![EntityIds[n]] = Applied(DecayDecision(scan[s], n))]
       /\ scan' = [scan EXCEPT ![s].todo = @ \ {n}]
    /\ UNCHANGED <<clock, signals, write, known, counted>>

\* What the scan hands back; the plans use the same scores as decay.
Result(p) ==
    LET scores == Scores(p) IN
    [decided |-> [n \in DOMAIN EntityIds |-> DecayDecision(p, n)],
     memory  |-> MemoryPlan(scores),
     graph   |-> GraphPlan(p.edges, scores),
     refresh |-> RefreshPlan(scores, p.before, p.edges)]

Finished(p) == p # None /\ p.pc = "apply" /\ p.todo = {}

\* The scan returns; its caller keeps the signatures for the next one.
Return(s) ==
    /\ Finished(scan[s])
    /\ scan' = [scan EXCEPT ![s] = None]
    /\ known' = scan[s].edges
    /\ UNCHANGED <<clock, signals, status, write, counted>>

\* The process of a scan dies.
ScanDies(s) ==
    /\ scan' = [scan EXCEPT ![s] = None]
    /\ UNCHANGED <<clock, signals, status, write, known, counted>>

LifeNext ==
    \/ \E w \in Writers :
          \/ SetLastAccess(w) \/ CountSuccess(w) \/ WriterDies(w)
          \/ \E e \in Used : RecordAccess(w, e) \/ \E success \in BOOLEAN : RecordOutcome(w, e, success)
    \/ \E s \in Scanners :
          \/ \E edges \in Graphs : BeginScan(s, edges)
          \/ /\ scan[s] # None
             /\ \/ ReadLast(s) \/ ReadAttempts(s) \/ ReadSuccesses(s) \/ ReadStatus(s)
                \/ Apply(s) \/ Return(s) \/ ScanDies(s)
    \/ LifeTick

LifeSpec == LifeInit /\ [][LifeNext]_lifeVars

---------------------------------------------------------------------------
(* Properties.                                                             *)

\* Only a scan that began before an entity was used enough, over a graph
\* that does not make it central, downgrades it: a use counted before the
\* scan protects it, whatever else is read torn or set late.
DowngradesEarned ==
    \A e \in Entities : (status[e] = "active" /\ status'[e] = "low") =>
        \E s \in Scanners :
           /\ scan[s] # None /\ scan[s].pc = "apply"
           /\ LET central == Saturating(InDegree(scan[s].edges, e), CentralitySaturation) IN
              /\ central < CentralityLow
              /\ 40 * Saturating(scan[s].first[e], UsageSaturation) + 20 * central < 100 * LowPriority

\* A scan that nobody disturbed leaves nothing for a second one to decide.
SecondScanIdle(p) ==
    (p.alone /\ p.applied) =>
        LET now == [usage |-> usage, last |-> lastAccess, attempts |-> attempts, successes |-> successes] IN
        \A e \in Entities : DecayAction(Score(e, now, p.edges, p.now), lastAccess[e], status[e], p.now) = "no_op"

\* The plans of one scan fit each other: what decay promotes is not merged
\* away, and a leaf of a known module that it downgrades is merged by both
\* compactors, each entity once; the module of a merge stays, and what is
\* merged for its low score is due for a refresh too, if refreshing has the
\* higher threshold.
PlansFit(result) ==
    LET inMemory == UNION {c.merged : c \in result.memory}
        inGraph  == UNION {c.merged : c \in result.graph} IN
    /\ \A n \in DOMAIN EntityIds :
          LET e == EntityIds[n] IN
          /\ result.decided[n] = "promote" => e \notin inMemory
          /\ (/\ result.decided[n] = "downgrade"
              /\ Kind[e] \in {"Function", "Method"} /\ NodeModule(e) # None) =>
                e \in inMemory \intersect inGraph
    /\ \A c, d \in result.memory : c # d => c.merged \intersect d.merged = {}
    /\ \A c, d \in result.graph : c # d => c.merged \intersect d.merged = {}
    /\ LowPriority <= RefreshBelow => inMemory \subseteq result.refresh
    /\ \A c \in result.graph : c.target \notin inMemory \union inGraph

\* Of the edges between what is merged and what stays, each is kept, moved
\* to the module, unless it came from there.
EdgesKept(edges, merges) ==
    LET gone == UNION {d.merged : d \in merges} IN
    \A c \in merges : \A x \in edges :
        /\ (x.src \in c.merged /\ x.dst \notin gone \union {c.target}) =>
              [src |-> c.target, kind |-> x.kind, dst |-> x.dst] \in c.kept
        /\ (x.dst \in c.merged /\ x.src \notin gone \union {c.target}) =>
              [src |-> x.src, kind |-> x.kind, dst |-> c.target] \in c.kept

\* Decay and plans of overlapping scans stay sound while accesses and
\* outcomes are recorded between their reads.
ScansSound ==
    /\ [][DowngradesEarned]_lifeVars
    /\ [](\A s \in Scanners : Finished(scan[s]) =>
             LET result == Result(scan[s]) IN
             /\ SecondScanIdle(scan[s])
             /\ PlansFit(result)
             /\ EdgesKept(scan[s].edges, result.graph))
=============================================================================
