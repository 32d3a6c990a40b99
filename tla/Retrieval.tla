------------------------------ MODULE Retrieval -----------------------------
(***************************************************************************)
(* POST /retrieve: three channels search at the same time, each may fail   *)
(* on its own, their candidates are fused and ranked, and the ranking is   *)
(* packed into a token budget.  Scores are in units of 1/ScoreUnit.        *)
(***************************************************************************)
EXTENDS Nothing, Ordering, Integers, Sequences, SequencesExt, FiniteSetsExt

CONSTANTS
    Worlds,             \* what the stores hold: see MCKnowledge
    Queries,            \* [seeds, topK, kinds]
    MaxTraversalDepth,  \* settings.max_graph_traversal_depth
    MaxContextTokens    \* settings.max_context_tokens

\* Ids are numbered in their alphabetical order; a store holds finitely many.
ASSUME RetrievalAssumption ==
    /\ MaxTraversalDepth \in Nat /\ MaxContextTokens \in Nat
    /\ \A q \in Queries : q.topK \in Nat /\ IsFiniteSet(q.seeds)
    /\ \A w \in Worlds :
          /\ IsFiniteSet(w.nodes) /\ IsFiniteSet(w.points) /\ IsFiniteSet(w.matches)
          /\ \A u \in w.points : w.cosine[u] \in Int
          /\ \A u \in w.matches : w.updated[u] \in Int
          /\ \A q \in Queries : \A u \in w.nodes \union w.points \union w.matches \union q.seeds :
                u \in Int /\ w.chars[u] \in Nat

VARIABLES
    world,      \* the stores' contents, fixed during a request
    query,      \* the request
    channel,    \* how far each channel's task is
    found,      \* the candidates each channel returned
    queue,      \* the breadth-first search: entries [id, depth, kind]
    visited,    \* node -> [depth, kind]
    broken,     \* nodes whose neighbours could not be read
    packet      \* the answer, None until it is built

retrievalVars == <<world, query, channel, found, queue, visited, broken, packet>>

Channels == {"graph", "metadata", "vector"}

ScoreUnit == 12

Clip(score) == IF score < 0 THEN 0 ELSE IF score > ScoreUnit THEN ScoreUnit ELSE score

\* The first n of a set in the order `Before'.
Top(S, n, Before(_, _)) == SubSeq(Ordered(S, Before), 1, Min({n, Cardinality(S)}))

Limit == IF query.topK > 1 THEN query.topK ELSE 1

Wanted(kind) == query.kinds = {} \/ kind \in query.kinds

Candidate(u, chan, score, kind, depth) ==
    [id |-> u, channel |-> chan, score |-> score, kind |-> kind, depth |-> depth]

---------------------------------------------------------------------------
(* The channels.                                                           *)

\* The graph channel runs only on seeds.
Planned == {"metadata", "vector"} \union (IF query.seeds = {} THEN {} ELSE {"graph"})

PlanRun ==
    /\ channel = [c \in Channels |-> "new"]
    /\ channel' = [c \in Channels |-> IF c \in Planned THEN "running" ELSE "off"]
    /\ UNCHANGED <<world, query, found, queue, visited, broken, packet>>

Returns(c, candidates) ==
    /\ channel' = [channel EXCEPT ![c] = "done"]
    /\ found' = [found EXCEPT ![c] = candidates]

\* `gather' keeps the exception: the channel has no candidates.
Raises(c) ==
    /\ channel' = [channel EXCEPT ![c] = "failed"]
    /\ found' = [found EXCEPT ![c] = <<>>]

\* The kinds are filtered, and the placeholders dropped, after the store
\* has cut its answer to the limit.
VectorHits(points) ==
    LET kept == {u \in points : Wanted(world.kind[u]) /\ u \notin world.placeholder} IN
    Top({Candidate(u, "vector", Clip(world.cosine[u]), world.kind[u], None) : u \in kept},
        query.topK,
        LAMBDA a, b : a.score > b.score \/ (a.score = b.score /\ a.id < b.id))

\* The embedder raises out of the channel; a failing store empties it.
VectorSearch ==
    /\ channel["vector"] = "running"
    /\ \/ Raises("vector")
       \/ Returns("vector", <<>>)
       \/ \E points \in SUBSET world.points :
             /\ Cardinality(points) = (IF Cardinality(world.points) < Limit
                                       THEN Cardinality(world.points) ELSE Limit)
             /\ \A u \in points, v \in world.points \ points :
                   world.cosine[u] >= world.cosine[v]
             /\ Returns("vector", VectorHits(points))
    /\ UNCHANGED <<world, query, queue, visited, broken, packet>>

\* The units whose text matches, the newest first; the match counts a half.
KeywordHits ==
    LET rows == {u \in world.matches : Wanted(world.kind[u])}
        order == Top(rows, Limit, LAMBDA u, v :
                    \/ world.updated[u] > world.updated[v]
                    \/ world.updated[u] = world.updated[v] /\ u < v) IN
    [i \in DOMAIN order |->
        Candidate(order[i], "metadata", ScoreUnit \div 2, world.kind[order[i]], None)]

MetadataSearch ==
    /\ channel["metadata"] = "running"
    /\ \E hits \in {KeywordHits, <<>>} : Returns("metadata", hits)
    /\ UNCHANGED <<world, query, queue, visited, broken, packet>>

---------------------------------------------------------------------------
(* The breadth-first search from the seeds.                                *)

Adjacent(u) == {v \in world.nodes : {u, v} \in world.edges}

\* Mutant: the newest entry is taken first.
EnqueueFront(q, entries) == entries \o q

Enqueue(q, entries) == q \o entries

\* Seeds that cannot be read have no kind; unknown seeds neither.
SeedQueue(hydrated) ==
    LET order == Ordered(query.seeds, <) IN
    [i \in DOMAIN order |->
        [id |-> order[i], depth |-> 0,
         kind |-> IF order[i] \in hydrated \intersect world.nodes
                  THEN world.kind[order[i]] ELSE None]]

GraphStart ==
    /\ channel["graph"] = "running" /\ queue = <<>> /\ visited = <<>>
    /\ \E hydrated \in SUBSET query.seeds : queue' = SeedQueue(hydrated)
    /\ UNCHANGED <<world, query, channel, found, visited, broken, packet>>

\* The neighbours to come, External ones never.
Frontier(entry, seen) ==
    LET next == Ordered({v \in Adjacent(entry.id) : /\ world.kind[v] # "External"
                                                    /\ v \notin DOMAIN seen}, <) IN
    [i \in DOMAIN next |->
        [id |-> next[i], depth |-> entry.depth + 1, kind |-> world.kind[next[i]]]]

\* A node is visited when its entry is taken from the queue.
GraphStep ==
    /\ channel["graph"] = "running" /\ queue # <<>>
    /\ LET entry == Head(queue)
           seen  == [u \in DOMAIN visited \union {entry.id} |->
                       IF u \in DOMAIN visited THEN visited[u]
                       ELSE [depth |-> entry.depth, kind |-> entry.kind]] IN
       IF entry.id \in DOMAIN visited \/ entry.depth > MaxTraversalDepth
       THEN queue' = Tail(queue) /\ UNCHANGED <<visited, broken>>
       ELSE /\ visited' = seen
            /\ \/ /\ queue' = IF entry.depth >= MaxTraversalDepth THEN Tail(queue)
                              ELSE Enqueue(Tail(queue), Frontier(entry, seen))
                  /\ UNCHANGED broken
               \/ /\ entry.depth < MaxTraversalDepth
                  /\ queue' = Tail(queue)
                  /\ broken' = broken \union {entry.id}
    /\ UNCHANGED <<world, query, channel, found, packet>>

\* 1/(1+depth): it decays with the depth and never reaches zero.
Proximity(depth) == IF depth <= 0 THEN ScoreUnit ELSE ScoreUnit \div (1 + depth)

GraphReturn ==
    /\ channel["graph"] = "running" /\ queue = <<>> /\ visited # <<>>
    /\ LET order == Ordered(DOMAIN visited, LAMBDA u, v :
                        \/ visited[u].depth < visited[v].depth
                        \/ visited[u].depth = visited[v].depth /\ u < v) IN
       Returns("graph", [i \in DOMAIN order |->
           LET u == order[i] IN
           Candidate(u, "graph", Proximity(visited[u].depth), visited[u].kind,
                     visited[u].depth)])
    /\ UNCHANGED <<world, query, queue, visited, broken, packet>>

---------------------------------------------------------------------------
(* Fusion and ranking.                                                     *)

Weight == [semantic |-> 35, graph |-> 25, recency |-> 20, importance |-> 15, feedback |-> 5]

\* All candidates, by channel and then by unit.
Fused(hits) ==
    Ordered(ToSet(hits["graph"]) \union ToSet(hits["metadata"]) \union ToSet(hits["vector"]),
            LAMBDA a, b : \/ a.channel # b.channel /\ a.channel = "graph"
                          \/ a.channel = "metadata" /\ b.channel = "vector"
                          \/ a.channel = b.channel /\ a.id < b.id)

Of(candidates, u, chan) == {c \in ToSet(candidates) : c.id = u /\ c.channel = chan}

Best(scores) == IF scores = {} THEN 0 ELSE Max(scores)

\* What the channels know of one unit: the first vector score, the least
\* depth, the best keyword score and the first kind that is not null.
GroupByUnit(candidates, u) ==
    LET known == {n \in DOMAIN candidates : candidates[n].id = u /\ candidates[n].kind # None} IN
    [channels |-> {c \in Channels : Of(candidates, u, c) # {}},
     cosine   |-> Best({c.score : c \in Of(candidates, u, "vector")}),
     keyword  |-> Best({c.score : c \in Of(candidates, u, "metadata")}),
     depths   |-> {c.depth : c \in Of(candidates, u, "graph")},
     kind     |-> IF known = {} THEN None ELSE candidates[Min(known)].kind]

\* Mutant: a vector score silences the keyword score, and the other way round.
SemanticOfVector(prov) ==
    IF "vector" \in prov.channels THEN Clip(prov.cosine) ELSE prov.keyword

\* A keyword match is semantic evidence: the stronger of the two counts.
Semantic(prov) == Max({Clip(prov.cosine), prov.keyword})

DefaultFeatures(prov) ==
    [semantic   |-> Semantic(prov),
     graph      |-> IF prov.depths = {} THEN 0 ELSE Proximity(Min(prov.depths)),
     recency    |-> 0, importance |-> 0, feedback |-> 0]

FinalScore(f) ==
    Weight.semantic * f.semantic + Weight.graph * f.graph + Weight.recency * f.recency
    + Weight.importance * f.importance + Weight.feedback * f.feedback

Scored(candidates, u) == FinalScore(DefaultFeatures(GroupByUnit(candidates, u)))

UnitsOf(candidates) == {c.id : c \in ToSet(candidates)}

Result(candidates, u) ==
    LET prov == GroupByUnit(candidates, u) IN
    [id |-> u, score |-> Scored(candidates, u), kind |-> prov.kind, channels |-> prov.channels]

RankUnits(candidates, topK) ==
    Top({Result(candidates, u) : u \in UnitsOf(candidates)}, topK,
        LAMBDA a, b : a.score > b.score \/ (a.score = b.score /\ a.id < b.id))

---------------------------------------------------------------------------
(* The packet.                                                             *)

\* The place of a unit of this kind in the priority order; an unknown kind
\* counts as code.
Priority(kind) ==
    CASE kind \in {"Module", "Class", "Section"} -> 3
      [] kind \in {"Function", "Method"} -> 4
      [] OTHER -> 5

\* Four characters a token: the id, and the data the entry carries.
ApproxTokens(r) ==
    (world.chars[r.id] + (IF r.kind = None THEN 0 ELSE 8) + 10 * Cardinality(r.channels) + 3) \div 4

\* The tokens left after the first n entries: one that does not fit is
\* skipped, and a later, smaller one may fit.
Room(order) ==
    LET room[n \in 0..Len(order)] ==
            IF n = 0 THEN MaxContextTokens
            ELSE LET left == room[n - 1] IN
                 IF ApproxTokens(order[n]) > left THEN left ELSE left - ApproxTokens(order[n])
    IN room

\* Mutant: the first entry that does not fit ends the packet.
FittingUntilFull(order) ==
    {n \in DOMAIN order : \A m \in 1..n : ApproxTokens(order[m]) <= Room(order)[m - 1]}

Fitting(order) == {n \in DOMAIN order : ApproxTokens(order[n]) <= Room(order)[n - 1]}

ByPriority(ranked) ==
    Ordered(ToSet(ranked), LAMBDA a, b :
        \/ Priority(a.kind) < Priority(b.kind)
        \/ Priority(a.kind) = Priority(b.kind) /\ a.score > b.score
        \/ Priority(a.kind) = Priority(b.kind) /\ a.score = b.score /\ a.id < b.id)

Optimize(ranked) == LET order == ByPriority(ranked) IN Picked(order, Fitting(order))

\* The mean score of the entries.
Confidence(entries) ==
    IF entries = <<>> THEN 0
    ELSE FoldLeft(LAMBDA sum, e : sum + e.score, 0, entries) \div Len(entries)

Respond ==
    /\ packet = None
    /\ \A c \in Channels : channel[c] \in {"done", "failed", "off"}
    /\ LET ranked  == RankUnits(Fused(found), query.topK)
           entries == Optimize(ranked) IN
       packet' = [ranked |-> ranked, context |-> entries, confidence |-> Confidence(entries),
                  failed |-> {c \in Channels : channel[c] = "failed"}]
    /\ UNCHANGED <<world, query, channel, found, queue, visited, broken>>

RetrievalInit ==
    /\ world \in Worlds /\ query \in Queries
    /\ channel = [c \in Channels |-> "new"] /\ found = [c \in Channels |-> <<>>]
    /\ queue = <<>> /\ visited = <<>> /\ broken = {} /\ packet = None

RetrievalNext ==
    \/ PlanRun \/ VectorSearch \/ MetadataSearch
    \/ GraphStart \/ GraphStep \/ GraphReturn \/ Respond

RetrievalSpec == RetrievalInit /\ [][RetrievalNext]_retrievalVars

---------------------------------------------------------------------------
(* Properties.                                                             *)

\* The nodes at most `depth' steps from the seeds, over nodes that are not
\* External and whose neighbours could be read.
Within[depth \in 0..MaxTraversalDepth] ==
    IF depth = 0 THEN query.seeds
    ELSE Within[depth - 1] \union
         {v \in world.nodes : /\ world.kind[v] # "External"
                              /\ \E u \in Within[depth - 1] \ broken : {u, v} \in world.edges}

\* The search returns the nodes within MaxTraversalDepth steps of a seed, each with
\* its true distance, whatever the order neighbours come in and whichever
\* neighbour queries fail: a longer path met first never hides a shorter.
DepthsShortest ==
    channel["graph"] = "done" =>
        /\ DOMAIN visited = Within[MaxTraversalDepth]
        /\ \A u \in DOMAIN visited :
              /\ u \in Within[visited[u].depth]
              /\ visited[u].depth > 0 => u \notin Within[visited[u].depth - 1]

ScoresOf(hits) ==
    LET candidates == Fused(hits) IN
    [u \in UnitsOf(candidates) |-> Scored(candidates, u)]

\* A channel that fails costs the units it would have found, or some of
\* their score; it never raises the score of a unit.
LossNeverRaises ==
    packet # None => \A c \in Channels :
        LET all  == ScoresOf(found)
            less == ScoresOf([found EXCEPT ![c] = <<>>]) IN
        DOMAIN less \subseteq DOMAIN all /\ \A u \in DOMAIN less : less[u] <= all[u]

PacketTokens(entries) ==
    LET spent[n \in 0..Len(entries)] ==
            IF n = 0 THEN 0 ELSE spent[n - 1] + ApproxTokens(entries[n])
    IN spent[Len(entries)]

\* The packet keeps the budget, repeats no unit, and leaves out no ranked
\* unit for which it still has room.
PacketMaximal ==
    packet # None =>
        /\ PacketTokens(packet.context) <= MaxContextTokens
        /\ \A i, j \in DOMAIN packet.context : packet.context[i].id = packet.context[j].id => i = j
        /\ \A r \in ToSet(packet.ranked) \ ToSet(packet.context) :
              PacketTokens(packet.context) + ApproxTokens(r) > MaxContextTokens
=============================================================================
