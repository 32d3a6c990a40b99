----------------------------- MODULE GraphStores ----------------------------
(***************************************************************************)
(* The graph repositories of the two tiers under concurrent ingests: the   *)
(* server tier runs one Neo4j statement after the other; a call of the     *)
(* lite tier reads first, and its SQLite transaction begins with the first *)
(* row it writes.  The process may die between any two of these steps.     *)
(* The reads the explore tools make are operators over the contents.       *)
(***************************************************************************)
EXTENDS Naturals, Sequences, FiniteSets, SequencesExt, FiniteSetsExt, TLC

CONSTANTS
    Sessions,       \* ingests at work
    Calls,          \* the calls they make: [op, nodes | edges | repo, file]
    NodeRecords, EdgeRecords,
    Rules,          \* EDGE_RULES: <<source kind, edge kind, destination kind>>
    MaxDepth,       \* _MAX_NEIGHBOR_DEPTH
    MaxNeighbors    \* _MAX_NEIGHBORS of the explore tool

\* How far the schemas let the tools look.
Depths == 1..5

\* A node's id says of which sort it is (file:..., external:..., or a unit's
\* id), and every node of a sort has the same properties that are not null.
\* The builder draws edges from files and units only.
ASSUME StoresAssumption ==
    /\ \A c \in Calls : \/ c \in [op : {"nodes"}, nodes : Seq(NodeRecords)]
                        \/ c \in [op : {"edges"}, edges : SUBSET EdgeRecords]
                        \/ c.op = "delete"
    /\ \A n \in NodeRecords : n.props = [k \in DOMAIN n.props |-> n.props[k]]
    /\ \A m, n \in NodeRecords : m.id = n.id => DOMAIN m.props = DOMAIN n.props
    /\ \A e \in EdgeRecords, n \in NodeRecords : n.id = e.src => n.props.kind # "External"
    /\ MaxNeighbors \in Nat /\ MaxDepth \in Nat /\ \A d \in Depths : d <= MaxDepth

VARIABLES
    tier,           \* "lite" or "server"
    nodes, edges,   \* what is stored
    todo,           \* the statements each session has still to run
    cache,          \* _kind_cache: node id -> kind, in the process
    raced           \* history: edges in flight when an end of theirs was deleted

storeVars == <<tier, nodes, edges, todo, cache, raced>>

---------------------------------------------------------------------------
(* Statements.                                                             *)

\* Edges whose two ends have a cached kind must obey the rules; the others
\* are trusted.
Accepted(es) ==
    \A e \in es : {e.src, e.dst} \subseteq DOMAIN cache
                    => <<cache[e.src], e.kind, cache[e.dst]>> \in Rules

EdgeKinds == <<"CALLS", "CONTAINS", "DEFINES", "IMPORTS", "INHERITS", "REFERENCES">>

\* Neo4j: a statement for each node, and one for the edges of each kind.
ServerStatements(call) ==
    CASE call.op = "nodes" ->
            [i \in DOMAIN call.nodes |-> [op |-> "nodes", nodes |-> <<call.nodes[i]>>]]
      [] call.op = "edges" ->
            LET kinds == {k \in DOMAIN EdgeKinds : \E e \in call.edges : e.kind = EdgeKinds[k]}
                Nth(n) == CHOOSE k \in kinds : Cardinality({j \in kinds : j <= k}) = n IN
            [n \in 1..Cardinality(kinds) |->
                [op |-> "edges", edges |-> {e \in call.edges : e.kind = EdgeKinds[Nth(n)]}]]
      [] OTHER -> <<call>>

\* SQLite: the call as a whole; one of edges, or a deletion, looks before it writes.
LiteStatements(call) == <<call>>

Statements(call) == IF tier = "lite" THEN LiteStatements(call) ELSE ServerStatements(call)

\* A call with a forbidden edge raises before anything is written.
BeginCall(s, call) ==
    /\ todo[s] = <<>>
    /\ call.op = "edges" => Accepted(call.edges)
    /\ todo' = [todo EXCEPT ![s] = Statements(call)]
    /\ UNCHANGED <<tier, nodes, edges, cache, raced>>

\* SQLite replaces every column; Neo4j adds the properties that are not
\* null to those the node has.
Merged(old, new) ==
    IF tier = "lite" THEN new
    ELSE [k \in DOMAIN old \union DOMAIN new |-> IF k \in DOMAIN new THEN new[k] ELSE old[k]]

WriteNodes(stmt) ==
    LET batch == ToSet(stmt.nodes)
        ids   == {n.id : n \in batch}
        props(i) == (CHOOSE n \in batch : n.id = i).props IN
    /\ nodes' = [i \in DOMAIN nodes \union ids |->
                    IF i \notin ids THEN nodes[i]
                    ELSE IF i \in DOMAIN nodes THEN Merged(nodes[i], props(i)) ELSE props(i)]
    /\ cache' = [i \in ids |-> props(i).kind] @@ cache
    /\ UNCHANGED edges

\* Mutant: the edges are written without looking for their ends.
LinkedUnchecked(es) == es

\* An edge with an end that is not stored is dropped, not written.
Linked(es) == {e \in es : {e.src, e.dst} \subseteq DOMAIN nodes}

\* The server matches the two ends in the statement that writes the edges.
MergeEdges(stmt) ==
    /\ edges' = edges \union Linked(stmt.edges)
    /\ UNCHANGED <<nodes, cache>>

OfFile(stmt) ==
    {i \in DOMAIN nodes : /\ "file" \in DOMAIN nodes[i]
                          /\ nodes[i].repo = stmt.repo /\ nodes[i].file = stmt.file}

\* The nodes of these ids, and the edges at them.
Delete(gone) ==
    /\ nodes' = [i \in DOMAIN nodes \ gone |-> nodes[i]]
    /\ edges' = {e \in edges : {e.src, e.dst} \intersect gone = {}}

\* Neo4j: one statement, and the kinds of the deleted nodes stay cached.
DeleteSubgraph(stmt) == Delete(OfFile(stmt)) /\ UNCHANGED cache

\* SQLite: the SELECT opens no transaction.  What it found is all the call
\* goes on with, whatever others commit before its first write.
Resolved(stmt) ==
    IF stmt.op = "edges" THEN [op |-> "insert", edges |-> Linked(stmt.edges)]
    ELSE [op |-> "wipe", ids |-> OfFile(stmt)]

Look(s) ==
    /\ tier = "lite" /\ todo[s] # <<>>
    /\ Head(todo[s]).op \in {"edges", "delete"}
    /\ todo' = [todo EXCEPT ![s] = <<Resolved(Head(@))>>]
    /\ UNCHANGED <<tier, nodes, edges, cache, raced>>

InsertEdges(stmt) ==
    /\ edges' = edges \union stmt.edges
    /\ UNCHANGED <<nodes, cache>>

\* The lite tier forgets the kinds of the nodes it deleted.
WipeNodes(stmt) ==
    /\ Delete(stmt.ids)
    /\ cache' = [i \in DOMAIN cache \ stmt.ids |-> cache[i]]

NextUp(op) == {Head(todo[s]) : s \in {t \in Sessions : todo[t] # <<>> /\ Head(todo[t]).op = op}}

\* Edges found to have their ends, and not yet written.
InFlight == UNION {stmt.edges : stmt \in NextUp("insert")}

\* The nodes that deletions found, and have not yet deleted.
Wiping == {stmt.ids : stmt \in NextUp("wipe")} \ {{}}

\* No part of the code: it marks the edges a deletion overtook.
Race ==
    LET gone == DOMAIN nodes \ DOMAIN nodes' IN
    raced' = (raced \union {e \in InFlight : {e.src, e.dst} \intersect gone # {}})
                \intersect (edges' \union InFlight')

RunStatement(s) ==
    /\ todo[s] # <<>>
    /\ LET stmt == Head(todo[s]) IN
       \/ stmt.op = "nodes" /\ WriteNodes(stmt)
       \/ stmt.op = "edges" /\ tier = "server" /\ MergeEdges(stmt)
       \/ stmt.op = "delete" /\ tier = "server" /\ DeleteSubgraph(stmt)
       \/ stmt.op = "insert" /\ InsertEdges(stmt)
       \/ stmt.op = "wipe" /\ WipeNodes(stmt)
    /\ todo' = [todo EXCEPT ![s] = Tail(@)]
    /\ Race
    /\ UNCHANGED tier

\* What is written stays, what is not is lost, and the cache starts empty.
Restart ==
    /\ todo' = [s \in Sessions |-> <<>>] /\ cache' = <<>>
    /\ raced' = raced \intersect edges
    /\ UNCHANGED <<tier, nodes, edges>>

Init ==
    /\ tier \in {"lite", "server"}
    /\ nodes = <<>> /\ edges = {} /\ cache = <<>> /\ raced = {}
    /\ todo = [s \in Sessions |-> <<>>]

Next ==
    \/ \E s \in Sessions, call \in Calls : BeginCall(s, call)
    \/ \E s \in Sessions : Look(s)
    \/ \E s \in Sessions : RunStatement(s)
    \/ Restart

Spec == Init /\ [][Next]_storeVars

---------------------------------------------------------------------------
(* Reads.                                                                  *)

Clamp(n, low, high) == IF n < low THEN low ELSE IF n > high THEN high ELSE n

Matches(e, kinds) == kinds = {} \/ e.kind \in kinds

DirectionRules ==
    [callers |-> <<"CALLS", "in">>, callees |-> <<"CALLS", "out">>,
     imports |-> <<"IMPORTS", "out">>, imported_by |-> <<"IMPORTS", "in">>,
     inherits |-> <<"INHERITS", "out">>]

\* A step from a to b along an edge, in the direction asked for.
Follows(e, a, b, direction) ==
    \/ /\ e.src = a /\ e.dst = b
       /\ direction = "all" \/ DirectionRules[direction] = <<e.kind, "out">>
    \/ /\ e.dst = a /\ e.src = b
       /\ direction = "all" \/ DirectionRules[direction] = <<e.kind, "in">>

Steps(es, direction) ==
    LET ends == UNION {{e.src, e.dst} : e \in es} IN
    {s \in ends \X ends : \E e \in es : Follows(e, s[1], s[2], direction)}

\* Breadth first: what each number of steps reaches.
Levels(seed, steps, depth) ==
    LET level[d \in 0..depth] ==
            IF d = 0 THEN {seed}
            ELSE LET before == level[d - 1] IN
                 before \union {s[2] : s \in {x \in steps : x[1] \in before}} IN
    level

\* SQLite: breadth first from the node, one query per level.
LiteNeighbors(i, kinds, depth) ==
    LET usable == {e \in edges : Matches(e, kinds)}
        most   == Clamp(depth, 1, MaxDepth) IN
    (Levels(i, Steps(usable, "all"), most)[most] \ {i}) \intersect DOMAIN nodes

\* Neo4j: the ends of the paths of 1 to `depth' relations, none used twice;
\* one that comes back to the node finds the node itself.
ServerNeighbors(i, kinds, depth) ==
    LET usable == {e \in edges : Matches(e, kinds)}
        other(e, n) == IF e.src = n THEN e.dst ELSE e.src
        paths[d \in 1..Clamp(depth, 1, MaxDepth)] ==
            IF d = 1 THEN {[end |-> other(e, i), used |-> {e}] :
                             e \in {x \in usable : i \in {x.src, x.dst}}}
            ELSE UNION {{[end |-> other(e, p.end), used |-> p.used \union {e}] :
                           e \in {x \in usable \ p.used : p.end \in {x.src, x.dst}}} :
                         p \in paths[d - 1]} IN
    UNION {{p.end : p \in paths[d]} : d \in 1..Clamp(depth, 1, MaxDepth)}

Neighbors(i, kinds, depth) ==
    IF tier = "lite" THEN LiteNeighbors(i, kinds, depth) ELSE ServerNeighbors(i, kinds, depth)

EdgesAmong(ids) == {e \in edges : e.src \in ids /\ e.dst \in ids}

\* Mutant: the distance is counted over undirected steps.
DirectedBfsLoose(seed, es, direction, depth) ==
    LET level == Levels(seed, Steps(es, "all"), depth)
        reached == {b \in level[depth] \ {seed} : \E e \in es, a \in level[depth] :
                        Follows(e, a, b, direction)} IN
    [b \in reached |-> Min({d \in 1..depth : b \in level[d]})]

\* The nodes reached from the seed over these edges, with their distances.
DirectedBfs(seed, es, direction, depth) ==
    LET level == Levels(seed, Steps(es, direction), depth) IN
    [b \in level[depth] \ {seed} |-> Min({d \in 1..depth : b \in level[d]})]

\* Without edges only `all' finds anything, at distance one.
Reached(seed, direction, depth) ==
    LET near == Neighbors(seed, {}, depth)
        es   == EdgesAmong(near \union {seed}) IN
    IF es # {} THEN DirectedBfs(seed, es, direction, depth)
    ELSE IF direction = "all" THEN [b \in near \ {seed} |-> 1]
    ELSE <<>>

\* The first n, by distance.
Nearest(reached, n) ==
    CHOOSE kept \in SUBSET DOMAIN reached :
        /\ Cardinality(kept) = n
        /\ \A b \in kept, c \in DOMAIN reached \ kept : reached[b] <= reached[c]

\* The nearest MaxNeighbors are returned, with the edges among them.
Explore(seed, direction, depth) ==
    LET reached == Reached(seed, direction, depth)
        count   == Cardinality(DOMAIN reached)
        kept    == Nearest(reached, Clamp(count, 0, MaxNeighbors)) IN
    [neighbors |-> [b \in kept |-> reached[b]],
     edges     |-> EdgesAmong(kept \union {seed}),
     truncated |-> count > MaxNeighbors]

\* The deprecated tools walk at most five steps.
QueryGraph(seed, depth) == Explore(seed, "all", Clamp(depth, 1, 5))

\* The External nodes one step away.
Risks(seed) == {b \in Neighbors(seed, {}, 1) : nodes[b].kind = "External"}

---------------------------------------------------------------------------
(* Properties.                                                             *)

Contract ==
    INSTANCE GraphContract WITH
        linked <- InFlight,
        doomed <- Wiping

\* Both tiers keep the promises of the repository protocol, whatever two
\* ingests interleave and wherever the process dies: an edge is written only
\* if its writer found both its ends, no node mixes two versions, and a
\* deleted node leaves no edge behind.
KeepsContract == Contract!Spec

\* An edge without one of its ends is one that a deletion overtook between
\* the read and the write of a call, and the server tier stores none.
Dangles(e) == ~({e.src, e.dst} \subseteq DOMAIN nodes)
OnlyRacedDangle == \A e \in edges : Dangles(e) => tier = "lite" /\ e \in raced

\* The nodes at most `depth' steps from the seed in the whole graph, each
\* step in the direction asked for.
Directed(seed, direction, depth) ==
    LET far[d \in 0..depth] ==
            IF d = 0 THEN {seed}
            ELSE LET before == far[d - 1] IN
                 {b \in DOMAIN nodes : \/ b \in before
                                       \/ \E e \in edges, a \in before :
                                             Follows(e, a, b, direction)} IN
    far

\* The tools look only at the edges around the seed, and get that
\* neighbourhood from another query on each tier; still they return the
\* nodes the whole graph has in that direction at that distance, the
\* nearest ones when there are too many, and every External node a symbol
\* touches is among its risks.
ExploreExact ==
    \A seed \in DOMAIN nodes, depth \in Depths :
        /\ \A direction \in DOMAIN DirectionRules \union {"all"} :
             LET far == Directed(seed, direction, depth)
                 got == Explore(seed, direction, depth)
                 hit == DOMAIN got.neighbors IN
             /\ hit \subseteq far[depth] \ {seed}
             /\ got.truncated \/ hit = far[depth] \ {seed}
             /\ \A b \in hit : /\ b \in far[got.neighbors[b]] \ far[got.neighbors[b] - 1]
                               /\ \A c \in (far[depth] \ {seed}) \ hit : c \notin far[got.neighbors[b] - 1]
        /\ Risks(seed) = {b \in DOMAIN nodes : /\ nodes[b].kind = "External"
                                               /\ b \in Directed(seed, "all", 1)[1] \ {seed}}
        /\ DOMAIN QueryGraph(seed, depth).neighbors = DOMAIN Explore(seed, "all", depth).neighbors

\* The reads depend on the contents alone, and every content is there again,
\* with nothing to do and an empty cache, after a restart.  Past an edge
\* without its end the lite tier may walk on, which is left out here.
Restarted == cache = <<>> /\ \A s \in Sessions : todo[s] = <<>>
ReadsExact == Restarted /\ (\A e \in edges : ~Dangles(e)) => ExploreExact
=============================================================================
