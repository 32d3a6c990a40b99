----------------------------- MODULE Ingestion -----------------------------
(***************************************************************************)
(* The ingestion of one repository into its three stores: the unit table   *)
(* (Postgres/SQLite), the graph (Neo4j/SQLite) and the vector collection   *)
(* (Qdrant/SQLite).  A run parses the whole tree first, then reconciles    *)
(* file after file, one store call at a time, and writes all edges last;   *)
(* `POST /ingest/reembed' backfills vectors from the unit table.  Nothing  *)
(* holds a lock over a whole run, any store call may raise, and the        *)
(* process may die between two.  A store call takes effect at once, but    *)
(* for three: SQLite's graph calls read the node table before the          *)
(* statement that opens their transaction, and Neo4j merges the edges      *)
(* of each kind in a statement of its own.                                 *)
(*                                                                         *)
(* A file's content is abstracted to the version of each unit it defines;  *)
(* the version fixes the unit's source_sha, and the sha fixes what it      *)
(* calls, imports or inherits.  Two versions may share a sha: the same     *)
(* text moved to other lines.                                              *)
(***************************************************************************)
CONSTANTS
    Files,      \* file paths of the repository
    Names,      \* qualified names a file may define
    Versions,   \* what a unit may look like: its text and its lines
    Shas,       \* source_sha values
    Sha,        \* [Versions -> Shas]: the sha of a version's text
    Calls,      \* [Shas -> SUBSET UnitId]: the units that text refers to
    Precedes,   \* the walker's alphabetical order, a relation on Files
    Trees,      \* the working trees a run may find
    Modes,      \* SUBSET BOOLEAN: is an embedding pipeline wired for the run
    Runs,       \* requests that may be inside run_ingest at one time
    Tier,       \* "lite" (SQLite stores) or "server" (Postgres, Neo4j, Qdrant)
    Blank,      \* shas of texts without a chunk: an empty __init__.py
    Reembed,    \* the one reembed request that may be in flight
    None,       \* no such unit, row, node or point
    Absent,     \* the file is not in the tree, or no parser handles it
    Broken,     \* the file cannot be read or parsed
    NoVector    \* a payload-only point (has_vector = 0)

UnitId  == Files \X Names                     \* stable_unit_id
Content == [Names -> Versions \union {None}]  \* the units parsed from a file
Writers == Runs \union {Reembed}

IsFirst(f, S) == \A g \in S \ {f} : <<f, g>> \in Precedes

ASSUME ConstantsAssumption ==
    /\ Sha \in [Versions -> Shas]
    /\ Calls \in [Shas -> SUBSET UnitId]
    /\ \A S \in SUBSET Files : S # {} => \E f \in S : IsFirst(f, S)
    /\ Trees \subseteq [Files -> Content \union {Absent, Broken}]
    /\ Modes \subseteq BOOLEAN
    /\ None \notin Versions \union Shas
    /\ None \notin [ver : Versions, vec : Shas \union {NoVector}]
    /\ Absent \notin Content /\ Broken \notin Content /\ Absent # Broken
    /\ NoVector \notin Shas
    /\ Reembed \notin Runs
    /\ Tier \in {"lite", "server"}
    /\ Blank \subseteq Shas

VARIABLES
    rows,       \* unit table: the version stored for each unit id
    nodes,      \* graph: the version on each unit's node
    externals,  \* graph: External nodes, by the name they stand for
    edges,      \* graph: <<unit id, target>>
    points,     \* vector collection: one point per unit id
    pc,         \* where each request is
    parsed,     \* file_units of each run: the tree as it was parsed
    embeds,     \* whether the run was given an embedding pipeline
    todo,       \* files of the run still to ingest; the first is the current
    existing,   \* existing_sha read for the current file
    collected,  \* edges collected for the final pass
    failed,     \* failed_files
    edgePass,   \* FALSE once the final edge pass raised
    doomed,     \* lite: the nodes a run's wipe of a file read, to delete
    landing,    \* lite: the edges whose ends a run's edge pass found
    raced,      \* history: edges in flight when an end of theirs was wiped
    backlog,    \* units the reembed read and has not yet embedded
    skipped,    \* the reembed had a failed batch
    overlapped, \* history: another request was active during this one
    disturbed   \* history: some request failed, overlapped or was killed

stores  == <<rows, nodes, externals, edges, points>>
locals  == <<parsed, embeds, todo, existing, collected, failed, edgePass>>
calls   == <<doomed, landing, raced>>
vars    == <<stores, pc, locals, calls, backlog, skipped, overlapped,
             disturbed>>

Target == {"unit", "external"} \X UnitId
Edge   == UnitId \X Target
Point  == [ver : Versions, vec : Shas \union {NoVector}]
Stage  == {"idle", "list", "delete_units", "delete_graph", "wipe_graph",
           "delete_points", "upsert_units", "upsert_nodes", "placeholders",
           "embed", "insert_edges", "returned"}

\* Mutant: the text itself is kept where its sha should be.
RawText(v) == v

ShaOf(v) == IF v = None THEN None ELSE Sha[v]

\* A text without a chunk is given a payload-only point, and no vector.
VectorOf(sha) == IF sha \in Blank THEN NoVector ELSE sha

Init ==
    /\ rows = [u \in UnitId |-> None]
    /\ nodes = [u \in UnitId |-> None]
    /\ externals = {}
    /\ edges = {}
    /\ points = [u \in UnitId |-> None]
    /\ pc = [w \in Writers |-> "idle"]
    /\ parsed = [r \in Runs |-> [f \in Files |-> Absent]]
    /\ embeds = [r \in Runs |-> FALSE]
    /\ todo = [r \in Runs |-> {}]
    /\ existing = [r \in Runs |-> [n \in Names |-> None]]
    /\ collected = [r \in Runs |-> {}]
    /\ failed = [r \in Runs |-> {}]
    /\ edgePass = [r \in Runs |-> TRUE]
    /\ doomed = [r \in Runs |-> {}]
    /\ landing = [r \in Runs |-> {}]
    /\ raced = {}
    /\ backlog = [u \in UnitId |-> None]
    /\ skipped = FALSE
    /\ overlapped = [w \in Writers |-> FALSE]
    /\ disturbed = FALSE

Busy(w) == pc[w] # "idle"

\* Bookkeeping of the history variables when request w arrives.
Arrive(w) ==
    LET others == {x \in Writers \ {w} : Busy(x)} IN
    /\ overlapped' = [x \in Writers |->
                        IF x = w THEN others # {}
                        ELSE overlapped[x] \/ Busy(x)]
    /\ disturbed' = (disturbed \/ others # {})

---------------------------------------------------------------------------
(* The parse output of a run and what GraphBuilder makes of it.            *)

Parsed(r) == {f \in Files : parsed[r][f] \in Content}
Defines(r, f) == {n \in Names : parsed[r][f][n] # None}

\* The qname resolver: every unit parsed in this run, in any file.
Resolves(r, u) == u[1] \in Parsed(r) /\ u[2] \in Defines(r, u[1])

TargetOf(r, u) == <<IF Resolves(r, u) THEN "unit" ELSE "external", u>>

\* What a file's units refer to; a unit naming itself makes no edge.
References(r, f) ==
    {ref \in Defines(r, f) \X UnitId :
        /\ ref[2] \in Calls[Sha[parsed[r][f][ref[1]]]]
        /\ ref[2] # <<f, ref[1]>>}

BuildEdges(r, f) ==
    {<<<<f, ref[1]>>, TargetOf(r, ref[2])>> : ref \in References(r, f)}

\* External nodes are materialised for every reference left unresolved.
BuildExternals(r, f) ==
    {e[2][2] : e \in {x \in BuildEdges(r, f) : x[2][1] = "external"}}

HasNode(t) == IF t[1] = "unit" THEN nodes[t[2]] # None ELSE t[2] \in externals

\* Mutant: edges are inserted without looking for their endpoints.
LandsUnchecked(e) == TRUE

\* An edge is written only if both its endpoints are there.
Lands(e) == nodes[e[1]] # None /\ HasNode(e[2])

\* The edges that nodes take with them (DETACH DELETE).
Incident(e, ids) == e[1] \in ids \/ (e[2][1] = "unit" /\ e[2][2] \in ids)

\* The nodes of a file that the graph has.
Stored(f) == {u \in UnitId : u[1] = f /\ nodes[u] # None}

\* Deletes nodes and every edge that touches them, at once.  An edge that
\* another run is about to insert is noted: its ends are no longer there.
Wipe(ids) ==
    /\ nodes' = [u \in UnitId |-> IF u \in ids THEN None ELSE nodes[u]]
    /\ edges' = {e \in edges : ~Incident(e, ids)}
    /\ raced' = {e \in raced : ~Incident(e, ids)} \union
                 {e \in UNION {landing[x] : x \in Runs} : Incident(e, ids)}

\* The upsert's WHERE: rewrite a row only if its source_sha differs.
Differs(row, v) == ShaOf(row) # Sha[v]

---------------------------------------------------------------------------
(* A run.                                                                  *)

\* The file the run is working on: the first one still to do.
File(r) == CHOOSE f \in todo[r] : IsFirst(f, todo[r])

\* Mutant: no reconciliation against the stored units.
ObsoleteIgnored(r, seen) == {}

\* Units of the current file that the table has and the parse does not.
Obsolete(r, seen) == {n \in Names : seen[n] # None} \ Defines(r, File(r))

\* Mutant: the wipe of the file's points is forgotten.
ChangedSinceRead(r) ==
    {n \in Defines(r, File(r)) :
        existing[r][n] # Sha[parsed[r][File(r)][n]]}

\* Units to embed: all of them after a wipe, else those whose sha changed.
Changed(r) ==
    IF Obsolete(r, existing[r]) # {}
    THEN Defines(r, File(r))
    ELSE {n \in Defines(r, File(r)) :
            existing[r][n] # Sha[parsed[r][File(r)][n]]}

\* Mutant: the metadata of every unit is refreshed on every run.
PlaceholdersAll(r) == Defines(r, File(r))

\* Without an embedding pipeline every unit gets a placeholder point.
Placeholders(r) == IF embeds[r] THEN Changed(r) ELSE Defines(r, File(r))

Goto(r, stage) == pc' = [pc EXCEPT ![r] = stage]

\* `run' walks and parses the tree; there is no await up to the first file.
Start(r) ==
    /\ pc[r] = "idle"
    /\ \E tree \in Trees, mode \in Modes :
          /\ parsed' = [parsed EXCEPT ![r] = tree]
          /\ embeds' = [embeds EXCEPT ![r] = mode]
          /\ todo' = [todo EXCEPT ![r] = {f \in Files : tree[f] \in Content}]
          /\ failed' = [failed EXCEPT ![r] = {f \in Files : tree[f] = Broken}]
    /\ Goto(r, "list")
    /\ Arrive(r)
    /\ UNCHANGED <<stores, existing, collected, edgePass, calls, backlog,
                   skipped>>

ListUnits(r) ==
    /\ pc[r] = "list" /\ todo[r] # {}
    /\ LET seen == [n \in Names |-> ShaOf(rows[<<File(r), n>>])] IN
       /\ existing' = [existing EXCEPT ![r] = seen]
       /\ Goto(r, IF Obsolete(r, seen) # {} THEN "delete_units"
                                            ELSE "upsert_units")
    /\ UNCHANGED <<stores, parsed, embeds, todo, collected, failed, edgePass,
                   calls, backlog, skipped, overlapped, disturbed>>

DeleteUnits(r) ==
    /\ pc[r] = "delete_units"
    /\ rows' = [u \in UnitId |-> IF u[1] = File(r) THEN None ELSE rows[u]]
    /\ Goto(r, "delete_graph")
    /\ UNCHANGED <<nodes, externals, edges, points, locals, calls, backlog,
                   skipped, overlapped, disturbed>>

\* Neo4j: one DETACH DELETE of the file's nodes.
DeleteGraph(r) ==
    /\ pc[r] = "delete_graph" /\ Tier = "server"
    /\ Wipe(Stored(File(r)))
    /\ Goto(r, "delete_points")
    /\ UNCHANGED <<rows, externals, points, locals, doomed, landing, backlog,
                   skipped, overlapped, disturbed>>

\* SQLite: the ids are read first, outside the transaction ...
LookGraph(r) ==
    /\ pc[r] = "delete_graph" /\ Tier = "lite"
    /\ doomed' = [doomed EXCEPT ![r] = Stored(File(r))]
    /\ Goto(r, "wipe_graph")
    /\ UNCHANGED <<stores, locals, landing, raced, backlog, skipped,
                   overlapped, disturbed>>

\* ... and deleted by id in it.
WipeGraph(r) ==
    /\ pc[r] = "wipe_graph"
    /\ Wipe(doomed[r])
    /\ doomed' = [doomed EXCEPT ![r] = {}]
    /\ Goto(r, "delete_points")
    /\ UNCHANGED <<rows, externals, points, locals, landing, backlog, skipped,
                   overlapped, disturbed>>

DeletePoints(r) ==
    /\ pc[r] = "delete_points"
    /\ points' = [u \in UnitId |-> IF u[1] = File(r) THEN None ELSE points[u]]
    /\ Goto(r, "upsert_units")
    /\ UNCHANGED <<rows, nodes, externals, edges, locals, calls, backlog,
                   skipped, overlapped, disturbed>>

\* One transaction.
UpsertUnits(r) ==
    /\ pc[r] = "upsert_units"
    /\ rows' = [u \in UnitId |->
                  IF /\ u[1] = File(r) /\ u[2] \in Defines(r, File(r))
                     /\ Differs(rows[u], parsed[r][File(r)][u[2]])
                  THEN parsed[r][File(r)][u[2]]
                  ELSE rows[u]]
    /\ Goto(r, "upsert_nodes")
    /\ UNCHANGED <<nodes, externals, edges, points, locals, calls, backlog,
                   skipped, overlapped, disturbed>>

\* Mutant: an unchanged file contributes no edges to the final pass.
FinishFileIfChanged(r) ==
    /\ collected' = [collected EXCEPT ![r] =
                       IF Changed(r) = {} THEN @
                       ELSE @ \union BuildEdges(r, File(r))]
    /\ todo' = [todo EXCEPT ![r] = @ \ {File(r)}]
    /\ existing' = [existing EXCEPT ![r] = [n \in Names |-> None]]
    /\ Goto(r, "list")

\* The end of _ingest_file: its edges are handed to the final pass.
FinishFile(r) ==
    /\ collected' = [collected EXCEPT ![r] = @ \union BuildEdges(r, File(r))]
    /\ todo' = [todo EXCEPT ![r] = @ \ {File(r)}]
    /\ existing' = [existing EXCEPT ![r] = [n \in Names |-> None]]
    /\ Goto(r, "list")

\* Builds the file's graph and merges its nodes; properties are overwritten.
UpsertNodes(r) ==
    /\ pc[r] = "upsert_nodes"
    /\ nodes' = [u \in UnitId |->
                   IF u[1] = File(r) /\ u[2] \in Defines(r, File(r))
                   THEN parsed[r][File(r)][u[2]]
                   ELSE nodes[u]]
    /\ externals' = externals \union BuildExternals(r, File(r))
    /\ IF Placeholders(r) # {}
       THEN Goto(r, "placeholders") /\ UNCHANGED <<collected, todo, existing>>
       ELSE FinishFile(r)
    /\ UNCHANGED <<rows, edges, points, parsed, embeds, failed, edgePass,
                   calls, backlog, skipped, overlapped, disturbed>>

\* Whole points are replaced: what had a vector has none afterwards.
UpsertPlaceholders(r) ==
    /\ pc[r] = "placeholders"
    /\ points' = [u \in UnitId |->
                    IF u[1] = File(r) /\ u[2] \in Placeholders(r)
                    THEN [ver |-> parsed[r][File(r)][u[2]], vec |-> NoVector]
                    ELSE points[u]]
    /\ IF embeds[r] /\ Changed(r) # {}
       THEN Goto(r, "embed") /\ UNCHANGED <<collected, todo, existing>>
       ELSE FinishFile(r)
    /\ UNCHANGED <<rows, nodes, externals, edges, parsed, embeds, failed,
                   edgePass, calls, backlog, skipped, overlapped, disturbed>>

EmbedUnits(r) ==
    /\ pc[r] = "embed"
    /\ points' = [u \in UnitId |->
                    IF u[1] = File(r) /\ u[2] \in Changed(r)
                    THEN [ver |-> parsed[r][File(r)][u[2]],
                          vec |-> VectorOf(Sha[parsed[r][File(r)][u[2]]])]
                    ELSE points[u]]
    /\ FinishFile(r)
    /\ UNCHANGED <<rows, nodes, externals, edges, parsed, embeds, failed,
                   edgePass, calls, backlog, skipped, overlapped, disturbed>>

\* An embedding error never fails the file: its placeholders stay.
EmbedFails(r) ==
    /\ pc[r] = "embed"
    /\ FinishFile(r)
    /\ disturbed' = TRUE
    /\ UNCHANGED <<stores, parsed, embeds, failed, edgePass, calls, backlog,
                   skipped, overlapped>>

\* Any other exception fails the file; what was written before it stays.
FileFails(r) ==
    /\ \/ pc[r] = "list" /\ todo[r] # {}
       \/ pc[r] \in {"delete_units", "delete_graph", "wipe_graph",
                     "delete_points", "upsert_units", "upsert_nodes",
                     "placeholders"}
    /\ doomed' = [doomed EXCEPT ![r] = {}]
    /\ failed' = [failed EXCEPT ![r] = @ \union {File(r)}]
    /\ todo' = [todo EXCEPT ![r] = @ \ {File(r)}]
    /\ existing' = [existing EXCEPT ![r] = [n \in Names |-> None]]
    /\ Goto(r, "list")
    /\ disturbed' = TRUE
    /\ UNCHANGED <<stores, parsed, embeds, collected, edgePass, landing,
                   raced, backlog, skipped, overlapped>>

(* The final pass: the edges of all files, now that their nodes exist.     *)

\* Neo4j: one statement per kind of edge matches the ends and merges; which
\* edges share a kind is left open.
MergeEdges(r) ==
    /\ pc[r] = "list" /\ todo[r] = {} /\ Tier = "server"
    /\ \E batch \in SUBSET collected[r] \ {{}} :
          /\ edges' = edges \union {e \in batch : Lands(e)}
          /\ collected' = [collected EXCEPT ![r] = @ \ batch]
    /\ UNCHANGED <<rows, nodes, externals, points, pc, parsed, embeds, todo,
                   existing, failed, edgePass, calls, backlog, skipped,
                   overlapped, disturbed>>

\* SQLite: the nodes that exist are read first, outside the transaction ...
LookEdges(r) ==
    /\ pc[r] = "list" /\ todo[r] = {} /\ Tier = "lite"
    /\ collected[r] # {}
    /\ landing' = [landing EXCEPT ![r] = {e \in collected[r] : Lands(e)}]
    /\ Goto(r, "insert_edges")
    /\ UNCHANGED <<stores, locals, doomed, raced, backlog, skipped,
                   overlapped, disturbed>>

\* ... and the edges between them are inserted in it.
InsertEdges(r) ==
    /\ pc[r] = "insert_edges"
    /\ edges' = edges \union landing[r]
    /\ landing' = [landing EXCEPT ![r] = {}]
    /\ collected' = [collected EXCEPT ![r] = {}]
    /\ Goto(r, "returned")
    /\ UNCHANGED <<rows, nodes, externals, points, parsed, embeds, todo,
                   existing, failed, edgePass, doomed, raced, backlog,
                   skipped, overlapped, disturbed>>

\* No edge is left to write.
EdgesDone(r) ==
    /\ pc[r] = "list" /\ todo[r] = {} /\ collected[r] = {}
    /\ Goto(r, "returned")
    /\ UNCHANGED <<stores, locals, calls, backlog, skipped, overlapped,
                   disturbed>>

\* A failed edge pass is reported, not raised.
EdgePassFails(r) ==
    /\ \/ pc[r] = "list" /\ todo[r] = {} /\ collected[r] # {}
       \/ pc[r] = "insert_edges"
    /\ edgePass' = [edgePass EXCEPT ![r] = FALSE]
    /\ landing' = [landing EXCEPT ![r] = {}]
    /\ Goto(r, "returned")
    /\ disturbed' = TRUE
    /\ UNCHANGED <<stores, parsed, embeds, todo, existing, collected, failed,
                   doomed, raced, backlog, skipped, overlapped>>

Return(r) ==
    /\ pc[r] = "returned"
    /\ Goto(r, "idle")
    /\ parsed' = [parsed EXCEPT ![r] = [f \in Files |-> Absent]]
    /\ embeds' = [embeds EXCEPT ![r] = FALSE]
    /\ collected' = [collected EXCEPT ![r] = {}]
    /\ failed' = [failed EXCEPT ![r] = {}]
    /\ edgePass' = [edgePass EXCEPT ![r] = TRUE]
    /\ overlapped' = [overlapped EXCEPT ![r] = FALSE]
    /\ UNCHANGED <<stores, todo, existing, calls, backlog, skipped, disturbed>>

---------------------------------------------------------------------------
(* POST /ingest/reembed.                                                   *)

\* A second request for the repository is refused (409) while one runs.
ReembedStart ==
    /\ pc[Reembed] = "idle"
    /\ Goto(Reembed, "list")
    /\ Arrive(Reembed)
    /\ UNCHANGED <<stores, locals, calls, backlog, skipped>>

\* Mutant: units that have a vector are taken to be up to date.
OnlyVectorless ==
    [u \in UnitId |-> IF points[u] # None /\ points[u].vec # NoVector
                      THEN None ELSE rows[u]]

\* Every unit of the repository, with a vector or not.
ToReembed == rows

ReembedList ==
    /\ pc[Reembed] = "list"
    /\ backlog' = ToReembed
    /\ Goto(Reembed, "embed")
    /\ UNCHANGED <<stores, locals, calls, skipped, overlapped, disturbed>>

\* The listing raises: the request ends and frees its in-flight slot.
ReembedListFails ==
    /\ pc[Reembed] = "list"
    /\ Goto(Reembed, "idle")
    /\ overlapped' = [overlapped EXCEPT ![Reembed] = FALSE]
    /\ UNCHANGED <<stores, locals, calls, backlog, skipped, disturbed>>

Backlog == {u \in UnitId : backlog[u] # None}

\* One batch of the units read at the start; _REEMBED_BATCH_SIZE is left
\* open, so a batch is any part of what remains.
ReembedBatch ==
    /\ pc[Reembed] = "embed"
    /\ \E batch \in SUBSET Backlog \ {{}} :
          /\ points' = [u \in UnitId |->
                          IF u \in batch
                          THEN [ver |-> backlog[u],
                                vec |-> VectorOf(Sha[backlog[u]])]
                          ELSE points[u]]
          /\ backlog' = [u \in UnitId |->
                           IF u \in batch THEN None ELSE backlog[u]]
    /\ UNCHANGED <<rows, nodes, externals, edges, pc, locals, calls, skipped,
                   overlapped, disturbed>>

ReembedBatchFails ==
    /\ pc[Reembed] = "embed"
    /\ \E batch \in SUBSET Backlog \ {{}} :
          backlog' = [u \in UnitId |->
                        IF u \in batch THEN None ELSE backlog[u]]
    /\ skipped' = TRUE
    /\ UNCHANGED <<stores, pc, locals, calls, overlapped, disturbed>>

ReembedReturn ==
    /\ pc[Reembed] = "embed" /\ Backlog = {}
    /\ Goto(Reembed, "returned")
    /\ UNCHANGED <<stores, locals, calls, backlog, skipped, overlapped,
                   disturbed>>

ReembedEnd ==
    /\ pc[Reembed] = "returned"
    /\ Goto(Reembed, "idle")
    /\ skipped' = FALSE
    /\ overlapped' = [overlapped EXCEPT ![Reembed] = FALSE]
    /\ UNCHANGED <<stores, locals, calls, backlog, disturbed>>

---------------------------------------------------------------------------
\* The process dies: the stores survive, every request is gone.
Crash ==
    /\ \E w \in Writers : Busy(w)
    /\ pc' = [w \in Writers |-> "idle"]
    /\ parsed' = [r \in Runs |-> [f \in Files |-> Absent]]
    /\ embeds' = [r \in Runs |-> FALSE]
    /\ todo' = [r \in Runs |-> {}]
    /\ existing' = [r \in Runs |-> [n \in Names |-> None]]
    /\ collected' = [r \in Runs |-> {}]
    /\ failed' = [r \in Runs |-> {}]
    /\ edgePass' = [r \in Runs |-> TRUE]
    /\ doomed' = [r \in Runs |-> {}]
    /\ landing' = [r \in Runs |-> {}]
    /\ raced' = raced \intersect edges
    /\ backlog' = [u \in UnitId |-> None]
    /\ skipped' = FALSE
    /\ overlapped' = [w \in Writers |-> FALSE]
    /\ disturbed' = TRUE
    /\ UNCHANGED stores

FileStep(r) ==
    \/ ListUnits(r) \/ DeleteUnits(r) \/ DeleteGraph(r) \/ LookGraph(r)
    \/ WipeGraph(r) \/ DeletePoints(r) \/ UpsertUnits(r) \/ UpsertNodes(r)
    \/ UpsertPlaceholders(r) \/ EmbedUnits(r) \/ EmbedFails(r) \/ FileFails(r)

RunStep(r) ==
    \/ Start(r) \/ FileStep(r) \/ MergeEdges(r) \/ LookEdges(r)
    \/ InsertEdges(r) \/ EdgesDone(r) \/ EdgePassFails(r) \/ Return(r)

ReembedStep ==
    \/ ReembedStart \/ ReembedList \/ ReembedListFails \/ ReembedBatch
    \/ ReembedBatchFails \/ ReembedReturn \/ ReembedEnd

Next == (\E r \in Runs : RunStep(r)) \/ ReembedStep \/ Crash

Spec == Init /\ [][Next]_vars

---------------------------------------------------------------------------
(* Properties.                                                             *)

\* Every variable has its type.
TypeOK ==
    /\ rows \in [UnitId -> Versions \union {None}]
    /\ nodes \in [UnitId -> Versions \union {None}]
    /\ externals \subseteq UnitId
    /\ edges \subseteq Edge
    /\ points \in [UnitId -> Point \union {None}]
    /\ pc \in [Writers -> Stage]
    /\ parsed \in [Runs -> [Files -> Content \union {Absent, Broken}]]
    /\ embeds \in [Runs -> BOOLEAN]
    /\ todo \in [Runs -> SUBSET Files]
    /\ existing \in [Runs -> [Names -> Shas \union {None}]]
    /\ collected \in [Runs -> SUBSET Edge]
    /\ failed \in [Runs -> SUBSET Files]
    /\ edgePass \in [Runs -> BOOLEAN]
    /\ doomed \in [Runs -> SUBSET UnitId]
    /\ landing \in [Runs -> SUBSET Edge]
    /\ raced \subseteq Edge
    /\ backlog \in [UnitId -> Versions \union {None}]
    /\ skipped \in BOOLEAN
    /\ overlapped \in [Writers -> BOOLEAN]
    /\ disturbed \in BOOLEAN

\* No dangling edge: both endpoints of every stored edge are stored, whatever
\* runs interleave with a wipe of one endpoint's file (upsert_edges against
\* delete_subgraph_for_file), and wherever a run failed or was killed.  The
\* one exception is SQLite's: an edge whose endpoint went between upsert_edges'
\* SELECT and its INSERT.
EdgeEndpointsExist ==
    \A e \in edges :
        \/ nodes[e[1]] # None /\ HasNode(e[2])
        \/ Tier = "lite" /\ e \in raced

\* A run that nobody overlapped leaves, for every file it did not report in
\* failed_files, exactly the parsed units in the unit table (by sha), and
\* their current versions in the graph: it repairs whatever earlier failed,
\* killed or interleaved runs left there.
CleanRunMirrors ==
    \A r \in Runs : pc[r] = "returned" /\ ~overlapped[r] =>
        \A f \in Parsed(r) \ failed[r], n \in Names :
            /\ ShaOf(rows[<<f, n>>]) = ShaOf(parsed[r][f][n])
            /\ parsed[r][f][n] # None => nodes[<<f, n>>] = parsed[r][f][n]

\* Such a run, when no file and no edge pass failed, also leaves every edge of
\* the tree: those to a file ingested later, and those from an unchanged file
\* to one that was wiped.
CleanRunLinks ==
    \A r \in Runs :
        /\ pc[r] = "returned" /\ ~overlapped[r]
        /\ failed[r] = {} /\ edgePass[r]
        => \A f \in Parsed(r) : BuildEdges(r, f) \subseteq edges

\* While nothing ever failed, overlapped or was killed, the three stores hold
\* the same units of a file once its run returned: no node or point outlives
\* its unit, and no point describes another text than the row.
StoresAgree ==
    \A r \in Runs : pc[r] = "returned" /\ ~disturbed =>
        \A f \in Parsed(r), n \in Names :
            LET u == <<f, n>> IN
            /\ nodes[u] = None <=> rows[u] = None
            /\ IF rows[u] = None
               THEN points[u] = None
               ELSE points[u] # None /\ Sha[points[u].ver] = Sha[rows[u]]

\* Readers of the unit table see a file empty or at one version of its text,
\* never a mix of two, also while a run is between two store calls and after
\* one failed or was killed (obsolete units go before the new ones come).
RowsAreOneVersion ==
    \A f \in Files :
        LET row == [n \in Names |-> ShaOf(rows[<<f, n>>])] IN
        \/ \A n \in Names : row[n] = None
        \/ \E tree \in Trees :
              /\ tree[f] \in Content
              /\ row = [n \in Names |-> ShaOf(tree[f][n])]

\* A point loses its vector to a placeholder only when its text changed, when
\* the writing run has no embedding pipeline, or after a failure or overlap:
\* re-ingesting never zeroes the vectors of unchanged units.
VectorsKept ==
    [][\A u \in UnitId :
          /\ points[u] # None /\ points'[u] # None
          /\ points[u].vec # NoVector /\ points'[u].vec = NoVector
          => \/ Sha[points[u].ver] # Sha[points'[u].ver]
             \/ \E r \in Runs : pc[r] = "placeholders" /\ ~embeds[r]
             \/ disturbed]_vars

\* A reembed that lost no batch and that nothing overlapped leaves every unit
\* of the table with a point of its current text, and with that text's vector
\* if it has a chunk to embed, whatever embedding failures, kills or
\* placeholder-only runs came before; a blank unit keeps no older vector.
ReembedBackfills ==
    pc[Reembed] = "returned" /\ ~skipped /\ ~overlapped[Reembed] =>
        \A u \in UnitId : rows[u] # None =>
            /\ points[u] # None
            /\ Sha[points[u].ver] = Sha[rows[u]]
            /\ points[u].vec = VectorOf(Sha[rows[u]])

\* What the pipeline's documentation promises of a re-run: after a run that
\* reported no failed file, every unit has a point for its current text.
RerunReplays ==
    \A r \in Runs :
        pc[r] = "returned" /\ ~overlapped[r] /\ failed[r] = {} =>
            \A f \in Parsed(r) : \A n \in Defines(r, f) :
                /\ points[<<f, n>>] # None
                /\ Sha[points[<<f, n>>].ver] = Sha[parsed[r][f][n]]
=============================================================================
