--------------------------- MODULE EmbeddingMode ----------------------------
(***************************************************************************)
(* The embedding mode: one row of runtime configuration and its in-memory  *)
(* snapshot, one vector collection per repository, and the requests that   *)
(* write them: the mode switch with its inline reindex, the two key        *)
(* endpoints, ingests and reembeds.  A repository has one unit; a request  *)
(* is cut at its awaits.                                                   *)
(*                                                                         *)
(* Both tiers are here.  The lite store keeps any vector and recreates a   *)
(* collection in one transaction; the vector database of the server tier   *)
(* rejects a vector that does not have the collection's size, and deletes  *)
(* and creates in two calls.                                               *)
(***************************************************************************)
EXTENDS Naturals, FiniteSets

CONSTANTS
    Repos,       \* repositories
    Slots,       \* requests in progress at the same time
    Versions,    \* versions of a unit's text
    Blank,       \* those without a chunk to embed: an empty __init__.py
    None,        \* no collection, size, point, embedder, repository or text
    MaxRequests, \* bound: requests that arrive
    MaxFaults    \* bound: failed calls and restarts

Modes  == {"openai", "local"}
Config == [mode : Modes, openaiKey : BOOLEAN, mcpKey : BOOLEAN]

ConfigOps == {"switch", "openai_key", "mcp_key"}
Ops       == ConfigOps \union {"ingest", "reembed"}

ASSUME EmbeddingAssumption ==
    /\ None \notin Nat \union Repos \union Versions \union Config \union Ops
    /\ Blank \subseteq Versions
    /\ MaxRequests \in Nat /\ MaxFaults \in Nat

VARIABLES
    tier,       \* "lite" or "server"
    cfg,        \* the app_config row
    snap,       \* RuntimeConfig._row
    unit,       \* table ingestion_units: the text of each repository's unit
    size,       \* the stored size of each repository's collection
    sizeCache,  \* the store client's cached sizes
    point,      \* the point of each repository's unit
    inFlight,   \* _REEMBED_IN_FLIGHT
    req,        \* the request each slot works on
    arrived, faults, \* bounded counters
    asked,      \* history: the last value asked for, field by field
    crossed,    \* history: configuration writes overlapped
    spoiled,    \* history: repositories on which requests overlapped or failed
    lone        \* history: requests nothing overlapped and in which nothing failed

stores == <<unit, size, sizeCache, point>>
ghosts == <<asked, crossed, spoiled, lone>>
vars   == <<tier, cfg, snap, stores, inFlight, req, arrived, faults, ghosts>>

LocalSize  == 384
OpenAISize == 1536
Sizes      == {LocalSize, OpenAISize}

Idle == [pc |-> "idle", op |-> None, mode |-> None, key |-> FALSE,
         row |-> None, left |-> {}, repo |-> None, embedder |-> None, text |-> None,
         failed |-> FALSE]

---------------------------------------------------------------------------
(* What the snapshot selects.                                              *)

EmbeddingsEnabled(c) == c.mode = "local" \/ c.openaiKey

\* The size of the embedder's vectors, None when embeddings are off.
RuntimeEmbedder(c) ==
    IF ~EmbeddingsEnabled(c) THEN None
    ELSE IF c.mode = "local" THEN LocalSize ELSE OpenAISize

ActiveDimension(c) ==
    IF EmbeddingsEnabled(c) /\ c.mode = "local" THEN LocalSize ELSE OpenAISize

---------------------------------------------------------------------------
(* The vector store.                                                       *)

\* Creates a missing collection; an existing one keeps its size, but the
\* client remembers the size that was asked for.
EnsureCollection(r, n) ==
    /\ size' = [size EXCEPT ![r] = IF @ = None THEN n ELSE @]
    /\ sizeCache' = [sizeCache EXCEPT ![r] = n]

DropAndCreate(r, n) ==
    /\ point' = [point EXCEPT ![r] = None]
    /\ size' = [size EXCEPT ![r] = n]
    /\ sizeCache' = [sizeCache EXCEPT ![r] = n]

DeleteCollection(r) ==
    /\ point' = [point EXCEPT ![r] = None]
    /\ size' = [size EXCEPT ![r] = None]

PlaceholderSize(r) == IF sizeCache[r] # None THEN sizeCache[r] ELSE size[r]

\* The database takes a point only if its vector has the collection's size.
Accepts(r, n) == tier = "lite" \/ size[r] = n

Upsert(r, text, n, hasVector) ==
    point' = [point EXCEPT ![r] = [text |-> text, size |-> n, vector |-> hasVector]]

---------------------------------------------------------------------------
Init ==
    /\ tier \in {"lite", "server"}
    /\ cfg \in {c \in Config : ~c.mcpKey} /\ snap = cfg
    /\ \/ \* nothing ingested
          /\ unit = [r \in Repos |-> None] /\ size = [r \in Repos |-> None]
          /\ point = [r \in Repos |-> None]
       \/ \* every repository ingested in this mode
          \E v \in Versions :
            /\ unit = [r \in Repos |-> v]
            /\ size = [r \in Repos |-> ActiveDimension(cfg)]
            /\ point = [r \in Repos |-> [text |-> v, size |-> ActiveDimension(cfg),
                                         vector |-> EmbeddingsEnabled(cfg) /\ v \notin Blank]]
    /\ sizeCache = [r \in Repos |-> None]
    /\ inFlight = {} /\ req = [s \in Slots |-> Idle]
    /\ arrived = 0 /\ faults = 0
    /\ asked = cfg /\ crossed = FALSE /\ spoiled = {} /\ lone = {}

---------------------------------------------------------------------------
(* Arrivals.  A caller the endpoint turns away changes nothing.            *)

Busy(s) == req[s].pc # "idle"

\* The repositories a request writes: all of them for a mode switch.
Touches(q) == CASE q.op = "switch" -> Repos
                [] q.op \in {"ingest", "reembed"} -> {q.repo}
                [] OTHER -> {}
Writers == {t \in Slots : Busy(t) /\ req[t].op \in ConfigOps}

Arrive(s, q) ==
    LET others == {t \in Slots \ {s} : Busy(t)} IN
    /\ ~Busy(s) /\ arrived < MaxRequests
    /\ arrived' = arrived + 1
    /\ req' = [req EXCEPT ![s] = q]
    /\ lone' = IF others = {} THEN {s} ELSE {}
    /\ spoiled' = spoiled \union
                  UNION {Touches(q) \intersect Touches(req[t]) : t \in others}
    /\ crossed' = (crossed \/ (q.op \in ConfigOps /\ Writers # {}))
    /\ UNCHANGED <<tier, cfg, snap, stores, faults>>

SetEmbeddingMode(s, m) ==
    /\ Arrive(s, [Idle EXCEPT !.op = "switch", !.pc = "read", !.mode = m,
                              !.row = snap])
    /\ asked' = [asked EXCEPT !.mode = m]
    /\ UNCHANGED inFlight

SetOpenAIKey(s, present) ==
    /\ Arrive(s, [Idle EXCEPT !.op = "openai_key", !.pc = "read", !.key = present])
    /\ asked' = [asked EXCEPT !.openaiKey = present]
    /\ UNCHANGED inFlight

GenerateMcpKey(s) ==
    /\ Arrive(s, [Idle EXCEPT !.op = "mcp_key", !.pc = "read"])
    /\ asked' = [asked EXCEPT !.mcpKey = TRUE]
    /\ UNCHANGED inFlight

Ingest(s, r, v) ==
    /\ Arrive(s, [Idle EXCEPT !.op = "ingest", !.pc = "ensure", !.repo = r, !.text = v])
    /\ UNCHANGED <<inFlight, asked>>

\* 400 when embeddings are off, 409 while another reembed of r runs.
Reembed(s, r) ==
    /\ EmbeddingsEnabled(snap) /\ r \notin inFlight
    /\ inFlight' = inFlight \union {r}
    /\ Arrive(s, [Idle EXCEPT !.op = "reembed", !.pc = "list", !.repo = r,
                              !.embedder = RuntimeEmbedder(snap)])
    /\ UNCHANGED asked

---------------------------------------------------------------------------
(* Configuration writes: read the row, write it back with one field        *)
(* changed, read it again, swap the snapshot.                              *)

At(s, pc) == req[s].pc = pc
Go(s, pc) == req' = [req EXCEPT ![s].pc = pc]
Return(s) == req' = [req EXCEPT ![s] = Idle]
Still     == UNCHANGED <<tier, arrived, faults, asked, crossed>>

\* AppConfigRepository.upsert: the merge of the row it read.
Merged(q, row) ==
    CASE q.op = "switch"     -> [row EXCEPT !.mode = q.mode]
      [] q.op = "openai_key" -> [row EXCEPT !.openaiKey = q.key]
      [] q.op = "mcp_key"    -> [row EXCEPT !.mcpKey = TRUE]

ReadRow(s) ==
    /\ At(s, "read")
    /\ req' = [req EXCEPT ![s].pc = "write", ![s].row = Merged(req[s], cfg),
                          ![s].key = (req[s].row # None /\ req[s].row.mode # req[s].mode)]
    /\ UNCHANGED <<cfg, snap, stores, inFlight, spoiled, lone>> /\ Still

WriteRow(s) ==
    /\ At(s, "write")
    /\ cfg' = req[s].row
    /\ Go(s, "reload")
    /\ UNCHANGED <<snap, stores, inFlight, spoiled, lone>> /\ Still

Reload(s) ==
    /\ At(s, "reload")
    /\ req' = [req EXCEPT ![s].pc = "swap", ![s].row = cfg]
    /\ UNCHANGED <<cfg, snap, stores, inFlight, spoiled, lone>> /\ Still

\* Mutant of SwapSnapshot: only a mode switch swaps the snapshot.
SwapOnSwitch(s) ==
    /\ At(s, "swap")
    /\ snap' = IF req[s].op = "switch" THEN req[s].row ELSE snap
    /\ req' = [req EXCEPT ![s].row = None,
                 ![s].pc = IF req[s].op = "switch" /\ req[s].key THEN "repos"
                           ELSE "respond"]
    /\ UNCHANGED <<cfg, stores, inFlight, spoiled, lone>> /\ Still

SwapSnapshot(s) ==
    /\ At(s, "swap")
    /\ snap' = req[s].row
    /\ req' = [req EXCEPT ![s].row = None,
                 ![s].pc = IF req[s].op = "switch" /\ req[s].key THEN "repos"
                           ELSE "respond"]
    /\ UNCHANGED <<cfg, stores, inFlight, spoiled, lone>> /\ Still

\* The repositories that have units; none of them is reindexed when the mode
\* did not change.
ListRepos(s) ==
    /\ At(s, "repos")
    /\ req' = [req EXCEPT ![s].pc = "next", ![s].left = {r \in Repos : unit[r] # None}]
    /\ UNCHANGED <<cfg, snap, stores, inFlight, spoiled, lone>> /\ Still

\* Mutant of NextRepo: the loop ends one repository early.
NextRepoEarly(s) ==
    /\ At(s, "next")
    /\ IF Cardinality(req[s].left) <= 1 THEN Go(s, "respond")
       ELSE \E r \in req[s].left :
              req' = [req EXCEPT ![s].pc = "recreate", ![s].repo = r,
                                 ![s].left = @ \ {r}]
    /\ UNCHANGED <<cfg, snap, stores, inFlight, spoiled, lone>> /\ Still

NextRepo(s) ==
    /\ At(s, "next")
    /\ IF req[s].left = {} THEN Go(s, "respond")
       ELSE \E r \in req[s].left :
              req' = [req EXCEPT ![s].pc = "recreate", ![s].repo = r,
                                 ![s].left = @ \ {r}]
    /\ UNCHANGED <<cfg, snap, stores, inFlight, spoiled, lone>> /\ Still

---------------------------------------------------------------------------
(* reindex_repo, the reembed loop and the run: the calls on the stores.    *)

\* Mutant of Recreate: the reindex reuses an existing collection.
RecreateByEnsure(s) ==
    /\ At(s, "recreate")
    /\ EnsureCollection(req[s].repo, ActiveDimension(snap))
    /\ Go(s, "list")
    /\ UNCHANGED <<cfg, snap, unit, point, inFlight, spoiled, lone>> /\ Still

\* The size is taken from the snapshot of this moment.
Recreate(s) ==
    /\ At(s, "recreate")
    /\ \/ /\ tier = "lite"
          /\ DropAndCreate(req[s].repo, ActiveDimension(snap))
          /\ Go(s, "list")
       \/ /\ tier = "server"
          /\ DeleteCollection(req[s].repo)
          /\ req' = [req EXCEPT ![s].pc = "create",
                                ![s].embedder = ActiveDimension(snap)]
          /\ UNCHANGED sizeCache
    /\ UNCHANGED <<cfg, snap, unit, inFlight, spoiled, lone>> /\ Still

\* A collection somebody else created in between makes the call, and with it
\* the whole request, fail.
Create(s) ==
    LET r == req[s].repo IN
    /\ At(s, "create")
    /\ IF size[r] = None
       THEN /\ EnsureCollection(r, req[s].embedder) /\ Go(s, "list")
            /\ UNCHANGED <<spoiled, lone>>
       ELSE /\ Return(s) /\ spoiled' = spoiled \union Repos /\ lone' = lone \ {s}
            /\ UNCHANGED <<size, sizeCache>>
    /\ UNCHANGED <<cfg, snap, unit, point, inFlight>> /\ Still

\* The units to embed, and for a reindex the embedder of this moment.
ListUnits(s) ==
    LET q == req[s]
        e == IF q.op = "switch" THEN RuntimeEmbedder(snap) ELSE q.embedder IN
    /\ At(s, "list")
    /\ req' = [req EXCEPT ![s].embedder = e, ![s].text = unit[q.repo],
                 ![s].pc = IF e # None /\ unit[q.repo] # None THEN "batch"
                           ELSE IF q.op = "switch" THEN "next" ELSE "respond"]
    /\ UNCHANGED <<cfg, snap, stores, inFlight, spoiled, lone>> /\ Still

\* run_ingest: size the collection, then build the embedder.
EnsureSized(s) ==
    /\ At(s, "ensure")
    /\ EnsureCollection(req[s].repo, ActiveDimension(snap))
    /\ Go(s, "rows")
    /\ UNCHANGED <<cfg, snap, unit, point, inFlight, spoiled, lone>> /\ Still

\* Mutant of UpsertRows: without an embedder no point is written.
UpsertRowsLexical(s) ==
    LET q == req[s]
        e == RuntimeEmbedder(snap) IN
    /\ At(s, "rows")
    /\ unit' = [unit EXCEPT ![q.repo] = q.text]
    /\ req' = [req EXCEPT ![s].embedder = e,
                 ![s].pc = IF e = None \/ unit[q.repo] = q.text THEN "respond"
                           ELSE "placeholder"]
    /\ UNCHANGED <<cfg, snap, size, sizeCache, point, inFlight, spoiled, lone>> /\ Still

\* The unit's row; a unit whose text is unchanged is not embedded again, and
\* not touched at all when there is an embedder.
UpsertRows(s) ==
    LET q == req[s]
        e == RuntimeEmbedder(snap) IN
    /\ At(s, "rows")
    /\ unit' = [unit EXCEPT ![q.repo] = q.text]
    /\ req' = [req EXCEPT ![s].embedder = e,
                 ![s].pc = IF e # None /\ unit[q.repo] = q.text THEN "respond"
                           ELSE "placeholder"]
    /\ UNCHANGED <<cfg, snap, size, sizeCache, point, inFlight, spoiled, lone>> /\ Still

Spoil(s) == spoiled' = spoiled \union {req[s].repo} /\ lone' = lone \ {s}

UpsertPlaceholder(s) ==
    LET r == req[s].repo
        n == PlaceholderSize(r) IN
    /\ At(s, "placeholder")
    /\ IF Accepts(r, n)
       THEN /\ Upsert(r, req[s].text, n, FALSE)
            /\ Go(s, IF req[s].embedder = None THEN "respond" ELSE "batch")
            /\ UNCHANGED <<spoiled, lone>>
       ELSE /\ Go(s, "respond") /\ Spoil(s) /\ UNCHANGED point
    /\ UNCHANGED <<cfg, snap, unit, size, sizeCache, inFlight>> /\ Still

\* EmbeddingPipeline.run: the collection at the embedder's size...
EnsureForBatch(s) ==
    /\ At(s, "batch")
    /\ EnsureCollection(req[s].repo, req[s].embedder)
    /\ Go(s, "embed")
    /\ UNCHANGED <<cfg, snap, unit, point, inFlight, spoiled, lone>> /\ Still

\* A reindex goes on to the next repository, a run and a reembed answer.
AfterBatch(q) == [q EXCEPT !.pc = IF q.op = "switch" THEN "next" ELSE "respond",
                           !.embedder = None, !.text = None]

\* A text without a chunk is written as a placeholder.
BatchSize(q) == IF q.text \in Blank THEN PlaceholderSize(q.repo) ELSE q.embedder

UpsertBatch(q) == Upsert(q.repo, q.text, BatchSize(q), q.text \notin Blank)

\* Mutant of WriteBatch: a point that exists is taken for embedded.
WriteMissing(s) ==
    LET q == req[s] IN
    /\ At(s, "embed")
    /\ Accepts(q.repo, BatchSize(q))
    /\ IF point[q.repo] = None THEN UpsertBatch(q) ELSE UNCHANGED point
    /\ req' = [req EXCEPT ![s] = AfterBatch(q)]
    /\ UNCHANGED <<cfg, snap, unit, size, sizeCache, inFlight, spoiled, lone>> /\ Still

\* ... and, when the provider has answered, the points.
WriteBatch(s) ==
    LET q == req[s] IN
    /\ At(s, "embed")
    /\ Accepts(q.repo, BatchSize(q))
    /\ UpsertBatch(q)
    /\ req' = [req EXCEPT ![s] = AfterBatch(q)]
    /\ UNCHANGED <<cfg, snap, unit, size, sizeCache, inFlight, spoiled, lone>> /\ Still

\* The provider gives up, or the database rejects the vectors: the batch is
\* counted and the request goes on.
BatchFails(s) ==
    LET q == req[s]
        rejected == ~Accepts(q.repo, BatchSize(q)) IN
    /\ At(s, "embed")
    /\ rejected \/ faults < MaxFaults
    /\ faults' = IF rejected THEN faults ELSE faults + 1
    /\ req' = [req EXCEPT ![s] = [AfterBatch(q) EXCEPT !.failed = TRUE]]
    /\ Spoil(s)
    /\ UNCHANGED <<tier, cfg, snap, stores, inFlight, arrived, asked, crossed>>

\* A mode switch nothing disturbed has brought the collection of every
\* repository with units in line; one without rows is not on its list.
Respond(s) ==
    LET q == req[s] IN
    /\ At(s, "respond")
    /\ Return(s)
    /\ inFlight' = IF q.op = "reembed" THEN inFlight \ {q.repo} ELSE inFlight
    /\ spoiled' = IF q.op = "switch" /\ q.key /\ s \in lone /\ ~q.failed
                  THEN {r \in spoiled : unit[r] = None} ELSE spoiled
    /\ lone' = lone \ {s}
    /\ UNCHANGED <<cfg, snap, stores>> /\ Still

---------------------------------------------------------------------------
(* Failures.                                                               *)

Lost(q) == q.op \in ConfigOps /\ q.pc \in {"read", "write", "reload", "swap"}

\* A call raises outside the isolated batches: the request ends, and a
\* reembed gives its slot back.
Fail(s) ==
    /\ Busy(s) /\ faults < MaxFaults
    /\ faults' = faults + 1
    /\ Return(s)
    /\ inFlight' = IF req[s].op = "reembed" THEN inFlight \ {req[s].repo} ELSE inFlight
    /\ spoiled' = spoiled \union Touches(req[s]) /\ lone' = lone \ {s}
    /\ crossed' = (crossed \/ Lost(req[s]))
    /\ UNCHANGED <<tier, cfg, snap, stores, arrived, asked>>

Restart ==
    /\ faults < MaxFaults
    /\ faults' = faults + 1
    /\ req' = [s \in Slots |-> Idle] /\ inFlight' = {} /\ lone' = {}
    /\ snap' = cfg /\ sizeCache' = [r \in Repos |-> None]
    /\ spoiled' = spoiled \union UNION {Touches(req[s]) : s \in Slots}
    /\ crossed' = (crossed \/ \E s \in Slots : Lost(req[s]))
    /\ UNCHANGED <<tier, cfg, unit, size, point, arrived, asked>>

Arrival(s) ==
    \/ \E m \in Modes : SetEmbeddingMode(s, m)
    \/ \E present \in BOOLEAN : SetOpenAIKey(s, present)
    \/ GenerateMcpKey(s)
    \/ \E r \in Repos : Reembed(s, r) \/ \E v \in Versions : Ingest(s, r, v)

Call(s) ==
    \/ ReadRow(s) \/ WriteRow(s) \/ Reload(s) \/ SwapSnapshot(s)
    \/ ListRepos(s) \/ NextRepo(s) \/ Recreate(s) \/ Create(s) \/ ListUnits(s)
    \/ EnsureSized(s) \/ UpsertRows(s) \/ UpsertPlaceholder(s)
    \/ EnsureForBatch(s) \/ WriteBatch(s) \/ BatchFails(s) \/ Respond(s)

Next ==
    \/ \E s \in Slots : Arrival(s) \/ Call(s) \/ Fail(s)
    \/ Restart

Spec == Init /\ [][Next]_vars

---------------------------------------------------------------------------
(* Properties.                                                             *)

\* What a search in the active mode finds: the current text, embedded at the
\* size of the query's vector.  A text with nothing to embed is there by its
\* payload alone, and only a lookup by that finds it.
Searchable(r) ==
    point[r] = [text |-> unit[r], size |-> ActiveDimension(snap), vector |-> unit[r] \notin Blank]

\* A mode switch that changed the mode, that nothing overlapped and in which
\* no batch failed, leaves every unit with something to embed searchable in
\* the new mode, and no point of the old one, from whatever state earlier
\* failures and overlaps left.
SwitchServes ==
    \A s \in lone :
        /\ At(s, "respond") /\ req[s].op = "switch" /\ req[s].key /\ ~req[s].failed
        /\ EmbeddingsEnabled(snap)
        => \A r \in Repos : unit[r] # None => Searchable(r)

\* What a lone reembed counts as embedded is searchable afterwards, if it has
\* anything to embed.
ReembedServes ==
    \A s \in lone :
        /\ At(s, "respond") /\ req[s].op = "reembed" /\ ~req[s].failed
        /\ unit[req[s].repo] # None
        => Searchable(req[s].repo)

Quiet == \A s \in Slots : ~Busy(s)

\* Between requests a collection has the size of the active mode, unless a
\* request that wrote to its repository failed or overlapped another one
\* since the last undisturbed switch that found units in it.  (An ingest that
\* died before its first row leaves a collection no later switch resizes, and
\* configuration writes that overlap may turn the mode back behind a switch.)
SizesFollowMode ==
    Quiet /\ ~crossed => \A r \in Repos \ spoiled : size[r] \in {None, ActiveDimension(snap)}

\* Between requests a point holds the text of its unit's row, under the same
\* exception: a reembed or reindex writes back the text it listed.
PointsFollowRows ==
    Quiet => \A r \in Repos \ spoiled : point[r] # None => point[r].text = unit[r]

\* Between requests the row and the snapshot hold what was last asked for,
\* field by field, unless configuration writes overlapped or broke off.
ConfigKept == Quiet /\ ~crossed => cfg = asked /\ snap = cfg
=============================================================================
