--------------------------- MODULE LocalFreshness ---------------------------
(***************************************************************************)
(* How the memory of local repositories follows their files: the watcher,  *)
(* which takes the changed paths in batches and reingests the innermost    *)
(* watched repository of each; POST /ingest and the forced sync, which     *)
(* take no lock; pause, removal, crash, and a boot whose health gate may   *)
(* leave the process in safe mode, in which the watcher drops its batches. *)
(*                                                                         *)
(* A file is a count of its changes; one that is deleted keeps its count,  *)
(* and its rows, since a run visits only the files it finds.  A run reads  *)
(* the tree in one step and writes the memory in another; what happens in  *)
(* between is Ingestion's, but for a run that dies there.                  *)
(* Nobody but the watcher takes the lock of a local repository.            *)
(***************************************************************************)
EXTENDS Nothing, Ordering, Naturals, Sequences, FiniteSets

CONSTANTS
    AutoSha,
    Order,                  \* the repositories, sorted by id
    Files,                  \* repository -> the files below its root
    Depth,                  \* repository -> the length of its root
    SafeModeEnabled,        \* the setting
    LocalSlots,             \* requests under way at the same time
    MaxEvents               \* bound on what happens from outside

LocalRepos == {Order[n] : n \in DOMAIN Order}
AllFiles   == UNION {Files[r] : r \in LocalRepos}

\* The repositories are a list; None stands for the watcher among the runs.
ASSUME LocalAssumption == Order \in Seq(LocalRepos) /\ None \notin LocalSlots

VARIABLES
    disk,           \* file -> version
    deleted,        \* the files that are not there
    head,           \* repository -> the versions of its last commit
    row,            \* repository -> None or [watch, sha]
    memory,         \* repository -> file -> version, or None: rows lost halfway
    up, safe,
    pending,        \* changed paths the watch has not handed over
    watcher,        \* [pc, batch, todo, and the run's repo, sha, tree, absent, lone]
    request,        \* slot -> Idle or the run of a request
    missed, torn,   \* repository -> files: history, see below
    events

localVars == <<disk, deleted, head, row, memory, up, safe, pending, watcher, request, missed, torn, events>>
ghosts    == <<missed, torn>>

Idle == [pc |-> "idle"]

Tree(r) == [f \in Files[r] |-> disk[f]]

LocalInit ==
    /\ disk = [f \in AllFiles |-> 0] /\ deleted = {}
    /\ head = [r \in LocalRepos |-> Tree(r)] /\ memory = [r \in LocalRepos |-> Tree(r)]
    /\ row = [r \in LocalRepos |-> [watch |-> TRUE, sha |-> AutoSha]]
    /\ up = TRUE /\ safe = SafeModeEnabled
    /\ pending = {} /\ watcher = Idle /\ request = [s \in LocalSlots |-> Idle]
    /\ missed = [r \in LocalRepos |-> {}] /\ torn = [r \in LocalRepos |-> {}]
    /\ events = 0

Happens == events < MaxEvents /\ events' = events + 1

---------------------------------------------------------------------------
(* History.  "missed" holds the files of a repository whose last change    *)
(* nothing will bring to its memory, "torn" those whose last write failed, *)
(* was cut off, found no file, or overlapped with another run.             *)

Missing(lost) == missed' = [r \in LocalRepos |-> missed[r] \union (lost[r] \intersect Files[r])]

MissEverywhere(files) == Missing([r \in LocalRepos |-> files])

Watched == {r \in LocalRepos : row[r] # None /\ row[r].watch}

\* A change belongs to the innermost of the watched repositories.
Belongs(f, r) == r \in Watched /\ ~\E o \in Watched : f \in Files[o] /\ Depth[o] > Depth[r]

---------------------------------------------------------------------------
(* The files.                                                              *)

Edit(f) ==
    /\ Happens
    /\ disk' = [disk EXCEPT ![f] = @ + 1] /\ deleted' = deleted \ {f}
    /\ pending' = IF up THEN pending \union {f} ELSE pending
    /\ missed' = [r \in LocalRepos |-> IF f \notin Files[r] THEN missed[r]
                                  ELSE IF up THEN missed[r] \ {f} ELSE missed[r] \union {f}]
    /\ UNCHANGED <<head, row, memory, up, safe, watcher, request, torn>>

\* The watch reports it like an edit, but no run will drop the rows.
Delete(f) ==
    /\ Happens /\ f \notin deleted
    /\ disk' = [disk EXCEPT ![f] = @ + 1] /\ deleted' = deleted \union {f}
    /\ pending' = IF up THEN pending \union {f} ELSE pending
    /\ MissEverywhere({f})
    /\ UNCHANGED <<head, row, memory, up, safe, watcher, request, torn>>

\* A commit touches only paths the watch ignores.
Commit(r) ==
    /\ Happens /\ head[r] # Tree(r)
    /\ head' = [head EXCEPT ![r] = Tree(r)]
    /\ UNCHANGED <<disk, deleted, row, memory, up, safe, pending, watcher, request, ghosts>>

---------------------------------------------------------------------------
(* A run of the pipeline, of the watcher or of a request.                  *)

Walking(run) == run.pc = "walked"

Others(r, s) == {o \in LocalSlots \ {s} : Walking(request[o]) /\ request[o].repo = r}

\* The tree is read; runs on the repository that are under way no longer
\* have it for themselves.
Overlaps(r, s) ==
    LET watching == s # None /\ Walking(watcher) /\ watcher.repo = r IN
    [lone    |-> Others(r, s) = {} /\ ~watching,
     watcher |-> IF watching THEN [watcher EXCEPT !.lone = FALSE] ELSE watcher,
     request |-> [o \in LocalSlots |-> IF o \in Others(r, s) THEN [request[o] EXCEPT !.lone = FALSE]
                                  ELSE request[o]]]

\* Files fail on their own and keep what the memory held, or lose it when
\* they fail after their rows were wiped.
Writes(run, failed) ==
    LET r == run.repo
        kept == failed \union run.absent IN
    /\ failed \subseteq Files[r] \ run.absent
    /\ IF failed = {} THEN UNCHANGED events ELSE Happens
    /\ \E lost \in SUBSET failed :
          memory' = [memory EXCEPT ![r] = [f \in Files[r] |-> IF f \in lost THEN None
                                                             ELSE IF f \in kept THEN @[f]
                                                             ELSE run.tree[f]]]
    /\ missed' = [missed EXCEPT ![r] = @ \union (IF run.lone THEN failed ELSE Files[r])]
    /\ torn' = [torn EXCEPT ![r] = IF run.lone THEN kept ELSE Files[r]]

---------------------------------------------------------------------------
(* The watcher.                                                            *)

\* handle_batch up to its first await.
TakeBatch ==
    /\ up /\ watcher.pc = "idle" /\ pending # {}
    /\ pending' = {}
    /\ IF safe
       THEN MissEverywhere(pending) /\ UNCHANGED watcher
       ELSE watcher' = [pc |-> "resolve", batch |-> pending] /\ UNCHANGED missed
    /\ UNCHANGED <<disk, deleted, head, row, memory, up, safe, request, torn, events>>

\* Mutant: the first root that fits.
FirstRoot(f) ==
    LET roots == {r \in Watched : f \in Files[r]} IN
    IF roots = {} THEN None ELSE CHOOSE r \in roots : \A o \in roots : Depth[r] <= Depth[o]

LongestRoot(f) ==
    LET roots == {r \in Watched : f \in Files[r]} IN
    IF roots = {} THEN None ELSE CHOOSE r \in roots : \A o \in roots : Depth[r] >= Depth[o]

ResolveRepoIds ==
    /\ watcher.pc = "resolve"
    /\ LET hits == {LongestRoot(f) : f \in watcher.batch} \ {None} IN
       watcher' = [pc |-> "next", batch |-> watcher.batch,
                   todo |-> Picked(Order, {n \in DOMAIN Order : Order[n] \in hits})]
    /\ Missing([r \in LocalRepos |-> {f \in watcher.batch : ~Belongs(f, r)}])
    /\ UNCHANGED <<disk, deleted, head, row, memory, up, safe, pending, request, torn, events>>

\* _reingest: the row is read anew.
NextRepo ==
    /\ watcher.pc = "next"
    /\ IF watcher.todo = <<>> THEN watcher' = Idle /\ UNCHANGED missed
       ELSE LET r == Head(watcher.todo) IN
            IF row[r] # None /\ row[r].watch
            THEN /\ watcher' = [pc |-> "head", batch |-> watcher.batch, todo |-> watcher.todo]
                 /\ UNCHANGED missed
            ELSE /\ watcher' = [pc |-> "next", batch |-> watcher.batch, todo |-> Tail(watcher.todo)]
                 /\ missed' = [missed EXCEPT ![r] = @ \union (watcher.batch \intersect Files[r])]
    /\ UNCHANGED <<disk, deleted, head, row, memory, up, safe, pending, request, torn, events>>

\* HEAD is read, or is not to be had; then the lock is taken.
CommitSha ==
    /\ watcher.pc = "head"
    /\ \E sha \in {head[Head(watcher.todo)], AutoSha} :
          watcher' = [pc |-> "locked", batch |-> watcher.batch, todo |-> Tail(watcher.todo),
                      repo |-> Head(watcher.todo), sha |-> sha]
    /\ UNCHANGED <<disk, deleted, head, row, memory, up, safe, pending, request, ghosts, events>>

WatcherWalks ==
    /\ watcher.pc = "locked"
    /\ LET now == Overlaps(watcher.repo, None) IN
       /\ watcher' = [pc |-> "walked", batch |-> watcher.batch, todo |-> watcher.todo,
                      repo |-> watcher.repo, sha |-> watcher.sha,
                      tree |-> Tree(watcher.repo),
                      absent |-> deleted \intersect Files[watcher.repo], lone |-> now.lone]
       /\ request' = now.request
    /\ UNCHANGED <<disk, deleted, head, row, memory, up, safe, pending, ghosts, events>>

\* A run that raises marks the row's error; it is not tried again.
WatcherWrites(failed, raises) ==
    /\ watcher.pc = "walked" /\ (raises => failed # {})
    /\ Writes(watcher, failed)
    /\ watcher' = IF raises
                  THEN [pc |-> "next", batch |-> watcher.batch, todo |-> watcher.todo]
                  ELSE [pc |-> "written", batch |-> watcher.batch, todo |-> watcher.todo,
                        repo |-> watcher.repo, sha |-> watcher.sha]
    /\ UNCHANGED <<disk, deleted, head, row, up, safe, pending, request>>

\* mark_synced and mark_error change a row that is still there.
Synced(r, sha) == row' = IF row[r] = None THEN row ELSE [row EXCEPT ![r].sha = sha]

MarkSynced ==
    /\ watcher.pc = "written"
    /\ Synced(watcher.repo, watcher.sha)
    /\ watcher' = [pc |-> "next", batch |-> watcher.batch, todo |-> watcher.todo]
    /\ UNCHANGED <<disk, deleted, head, memory, up, safe, pending, request, ghosts, events>>

\* The registry raises: the rest of the batch is gone.
BatchFails ==
    /\ watcher.pc \in {"resolve", "next", "head", "locked", "written"} /\ Happens
    /\ watcher' = Idle
    /\ LET left == IF watcher.pc = "resolve" THEN LocalRepos
                   ELSE {watcher.todo[n] : n \in DOMAIN watcher.todo}
                        \union (IF watcher.pc = "locked" THEN {watcher.repo} ELSE {}) IN
       Missing([r \in LocalRepos |-> IF r \in left THEN watcher.batch ELSE {}])
    /\ UNCHANGED <<disk, deleted, head, row, memory, up, safe, pending, request, torn>>

---------------------------------------------------------------------------
(* Requests.                                                               *)

StartsRun(s, kind, r, sha) ==
    /\ up /\ request[s] = Idle /\ Happens
    /\ LET now == Overlaps(r, s) IN
       /\ request' = [now.request EXCEPT ![s] = [pc |-> "walked", kind |-> kind, repo |-> r, sha |-> sha,
                                                 tree |-> Tree(r),
                                                 absent |-> deleted \intersect Files[r],
                                                 lone |-> now.lone]]
       /\ watcher' = now.watcher
    /\ UNCHANGED <<disk, deleted, head, row, memory, up, safe, pending, ghosts>>

\* POST /ingest names the commit that is checked out.
IngestRepo(s, r) == StartsRun(s, "ingest", r, head[r])

\* sync_now of a local repository keeps the commit its row named.
SyncNow(s, r) == row[r] # None /\ StartsRun(s, "sync", r, row[r].sha)

RequestWrites(s, failed) ==
    /\ Walking(request[s])
    /\ Writes(request[s], failed)
    /\ request' = [request EXCEPT ![s].pc = "written"]
    /\ UNCHANGED <<disk, deleted, head, row, up, safe, pending, watcher>>

\* upsert_local registers, and keeps the pause of a row it finds.
Answer(s) ==
    /\ request[s].pc = "written"
    /\ LET r == request[s].repo IN
       IF request[s].kind = "ingest" /\ row[r] = None
       THEN row' = [row EXCEPT ![r] = [watch |-> TRUE, sha |-> request[s].sha]]
       ELSE Synced(r, request[s].sha)
    /\ request' = [request EXCEPT ![s] = Idle]
    /\ UNCHANGED <<disk, deleted, head, memory, up, safe, pending, watcher, ghosts, events>>

ToggleWatch(r) ==
    /\ up /\ row[r] # None /\ Happens
    /\ row' = [row EXCEPT ![r].watch = ~@]
    /\ UNCHANGED <<disk, deleted, head, memory, up, safe, pending, watcher, request, ghosts>>

RemoveLocal(r) ==
    /\ up /\ row[r] # None /\ Happens
    /\ row' = [row EXCEPT ![r] = None]
    /\ UNCHANGED <<disk, deleted, head, memory, up, safe, pending, watcher, request, ghosts>>

---------------------------------------------------------------------------
(* The process.  A run that dies has written some files and not others,    *)
(* and may have wiped the rows of one it never came to write.              *)

RunOf(a) == IF a = None THEN watcher ELSE request[a]

Dying(r) == {a \in LocalSlots \union {None} : Walking(RunOf(a)) /\ RunOf(a).repo = r}

\* What the memory may be left with for a file.
Left(r, f) ==
    LET found == {a \in Dying(r) : f \notin RunOf(a).absent} IN
    {memory[r][f]} \union (IF found = {} THEN {} ELSE {None})
                   \union {RunOf(a).tree[f] : a \in found}

Places == UNION {{r} \X Files[r] : r \in LocalRepos}

\* The files whose memory is not to be relied upon.
Cut(r, left) ==
    IF \E a \in Dying(r) : ~RunOf(a).lone THEN Files[r] ELSE {f \in Files[r] : left[<<r, f>>] = None}

Crash ==
    /\ up /\ Happens
    /\ up' = FALSE /\ pending' = {} /\ watcher' = Idle /\ request' = [s \in LocalSlots |-> Idle]
    /\ \E left \in [Places -> UNION {Left(p[1], p[2]) : p \in Places}] :
          /\ \A r \in LocalRepos : \A f \in Files[r] : left[<<r, f>>] \in Left(r, f)
          /\ memory' = [r \in LocalRepos |-> [f \in Files[r] |-> left[<<r, f>>]]]
          /\ torn' = [r \in LocalRepos |-> torn[r] \union Cut(r, left)]
          /\ Missing([r \in LocalRepos |-> pending \union Cut(r, left)
                         \union (IF watcher.pc = "idle" THEN {} ELSE watcher.batch)])
    /\ UNCHANGED <<disk, deleted, head, row, safe>>

\* The stages of the health gate, in their order, each with whether it is
\* required.
Stages ==
    <<<<"storage_init", TRUE>>, <<"schema_validation", TRUE>>,
      <<"graph_vector_validation", TRUE>>, <<"ingestion_readiness", TRUE>>,
      <<"retrieval_warmup", TRUE>>, <<"mcp_registry", TRUE>>, <<"audit_chain", TRUE>>,
      <<"api_exposure", FALSE>>>>

\* HealthGate.run: a required stage that failed, or several degraded ones.
\* Every stage is probed, whatever became of the earlier ones.
SafeModeRecommended(bad) ==
    LET failed == {n \in bad : Stages[n][2]} IN
    failed # {} \/ Cardinality(bad \ failed) > 1

Recommendations == {SafeModeRecommended(bad) : bad \in SUBSET DOMAIN Stages}

\* The watch begins anew; nobody compares the trees with the memory.
Boot ==
    /\ ~up /\ up' = TRUE
    /\ \E recommended \in Recommendations : safe' = (recommended \/ SafeModeEnabled)
    /\ UNCHANGED <<disk, deleted, head, row, memory, pending, watcher, request, ghosts, events>>

---------------------------------------------------------------------------
WatcherStep ==
    \/ TakeBatch \/ ResolveRepoIds \/ NextRepo \/ CommitSha \/ WatcherWalks \/ MarkSynced
    \/ watcher.pc = "walked" /\ \E failed \in SUBSET Files[watcher.repo], raises \in BOOLEAN :
          WatcherWrites(failed, raises)

LocalNext ==
    \/ WatcherStep \/ BatchFails \/ Crash \/ Boot
    \/ \E f \in AllFiles : Edit(f) \/ Delete(f)
    \/ \E r \in LocalRepos : Commit(r) \/ ToggleWatch(r) \/ RemoveLocal(r)
    \/ \E s \in LocalSlots :
          \/ Answer(s)
          \/ \E r \in LocalRepos : IngestRepo(s, r) \/ SyncNow(s, r)
          \/ \E failed \in SUBSET AllFiles : RequestWrites(s, failed)

\* The watcher's task goes on: what it awaits returns or raises.
LocalFairness == WF_localVars(WatcherStep)

LocalSpec == LocalInit /\ [][LocalNext]_localVars /\ LocalFairness

---------------------------------------------------------------------------
(* Properties.                                                             *)

\* The memory is never older than the commit the row names, but for files
\* whose last write failed, was cut off, found no file, or overlapped with
\* another run.
ClaimHolds ==
    \A r \in LocalRepos : (row[r] # None /\ row[r].sha # AutoSha) =>
        \A f \in Files[r] \ torn[r] : memory[r][f] >= row[r].sha[f]

\* Whatever was edited reaches the memory of the repository it belongs to,
\* unless the change was dropped by one of the causes "missed" records; the
\* deletion of a file is always dropped.
Caught == \A r \in LocalRepos : \A f \in Files[r] \ missed[r] : memory[r][f] = disk[f]

\* The watcher brings every change it does not drop, and what the registry
\* says of a local repository's commit stays true.
LocalFollows == []ClaimHolds /\ []<>Caught
=============================================================================
