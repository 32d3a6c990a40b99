-------------------------- MODULE ManagedFreshness --------------------------
(***************************************************************************)
(* One managed repository: a git URL cloned into the workspace, registered *)
(* in repo_registry, and re-ingested when its branch tip moves.  The       *)
(* poller, pushes announced by webhook, a forced sync, an add, a remove    *)
(* and POST /ingest under its id all act on it, interleaved at every       *)
(* await.  The poller and the webhooks take the per-repo lock; the four    *)
(* endpoints do not.                                                       *)
(*                                                                         *)
(* A run of run_ingest is one stretch, from the walk to its return.  What  *)
(* it does to the stores is module Ingestion's: a lone run brings them to  *)
(* the tree it walked, from whatever state (RunRepairs), short of the      *)
(* files it reports in failed_files.  Runs that overlap or are killed      *)
(* leave them Torn, unless they already held that commit.  No run visits   *)
(* a file the tree has lost: its rows stay.                                *)
(*                                                                         *)
(* POST /ingest names the directory and the commit itself, and its upsert  *)
(* points the row at that directory, so there are two: the clone of the    *)
(* managed workspace, and a checkout of the caller's own.                  *)
(***************************************************************************)
EXTENDS Naturals, FiniteSets

CONSTANTS
    Commits,    \* commits the branch tip may be at
    Poller,     \* the background poller task
    Hooks,      \* webhook background tasks
    Syncs,      \* force-sync requests
    Adds,       \* add-managed requests
    Removers,   \* remove requests
    Posts,      \* POST /ingest requests under the id of the repository
    None,       \* no row, no clone, no commit ingested, no lock holder
    Torn,       \* a mixture of commits
    MaxMoves,   \* bound: moves of the branch tip
    MaxFaults   \* bound: failed calls and crashes

Lockers == {Poller} \union Hooks
Workers == Lockers \union Syncs \union Adds \union Removers \union Posts

ASSUME FreshnessAssumption ==
    /\ None \notin Commits \union Workers \union {Torn}
    /\ Torn \notin Commits
    /\ Poller \notin Hooks
    /\ (Syncs \union Adds \union Removers \union Posts) \intersect Lockers = {}
    /\ Adds \intersect Syncs = {} /\ Removers \intersect (Adds \union Syncs) = {}
    /\ Posts \intersect (Adds \union Syncs \union Removers) = {}
    /\ MaxMoves \in Nat /\ MaxFaults \in Nat

VARIABLES
    remote,     \* the tip of the tracked branch at the git host
    clone,      \* directory -> HEAD and working tree of the clone in it
    fetched,    \* directory -> FETCH_HEAD of that clone
    row,        \* the repo_registry row, see Row
    index,      \* the memory, see Index
    lock,       \* the holder of RepoLocks.get(repo_id)
    pc,         \* where each worker is
    seen,       \* last_commit_sha of the row a worker read
    dir,        \* the directory a worker works in
    target,     \* the sha a worker will record
    tree,       \* the tree a worker's ingest walked
    clashed,    \* workers whose ingest overlapped another one
    moves, faults, \* the bounded counters
    past,       \* history: the commits the tip has been at
    suspect     \* history: why the row may claim what was not ingested

registry == <<row, lock>>
work     == <<pc, seen, dir, target, tree, clashed>>
ghosts   == <<moves, faults, past, suspect>>
vars     == <<remote, clone, fetched, index, registry, work, ghosts>>

Stage == {"idle", "acquire", "check", "clone", "fetch", "reset", "head",
          "register", "walk", "write", "mark", "delete"}

\* The clone in the managed workspace, and a checkout of a caller's own.
Dirs  == {"managed", "own"}

\* last_commit_sha, watch_enabled, source_type and repo_path.
Row   == [last : Commits, watch : BOOLEAN, source : {"managed", "local"}, path : Dirs]

\* The commit the memory mirrors, whether it holds all of it, and whether
\* rows are left of files that commit does not have.
Index == [at : Commits \union {None, Torn}, whole : BOOLEAN, left : BOOLEAN]
TornIndex == [at |-> Torn, whole |-> FALSE, left |-> TRUE]

\* The row add_managed_repo registers.
ManagedRow(sha, watch) ==
    [last |-> sha, watch |-> watch, source |-> "managed", path |-> "managed"]

\* Before the first add, or after one that succeeded.
Init ==
    /\ remote \in Commits
    /\ \E head \in {None, remote} :
          /\ clone = [d \in Dirs |-> IF d = "managed" THEN head ELSE None]
          /\ row = IF head = None THEN None ELSE ManagedRow(head, TRUE)
          /\ index = [at |-> head, whole |-> TRUE, left |-> FALSE]
    /\ fetched = clone
    /\ lock = None
    /\ pc = [w \in Workers |-> "idle"]
    /\ seen = [w \in Workers |-> None]
    /\ dir = [w \in Workers |-> None]
    /\ target = [w \in Workers |-> None]
    /\ tree = [w \in Workers |-> None]
    /\ clashed = {}
    /\ moves = 0 /\ faults = 0
    /\ past = {remote}
    /\ suspect = {}

----------------------------------------------------------------------------
(* The world outside.                                                      *)

\* The branch tip moves: a push, or a forced push back to a commit it was at.
Push ==
    /\ moves < MaxMoves
    /\ \E c \in Commits \ {remote} :
          /\ remote' = c
          /\ past' = past \union {c}
          /\ suspect' = IF c \in past THEN suspect \union {"rollback"} ELSE suspect
    /\ moves' = moves + 1
    /\ UNCHANGED <<clone, fetched, index, registry, work, faults>>

\* POST /freshness/{repo_id}/toggle.
Toggle ==
    /\ row # None
    /\ row' = [row EXCEPT !.watch = ~@]
    /\ UNCHANGED <<remote, clone, fetched, index, lock, work, ghosts>>

\* The process dies; tasks and locks are in memory, the rest is on disk.
Crash ==
    /\ faults < MaxFaults
    /\ \E w \in Workers : pc[w] # "idle"
    /\ faults' = faults + 1
    /\ lock' = None
    /\ pc' = [w \in Workers |-> "idle"]
    /\ seen' = [w \in Workers |-> None]
    /\ dir' = [w \in Workers |-> None]
    /\ target' = [w \in Workers |-> None]
    /\ tree' = [w \in Workers |-> None]
    /\ clashed' = {}
    /\ UNCHANGED <<remote, clone, fetched, index, row, moves, past, suspect>>

----------------------------------------------------------------------------
(* Entering and leaving.                                                   *)

InSection(w) == pc[w] \notin {"idle", "acquire", "delete"}
Alone(w)     == \A x \in Workers \ {w} : ~InSection(x)

Goto(w, stage) == pc' = [pc EXCEPT ![w] = stage]

\* Worker w begins to work on a clone and the memory at this stage.
Enter(w, stage) ==
    /\ Goto(w, stage)
    /\ suspect' = IF Alone(w) THEN suspect ELSE suspect \union {"overlap"}

\* The same under a sha nobody compared with the directory.
EnterUnder(w, stage) ==
    /\ Goto(w, stage)
    /\ suspect' = suspect \union {"stated"} \union
                  (IF Alone(w) THEN {} ELSE {"overlap"})

\* The caller has some commit of the branch checked out in its directory,
\* and leaves it alone while anybody works there.
CheckedOut(d) ==
    IF d = "own" /\ \A w \in Workers : InSection(w) => dir[w] # "own"
    THEN \E c \in past : clone' = [clone EXCEPT !["own"] = c]
    ELSE UNCHANGED clone

\* Worker w read the row.
Reads(w) ==
    /\ row # None
    /\ seen' = [seen EXCEPT ![w] = row.last]
    /\ dir' = [dir EXCEPT ![w] = row.path]

\* Worker w returns: `async with' releases the lock whatever the outcome.
Leave(w) ==
    /\ Goto(w, "idle")
    /\ lock' = IF lock = w THEN None ELSE lock
    /\ seen' = [seen EXCEPT ![w] = None]
    /\ dir' = [dir EXCEPT ![w] = None]
    /\ target' = [target EXCEPT ![w] = None]
    /\ tree' = [tree EXCEPT ![w] = None]
    /\ clashed' = clashed \ {w}

IsManaged(r) == r # None /\ r.source = "managed"

\* poll_all reads the watched rows of managed repositories, then goes for
\* the repository's lock.
PollPass ==
    /\ pc[Poller] = "idle"
    /\ IsManaged(row) /\ row.watch
    /\ Reads(Poller)
    /\ Goto(Poller, "acquire")
    /\ UNCHANGED <<remote, clone, fetched, index, registry, target, tree,
                   clashed, ghosts>>

\* git_webhook matches the row, whether watched or not, and schedules
\* _run_sync.  Deliveries may be late, lost or repeated.
Webhook(h) ==
    /\ h \in Hooks /\ pc[h] = "idle"
    /\ IsManaged(row)
    /\ Reads(h)
    /\ Goto(h, "acquire")
    /\ UNCHANGED <<remote, clone, fetched, index, registry, target, tree,
                   clashed, ghosts>>

\* sync_now reads the row and calls sync_managed_repo, without the lock.
ForceSync(s) ==
    /\ s \in Syncs /\ pc[s] = "idle"
    /\ IsManaged(row)
    /\ Reads(s)
    /\ Enter(s, "check")
    /\ UNCHANGED <<remote, clone, fetched, index, registry, target, tree,
                   clashed, moves, faults, past>>

\* sync_now of a local row reingests its directory as it is, under the sha
\* the row has.
ForceSyncLocal(s) ==
    /\ s \in Syncs /\ pc[s] = "idle"
    /\ ~IsManaged(row)
    /\ Reads(s)
    /\ target' = [target EXCEPT ![s] = row.last]
    /\ EnterUnder(s, "walk")
    /\ UNCHANGED <<remote, clone, fetched, index, registry, tree, clashed, moves,
                   faults, past>>

\* POST /ingest of a directory on the API's disk, under the sha the caller
\* states.  Nothing compares that sha with the directory.
IngestRepo(p) ==
    /\ p \in Posts /\ pc[p] = "idle"
    /\ \E d \in Dirs, sha \in past :
          /\ dir' = [dir EXCEPT ![p] = d]
          /\ target' = [target EXCEPT ![p] = sha]
          /\ CheckedOut(d)
    /\ EnterUnder(p, "walk")
    /\ UNCHANGED <<remote, fetched, index, registry, seen, tree, clashed, moves,
                   faults, past>>

\* add_managed_repo updates the clone it finds, or makes one.
AddManaged(d) ==
    /\ d \in Adds /\ pc[d] = "idle"
    /\ dir' = [dir EXCEPT ![d] = "managed"]
    /\ Enter(d, IF clone["managed"] = None THEN "clone" ELSE "fetch")
    /\ UNCHANGED <<remote, clone, fetched, index, registry, seen, target, tree,
                   clashed, moves, faults, past>>

\* Mutant: the lock does not exclude.
LockIgnored == TRUE
LockFree == lock = None

Acquire(w) ==
    /\ w \in Lockers /\ pc[w] = "acquire"
    /\ LockFree
    /\ lock' = w
    /\ Enter(w, "check")
    /\ UNCHANGED <<remote, clone, fetched, index, row, seen, dir, target, tree,
                   clashed, moves, faults, past>>

----------------------------------------------------------------------------
(* The steps of sync_managed_repo and add_managed_repo.                    *)

\* Mutant: the tip is compared with the clone's HEAD.
HeadBehind(w) == remote # clone[dir[w]]
\* The tip differs from the row's last_commit_sha, as it was read.
Moved(w) == remote # seen[w]

\* ls-remote at the clone finds a new tip; mark_change stamps the row.
Check(w) ==
    /\ pc[w] = "check" /\ clone[dir[w]] # None
    /\ Moved(w)
    /\ seen' = [seen EXCEPT ![w] = None]
    /\ Goto(w, "fetch")
    /\ UNCHANGED <<remote, clone, fetched, index, registry, dir, target, tree, clashed,
                   ghosts>>

CheckUnchanged(w) ==
    /\ pc[w] = "check" /\ clone[dir[w]] # None
    /\ ~Moved(w)
    /\ Leave(w)
    /\ UNCHANGED <<remote, clone, fetched, index, row, ghosts>>

\* git clone.  Should the destination have appeared meanwhile, git refuses.
Clone(d) ==
    /\ pc[d] = "clone" /\ clone["managed"] = None
    /\ clone' = [clone EXCEPT !["managed"] = remote]
    /\ fetched' = [fetched EXCEPT !["managed"] = remote]
    /\ Goto(d, "head")
    /\ UNCHANGED <<remote, index, registry, seen, dir, target, tree, clashed, ghosts>>

\* update_to_remote: fetch, reset --hard FETCH_HEAD, rev-parse HEAD.
Fetch(w) ==
    /\ pc[w] = "fetch" /\ clone[dir[w]] # None
    /\ fetched' = [fetched EXCEPT ![dir[w]] = remote]
    /\ Goto(w, "reset")
    /\ UNCHANGED <<remote, clone, index, registry, seen, dir, target, tree, clashed,
                   ghosts>>

Reset(w) ==
    /\ pc[w] = "reset" /\ clone[dir[w]] # None
    /\ clone' = [clone EXCEPT ![dir[w]] = fetched[dir[w]]]
    /\ Goto(w, "head")
    /\ UNCHANGED <<remote, fetched, index, registry, seen, dir, target, tree, clashed,
                   ghosts>>

Head(w) ==
    /\ pc[w] = "head" /\ clone[dir[w]] # None
    /\ target' = [target EXCEPT ![w] = clone[dir[w]]]
    /\ Goto(w, IF w \in Adds THEN "register" ELSE "walk")
    /\ UNCHANGED <<remote, clone, fetched, index, registry, seen, dir, tree, clashed,
                   ghosts>>

\* Mutant: a re-add resumes a paused repository.
Resumed(sha) == ManagedRow(sha, TRUE)
\* _UPSERT_MANAGED: a conflict keeps watch_enabled, an insert defaults it.
Upserted(sha) == ManagedRow(sha, row = None \/ row.watch)

\* registry.add_managed records the sha before the ingest has run.
Register(d) ==
    /\ pc[d] = "register"
    /\ row' = Upserted(target[d])
    /\ suspect' = suspect \union {"add"}
    /\ Goto(d, "walk")
    /\ UNCHANGED <<remote, clone, fetched, index, lock, seen, dir, target, tree,
                   clashed, moves, faults, past>>

Writing == {w \in Workers : pc[w] = "write"}

\* run_ingest walks and parses the tree without a pause, so only a git
\* process of another worker can change it under the walk; then it writes.
Walk(w) ==
    /\ pc[w] = "walk" /\ clone[dir[w]] # None
    /\ \E t \in {clone[dir[w]]} \union
                (IF \E x \in Workers \ {w} : pc[x] = "reset" /\ dir[x] = dir[w]
                 THEN {Torn} ELSE {}) :
          /\ tree' = [tree EXCEPT ![w] = t]
          /\ index' = IF t = index.at /\ Writing = {} THEN index ELSE TornIndex
    /\ clashed' = IF Writing = {} THEN clashed
                  ELSE clashed \union Writing \union {w}
    /\ Goto(w, "write")
    /\ UNCHANGED <<remote, clone, fetched, registry, seen, dir, target, ghosts>>

\* A run over another tree may meet files that are gone from it, whose rows
\* it leaves; a run over the same tree leaves what was left.
LeftBy(w) == IF tree[w] = index.at THEN {index.left} ELSE BOOLEAN

\* The run returns.  Files it could not read, parse or store are only
\* reported in failed_files, and a failed edge pass is only logged.
Written(w) ==
    /\ pc[w] = "write"
    /\ IF w \in clashed \/ tree[w] = Torn
       THEN index' = TornIndex
       ELSE \E whole \in BOOLEAN, left \in LeftBy(w) :
               index' = [at |-> tree[w], whole |-> whole, left |-> left]
    /\ clashed' = clashed \ {w}
    /\ tree' = [tree EXCEPT ![w] = None]
    /\ Goto(w, "mark")
    /\ UNCHANGED <<remote, clone, fetched, registry, seen, dir, target, ghosts>>

\* Mutant: mark_synced inserts the row when it is gone.
SyncedUpsert(sha) == IF row = None THEN ManagedRow(sha, TRUE) ELSE [row EXCEPT !.last = sha]
\* _MARK_SYNCED is an UPDATE: it does nothing once the row is gone.
Synced(sha) == IF row = None THEN None ELSE [row EXCEPT !.last = sha]

\* Mutant: the sha ls-remote would answer now is recorded.
CurrentTip(w) == remote
Recorded(w) == target[w]

\* A worker leaves a row whose sha the memory mirrors.
Vouched(w) == Alone(w) /\ index.at = target[w]

Mark(w) ==
    /\ pc[w] = "mark" /\ w \notin Posts
    /\ row' = Synced(Recorded(w))
    /\ suspect' = IF Vouched(w) THEN {} ELSE suspect
    /\ Leave(w)
    /\ UNCHANGED <<remote, clone, fetched, index, moves, faults, past>>

\* _UPSERT_LOCAL: a conflict points the row at the directory and the sha of
\* the request and keeps the rest; an insert makes a local row.
UpsertedLocal(sha, path) ==
    IF row = None THEN [last |-> sha, watch |-> TRUE, source |-> "local", path |-> path]
    ELSE [row EXCEPT !.last = sha, !.path = path]

\* POST /ingest ends: registry.upsert_local.
UpsertLocal(p) ==
    /\ pc[p] = "mark" /\ p \in Posts
    /\ row' = UpsertedLocal(target[p], dir[p])
    /\ suspect' = IF Vouched(p) THEN {} ELSE suspect
    /\ Leave(p)
    /\ UNCHANGED <<remote, clone, fetched, index, moves, faults, past>>

\* git fails or times out, a store call raises, or the clone is gone.  A
\* sync records last_error, an add answers 502, POST /ingest 400 or 500;
\* last_commit_sha stays.
Fail(w) ==
    /\ InSection(w) /\ pc[w] # "write"
    /\ \/ faults < MaxFaults /\ faults' = faults + 1
       \/ /\ pc[w] \in {"check", "fetch", "reset", "head", "walk"}
          /\ clone[dir[w]] = None /\ UNCHANGED faults
       \/ pc[w] = "clone" /\ clone["managed"] # None /\ UNCHANGED faults
    /\ Leave(w)
    /\ UNCHANGED <<remote, clone, fetched, index, row, moves, past, suspect>>

----------------------------------------------------------------------------
(* DELETE /freshness/{repo_id}: the clone first, then the row.             *)

\* Only a managed row, and only a directory of the managed workspace.
RemoveClone(m) ==
    /\ m \in Removers /\ pc[m] = "idle"
    /\ row # None
    /\ IF IsManaged(row) /\ row.path = "managed"
       THEN /\ clone' = [clone EXCEPT !["managed"] = None]
            /\ fetched' = [fetched EXCEPT !["managed"] = None]
       ELSE UNCHANGED <<clone, fetched>>
    /\ Goto(m, "delete")
    /\ UNCHANGED <<remote, index, registry, seen, dir, target, tree, clashed, ghosts>>

RemoveRow(m) ==
    /\ pc[m] = "delete"
    /\ row' = None
    /\ Goto(m, "idle")
    /\ UNCHANGED <<remote, clone, fetched, index, lock, seen, dir, target, tree,
                   clashed, ghosts>>

RemoveRowFails(m) ==
    /\ pc[m] = "delete" /\ faults < MaxFaults
    /\ faults' = faults + 1
    /\ Goto(m, "idle")
    /\ UNCHANGED <<remote, clone, fetched, index, registry, seen, dir, target, tree,
                   clashed, moves, past, suspect>>

----------------------------------------------------------------------------
Step(w) ==
    \/ Check(w) \/ CheckUnchanged(w) \/ Clone(w) \/ Fetch(w) \/ Reset(w)
    \/ Head(w) \/ Register(w) \/ Walk(w) \/ Written(w) \/ Mark(w) \/ UpsertLocal(w)
    \/ Fail(w) \/ RemoveRow(w) \/ RemoveRowFails(w)

Arrival(w) ==
    \/ Webhook(w) \/ ForceSync(w) \/ ForceSyncLocal(w) \/ IngestRepo(w)
    \/ AddManaged(w) \/ RemoveClone(w)

Next ==
    \/ Push \/ Toggle \/ Crash \/ PollPass
    \/ \E w \in Workers : Arrival(w) \/ Acquire(w) \/ Step(w)

Spec == Init /\ [][Next]_vars

\* The poller never stops polling, every git call has a timeout, and an
\* asyncio.Lock wakes its waiters in order of arrival.
Fairness ==
    /\ WF_vars(PollPass)
    /\ \A w \in Workers : WF_vars(Step(w))
    /\ \A w \in Lockers : SF_vars(Acquire(w))

FairSpec == Spec /\ Fairness

----------------------------------------------------------------------------
(* Properties.                                                             *)

\* Every variable has its type.
TypeOK ==
    /\ remote \in Commits
    /\ clone \in [Dirs -> Commits \union {None}]
    /\ fetched \in [Dirs -> Commits \union {None}]
    /\ row \in Row \union {None}
    /\ index \in Index
    /\ lock \in Lockers \union {None}
    /\ pc \in [Workers -> Stage]
    /\ seen \in [Workers -> Commits \union {None}]
    /\ dir \in [Workers -> Dirs \union {None}]
    /\ target \in [Workers -> Commits \union {None}]
    /\ tree \in [Workers -> Commits \union {None, Torn}]
    /\ clashed \in SUBSET Workers
    /\ moves \in 0..MaxMoves /\ faults \in 0..MaxFaults
    /\ past \in SUBSET Commits
    /\ suspect \in SUBSET {"rollback", "overlap", "add", "stated"}

\* Once every request on the repository is over, a row that claims the
\* branch tip (so that every later poll skips it) claims a commit the memory
\* mirrors.  Four things can break that: an add registers the sha and does
\* not finish; two workers overlap because an endpoint takes no lock; the
\* tip is forced back to the commit recorded before a broken run; POST
\* /ingest or a forced sync of a local row ingests a directory under a sha
\* nobody read from it, or dies on the way.  Each is forgotten as soon as a
\* worker that had the repository for itself records what it ingested.
FreshClaimHolds ==
    (/\ \A w \in Workers : ~InSection(w)
     /\ row # None /\ row.last = remote
     /\ suspect = {}) => index.at = remote

\* The poller and the webhooks never run an ingest of the repository at the
\* same time (the promise of locks.py), even after failures and crashes.
LoopsExclude ==
    \A w, x \in Lockers : InSection(w) /\ InSection(x) => w = x

\* A paused repository stays paused: whatever is in flight, no sync and no
\* re-add flips watch_enabled, and neither is it lost to a late write.
PauseSurvives ==
    [][(row # None /\ row' # None /\ row'.watch # row.watch)
          => (pc' = pc /\ row'.last = row.last)]_vars

\* A removed repository is not brought back by a sync that was under way when
\* it was removed.  Only an add makes a row managed, so that the poller and
\* the webhooks take it up again; POST /ingest inserts a row only as a local
\* one, and leaves a managed one managed.
RemovedStaysRemoved ==
    [][/\ IsManaged(row') /\ ~IsManaged(row)
          => \E d \in Adds : pc[d] = "register" /\ pc'[d] = "walk"
       /\ row = None /\ row' # None /\ ~IsManaged(row')
          => \E p \in Posts : pc[p] = "mark" /\ pc'[p] = "idle"
       /\ IsManaged(row) /\ row' # None => IsManaged(row')]_vars

\* The poller keeps looking after the repository.
Settled == <>[](IsManaged(row) /\ row.watch /\ clone[row.path] # None)

\* Once the tip rests and the repository stays watched, the row comes to the
\* tip for good and so does the memory, whatever failed or died before,
\* unless the tip was forced back over a broken run.
EventuallyFresh ==
    Settled => <>[](/\ row # None /\ row.last = remote
                    /\ index.at = remote \/ "rollback" \in suspect)

\* "so what an agent retrieves always matches the current source": once the
\* tip rests, the memory holds all of it and nothing else.  The code marks a
\* run that reports failed_files as synced, and no poll retries it; and no
\* run removes the rows of a file the tip no longer has.
MemoryMatchesSource ==
    Settled => <>[](index = [at |-> remote, whole |-> TRUE, left |-> FALSE])
=============================================================================
