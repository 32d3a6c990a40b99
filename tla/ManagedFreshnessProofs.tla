----------------------- MODULE ManagedFreshnessProofs -----------------------
(***************************************************************************)
(* What holds of one managed repository for any number of commits,         *)
(* webhooks and endpoint requests, and any number of failures.  First what *)
(* the per-repo lock gives: the poller and the webhooks are never inside   *)
(* sync_managed_repo together; the endpoints take no lock, so all the      *)
(* proof says of them is that they cannot take one away.  Then what a row  *)
(* may claim, and what becomes of a paused or a removed one.               *)
(***************************************************************************)
EXTENDS ManagedFreshness, TLAPS

(* A locker inside its section is the holder. *)
HoldsLock == \A w \in Lockers : InSection(w) => lock = w

\* The lock is only ever given back by its holder, and only a locker holds it.
SectionInv ==
    /\ pc \in [Workers -> Stage]
    /\ lock \in Lockers \union {None}
    /\ \A w \in Workers \ Lockers : pc[w] # "acquire"
    /\ HoldsLock

\* Whoever may take the lock is a worker.
LEMMA LockersWork == Lockers \subseteq Workers
BY DEF Lockers, Workers

\* In every initial state nobody is in a section.
LEMMA InitSection == Init => SectionInv
BY LockersWork DEF Init, SectionInv, HoldsLock, InSection, Stage

\* A step that moves one worker between two stages of its section, or into
\* one outside it, keeps the invariant.
LEMMA MoveKeeps ==
    ASSUME SectionInv, NEW w \in Workers, NEW stage \in Stage,
           Goto(w, stage), lock' = lock,
           InSection(w) \/ w \notin Lockers \/ stage \in {"idle", "acquire", "delete"},
           stage = "acquire" => w \in Lockers
    PROVE  SectionInv'
<1>1. pc' = [pc EXCEPT ![w] = stage]
  BY DEF Goto
<1>2. pc' \in [Workers -> Stage]
  BY <1>1 DEF SectionInv
<1>3. \A x \in Workers : pc'[x] = IF x = w THEN stage ELSE pc[x]
  BY <1>1 DEF SectionInv
<1>4. ASSUME NEW x \in Lockers, InSection(x)'  PROVE lock' = x
  <2>1. x \in Workers
    BY LockersWork
  <2>2. InSection(x)
    BY <1>3, <1>4, <2>1 DEF InSection
  <2> QED
    BY <2>2 DEF SectionInv, HoldsLock
<1>5. \A x \in Workers \ Lockers : pc'[x] # "acquire"
  BY <1>3 DEF SectionInv
<1> QED
  BY <1>2, <1>4, <1>5 DEF SectionInv, HoldsLock

\* A worker that leaves frees the lock if and only if it was its own.
LEMMA LeaveKeeps ==
    ASSUME SectionInv, NEW w \in Workers, Leave(w)
    PROVE  SectionInv'
<1>1. /\ pc' = [pc EXCEPT ![w] = "idle"]
      /\ lock' = IF lock = w THEN None ELSE lock
  BY DEF Leave, Goto
<1>2. pc' \in [Workers -> Stage] /\ lock' \in Lockers \union {None}
  BY <1>1 DEF SectionInv, Stage
<1>3. \A x \in Workers : pc'[x] = IF x = w THEN "idle" ELSE pc[x]
  BY <1>1 DEF SectionInv
<1>4. ASSUME NEW x \in Lockers, InSection(x)'  PROVE lock' = x
  <2>1. x \in Workers
    BY LockersWork
  <2>2. x # w /\ InSection(x)
    BY <1>3, <1>4, <2>1 DEF InSection
  <2> QED
    BY <1>1, <2>2 DEF SectionInv, HoldsLock
<1>5. \A x \in Workers \ Lockers : pc'[x] # "acquire"
  BY <1>3 DEF SectionInv
<1> QED
  BY <1>2, <1>4, <1>5 DEF SectionInv, HoldsLock

\* Taking the lock admits one locker, when no other is inside.
LEMMA AcquireKeeps ==
    ASSUME SectionInv, NEW w \in Workers, Acquire(w)
    PROVE  SectionInv'
<1>1. /\ w \in Lockers /\ lock = None /\ lock' = w
      /\ pc' = [pc EXCEPT ![w] = "check"]
  BY DEF Acquire, LockFree, Enter, Goto
<1>2. pc' \in [Workers -> Stage] /\ lock' \in Lockers \union {None}
  BY <1>1 DEF SectionInv, Stage
<1>3. \A x \in Workers : pc'[x] = IF x = w THEN "check" ELSE pc[x]
  BY <1>1 DEF SectionInv
<1>4. ASSUME NEW x \in Lockers, InSection(x)'  PROVE lock' = x
  <2>1. x \in Workers
    BY LockersWork
  <2>2. None \notin Lockers
    BY FreshnessAssumption, LockersWork
  <2>3. x = w
    BY <1>1, <1>3, <1>4, <2>1, <2>2 DEF InSection, SectionInv, HoldsLock
  <2> QED
    BY <1>1, <2>3
<1>5. \A x \in Workers \ Lockers : pc'[x] # "acquire"
  BY <1>3 DEF SectionInv
<1> QED
  BY <1>2, <1>4, <1>5 DEF SectionInv, HoldsLock

\* Every step keeps the invariant: the actions that leave their section, the
\* ones that move on inside it, and the ones that only arrive.
LEMMA SectionStep == SectionInv /\ [Next]_vars => SectionInv'
<1> SUFFICES ASSUME SectionInv, [Next]_vars  PROVE SectionInv'
  OBVIOUS
<1>1. CASE UNCHANGED <<pc, lock>>
  BY <1>1 DEF SectionInv, HoldsLock, InSection
<1>2. CASE Push \/ Toggle \/ UNCHANGED vars
  BY <1>1, <1>2 DEF Push, Toggle, vars, registry, work
<1>3. CASE Crash
  BY <1>3, LockersWork DEF Crash, SectionInv, HoldsLock, InSection, Stage
<1>4. CASE PollPass
  <2>1. Poller \in Workers /\ Poller \in Lockers
    BY DEF Workers, Lockers
  <2>2. Goto(Poller, "acquire") /\ lock' = lock
    BY <1>4 DEF PollPass, registry
  <2> QED
    BY <2>1, <2>2, MoveKeeps DEF Stage
<1>5. ASSUME NEW w \in Workers, Arrival(w)  PROVE SectionInv'
  <2>1. CASE Webhook(w)
    <3>1. w \in Lockers /\ Goto(w, "acquire") /\ lock' = lock
      BY <2>1 DEF Webhook, registry, Lockers
    <3> QED
      BY <3>1, MoveKeeps DEF Stage
  <2>2. CASE ForceSync(w)
    <3>1. w \notin Lockers /\ Goto(w, "check") /\ lock' = lock
      BY <2>2, FreshnessAssumption DEF ForceSync, Enter, registry
    <3> QED
      BY <3>1, MoveKeeps DEF Stage
  <2>3. CASE AddManaged(w)
    <3>1. PICK stage \in {"clone", "fetch"} : Goto(w, stage)
      BY <2>3 DEF AddManaged, Enter
    <3>2. w \notin Lockers /\ lock' = lock
      BY <2>3, FreshnessAssumption DEF AddManaged, registry
    <3> QED
      BY <3>1, <3>2, MoveKeeps DEF Stage
  <2>4. CASE RemoveClone(w)
    <3>1. Goto(w, "delete") /\ lock' = lock
      BY <2>4 DEF RemoveClone, registry
    <3> QED
      BY <3>1, MoveKeeps DEF Stage
  <2>5. CASE ForceSyncLocal(w) \/ IngestRepo(w)
    <3>1. w \notin Lockers /\ Goto(w, "walk") /\ lock' = lock
      BY <2>5, FreshnessAssumption
         DEF ForceSyncLocal, IngestRepo, EnterUnder, registry
    <3> QED
      BY <3>1, MoveKeeps DEF Stage
  <2> QED
    BY <1>5, <2>1, <2>2, <2>3, <2>4, <2>5 DEF Arrival
<1>6. ASSUME NEW w \in Workers, Step(w)  PROVE SectionInv'
  <2>1. CASE CheckUnchanged(w) \/ Mark(w) \/ UpsertLocal(w) \/ Fail(w)
    BY <2>1, LeaveKeeps DEF CheckUnchanged, Mark, UpsertLocal, Fail
  <2>2. CASE RemoveRow(w) \/ RemoveRowFails(w)
    <3>1. Goto(w, "idle") /\ lock' = lock
      BY <2>2 DEF RemoveRow, RemoveRowFails, registry
    <3> QED
      BY <3>1, MoveKeeps DEF Stage
  <2>3. CASE \/ Check(w) \/ Clone(w) \/ Fetch(w) \/ Reset(w) \/ Head(w)
             \/ Register(w) \/ Walk(w) \/ Written(w)
    <3>1. PICK stage \in {"fetch", "head", "reset", "register", "walk",
                          "write", "mark"} : Goto(w, stage)
      BY <2>3 DEF Check, Clone, Fetch, Reset, Head, Register, Walk, Written
    <3>2. InSection(w) /\ lock' = lock
      BY <2>3 DEF Check, Clone, Fetch, Reset, Head, Register, Walk, Written,
                  InSection, registry
    <3> QED
      BY <3>1, <3>2, MoveKeeps DEF Stage
  <2> QED
    BY <1>6, <2>1, <2>2, <2>3 DEF Step
<1> QED
  BY <1>2, <1>3, <1>4, <1>5, <1>6, AcquireKeeps DEF Next

\* The promise of locks.py: "the two never run run_ingest for the same repo
\* concurrently", for the poller and any number of webhooks, whatever the
\* endpoints, the failures and the crashes do.
THEOREM LockExcludes == Spec => []LoopsExclude
<1>1. SectionInv => LoopsExclude
  BY DEF SectionInv, HoldsLock, LoopsExclude
<1> QED
  BY <1>1, InitSection, SectionStep, PTL DEF Spec

----------------------------------------------------------------------------
(* What a row may claim.  FreshClaimHolds speaks of the moments at which   *)
(* nobody works on the repository, so the invariant has to say what a      *)
(* worker that is half way through carries with it: what it fetched, the   *)
(* sha it will record, the tree it walked.                                 *)

\* The sha to record is known: the worker is past rev-parse HEAD.
Fixed(w) == pc[w] \in {"register", "walk", "write", "mark"}

\* Every commit anything remembers is one the tip has been at, so a commit
\* that is pushed for the first time is claimed by no row.
Sound ==
    /\ \A w \in Workers : Fixed(w) => target[w] # None
    /\ \A w \in Workers : pc[w] = "register" => w \in Adds
    /\ \A w \in Workers : pc[w] \notin {"idle", "delete"} => dir[w] \in Dirs
    /\ \A w \in Workers : pc[w] = "clone" => dir[w] = "managed"
    /\ clone["managed"] # None => fetched["managed"] # None
    /\ \A w \in Workers : pc[w] = "reset" /\ dir[w] = "own" => fetched["own"] # None
    /\ remote \in past
    /\ \A d \in Dirs : {clone[d], fetched[d]} \ {None} \subseteq past
    /\ \A w \in Workers : target[w] # None => target[w] \in past
    /\ row # None => row.last \in past

TypeInv == TypeOK /\ Sound

\* Two workers in their sections leave the mark of an overlap behind.
OneAtWork ==
    "overlap" \notin suspect =>
        \A w, x \in Workers : InSection(w) /\ InSection(x) => w = x

\* Only runs that are writing can have clashed.
OverlapInv ==
    /\ clashed \subseteq Writing
    /\ "overlap" \notin suspect => clashed = {}
    /\ OneAtWork

\* The row claims the tip, so that a poll passes the repository over.
Claims == row # None /\ row.last = remote

\* What a worker carries from one step to the next when nothing is suspect.
Fresh(w) ==
    /\ pc[w] = "walk" => clone[dir[w]] \in {None, target[w]}
    /\ pc[w] = "write" => tree[w] = target[w]
    /\ pc[w] = "mark" => index.at = target[w]
    /\ Claims =>
         /\ pc[w] = "reset" => clone[dir[w]] = None \/ fetched[dir[w]] = remote
         /\ pc[w] = "head" => clone[dir[w]] \in {None, remote}
         /\ pc[w] \in {"walk", "write"} => target[w] = remote

ClaimInv ==
    suspect = {} => /\ Claims => index.at = remote
                    /\ \A w \in Workers : Fresh(w)

\* Rows and indexes are typed whatever the Boolean in them.
LEMMA RowTyped ==
    \A c \in Commits, b \in BOOLEAN, s \in {"managed", "local"}, d \in Dirs :
        [last |-> c, watch |-> b, source |-> s, path |-> d] \in Row
BY DEF Row

\* The same for the index.
LEMMA IndexTyped ==
    \A c \in Commits \union {None, Torn}, b \in BOOLEAN, l \in BOOLEAN :
        [at |-> c, whole |-> b, left |-> l] \in Index
BY DEF Index

\* The first states, empty or synced, are typed and remember only the tip.
LEMMA InitTyped == Init => TypeInv
<1> SUFFICES ASSUME Init  PROVE TypeInv
  OBVIOUS
<1> USE FreshnessAssumption
<1>1. PICK head \in {None, remote} :
        /\ clone = [d \in Dirs |-> IF d = "managed" THEN head ELSE None]
        /\ row = IF head = None THEN None ELSE ManagedRow(head, TRUE)
        /\ index = [at |-> head, whole |-> TRUE, left |-> FALSE]
  BY DEF Init
<1>2. remote \in Commits /\ "managed" \in Dirs
  BY DEF Init, Dirs
<1>3. row \in Row \union {None} /\ index \in Index
  BY <1>1, <1>2, RowTyped, IndexTyped DEF ManagedRow
<1>4. clone \in [Dirs -> Commits \union {None}] /\ fetched = clone
  BY <1>1, <1>2 DEF Init
<1>5. TypeOK
  <2>1. /\ remote \in Commits /\ lock = None /\ past = {remote} /\ suspect = {}
        /\ pc = [w \in Workers |-> "idle"] /\ seen = [w \in Workers |-> None]
        /\ dir = [w \in Workers |-> None] /\ target = [w \in Workers |-> None]
        /\ tree = [w \in Workers |-> None] /\ clashed = {}
        /\ moves = 0 /\ faults = 0
    BY DEF Init
  <2>2. fetched \in [Dirs -> Commits \union {None}]
    BY <1>4
  <2>3. /\ pc \in [Workers -> Stage]
        /\ seen \in [Workers -> Commits \union {None}]
        /\ dir \in [Workers -> Dirs \union {None}]
        /\ target \in [Workers -> Commits \union {None}]
        /\ tree \in [Workers -> Commits \union {None, Torn}]
    BY <2>1 DEF Stage
  <2> QED
    BY <1>3, <1>4, <2>1, <2>2, <2>3 DEF TypeOK
<1>6. row # None => row.last = remote
  BY <1>1 DEF ManagedRow
<1>7. \A d \in Dirs : clone[d] \in {None, remote}
  BY <1>1
<1>8. Sound
  BY <1>2, <1>4, <1>6, <1>7 DEF Init, Sound, Fixed
<1> QED
  BY <1>5, <1>8 DEF TypeInv

\* A worker that leaves keeps the types of what it resets.
LEMMA LeaveTyped ==
    ASSUME TypeInv, NEW w \in Workers, Leave(w)
    PROVE  /\ pc' \in [Workers -> Stage] /\ lock' \in Lockers \union {None}
           /\ seen' \in [Workers -> Commits \union {None}]
           /\ dir' \in [Workers -> Dirs \union {None}]
           /\ target' \in [Workers -> Commits \union {None}]
           /\ tree' \in [Workers -> Commits \union {None, Torn}]
           /\ clashed' \in SUBSET Workers
           /\ \A x \in Workers : Fixed(x)' => target'[x] # None
           /\ \A x \in Workers : pc'[x] = "register" => x \in Adds
           /\ \A x \in Workers : pc'[x] \notin {"idle", "delete"} => dir'[x] \in Dirs
           /\ \A x \in Workers : pc'[x] = "clone" => dir'[x] = "managed"
           /\ \A x \in Workers : pc'[x] = "reset" /\ dir'[x] = "own" => fetched["own"] # None
           /\ \A x \in Workers : target'[x] # None => target'[x] \in past
BY DEF TypeInv, TypeOK, Sound, Leave, Goto, Fixed, Stage

\* A run that returns leaves an index, whether it was whole or not.
LEMMA WrittenTyped ==
    ASSUME TypeInv, NEW w \in Workers, Written(w)
    PROVE  index' \in Index
<1>1. tree[w] \in Commits \union {None, Torn} /\ LeftBy(w) \subseteq BOOLEAN
  BY DEF TypeInv, TypeOK, Index, LeftBy
<1>2. TornIndex \in Index
  BY IndexTyped DEF TornIndex
<1>3. CASE w \in clashed \/ tree[w] = Torn
  BY <1>2, <1>3 DEF Written
<1>4. CASE ~(w \in clashed \/ tree[w] = Torn)
  <2>1. PICK whole \in BOOLEAN, left \in LeftBy(w) :
          index' = [at |-> tree[w], whole |-> whole, left |-> left]
    BY <1>4 DEF Written
  <2>2. left \in BOOLEAN
    BY <1>1, <2>1
  <2> QED
    BY <1>1, <2>1, <2>2, IndexTyped
<1> QED
  BY <1>3, <1>4

\* A worker that reads the row takes a commit and a directory from it.
LEMMA ReadsTyped ==
    ASSUME TypeInv, NEW w \in Workers, Reads(w)
    PROVE  /\ seen' \in [Workers -> Commits \union {None}]
           /\ dir' \in [Workers -> Dirs \union {None}]
           /\ row \in Row /\ row.last \in Commits /\ row.path \in Dirs
           /\ dir'[w] = row.path
           /\ \A x \in Workers \ {w} : dir'[x] = dir[x]
<1>1. row \in Row /\ row.last \in Commits /\ row.path \in Dirs
  BY DEF TypeInv, TypeOK, Row, Reads
<1> QED
  BY <1>1 DEF TypeInv, TypeOK, Reads

\* What a caller has checked out is a commit of the branch.
LEMMA CheckedOutTyped ==
    ASSUME TypeInv, NEW d \in Dirs, CheckedOut(d)
    PROVE  /\ clone' \in [Dirs -> Commits \union {None}]
           /\ clone'["managed"] = clone["managed"]
           /\ \A e \in Dirs : {clone'[e]} \ {None} \subseteq past
<1>1. CASE clone' = clone
  BY <1>1 DEF TypeInv, TypeOK, Sound, Dirs
<1>2. CASE clone' # clone
  <2>1. PICK c \in past : clone' = [clone EXCEPT !["own"] = c]
    BY <1>2 DEF CheckedOut
  <2>2. c \in Commits
    BY <2>1 DEF TypeInv, TypeOK
  <2> QED
    BY <2>1, <2>2 DEF TypeInv, TypeOK, Sound, Dirs
<1> QED
  BY <1>1, <1>2

\* Every step keeps the types, and remembers only commits of the branch.
LEMMA TypeStep == TypeInv /\ [Next]_vars => TypeInv'
<1> SUFFICES ASSUME TypeInv, [Next]_vars  PROVE TypeInv'
  OBVIOUS
<1> USE FreshnessAssumption, LockersWork DEF registry, work, ghosts,
             TypeInv, TypeOK, Sound, Fixed, Stage, Goto
<1>1. CASE UNCHANGED vars
  BY <1>1 DEF vars
<1>2. CASE Push
  BY <1>2 DEF Push
<1>3. CASE Toggle
  BY <1>3 DEF Toggle, Row
<1>4. CASE Crash
  BY <1>4 DEF Crash
<1>5. CASE PollPass
  <2>1. Poller \in Workers /\ Reads(Poller)
    BY <1>5 DEF PollPass, Lockers, Workers
  <2> QED
    BY <1>5, <2>1, ReadsTyped DEF PollPass
<1>6. ASSUME NEW w \in Workers, Arrival(w)  PROVE TypeInv'
  <2>1. CASE Webhook(w)
    BY <2>1, ReadsTyped DEF Webhook
  <2>2. CASE ForceSync(w)
    BY <2>2, ReadsTyped DEF ForceSync, Enter
  <2>3. CASE AddManaged(w)
    <3>1. /\ dir' = [dir EXCEPT ![w] = "managed"] /\ "managed" \in Dirs
          /\ suspect' \in SUBSET {"rollback", "overlap", "add", "stated"}
          /\ UNCHANGED <<remote, clone, fetched, index, row, lock, seen, target,
                         tree, clashed, moves, faults, past>>
      BY <2>3 DEF AddManaged, Enter, Dirs
    <3>2. PICK stage \in {"clone", "fetch"} : pc' = [pc EXCEPT ![w] = stage]
      BY <2>3 DEF AddManaged, Enter
    <3> QED
      BY <3>1, <3>2
  <2>4. CASE RemoveClone(w)
    <3>1. CASE UNCHANGED <<clone, fetched>>
      BY <2>4, <3>1 DEF RemoveClone
    <3>2. CASE /\ clone' = [clone EXCEPT !["managed"] = None]
               /\ fetched' = [fetched EXCEPT !["managed"] = None]
      BY <2>4, <3>2 DEF RemoveClone, Dirs
    <3> QED
      BY <2>4, <3>1, <3>2 DEF RemoveClone
  <2>5. CASE ForceSyncLocal(w)
    <3>1. Reads(w) /\ target' = [target EXCEPT ![w] = row.last]
      BY <2>5 DEF ForceSyncLocal
    <3>2. row.last \in past /\ row.last \in Commits
      BY <3>1 DEF Reads
    <3>3. /\ pc' = [pc EXCEPT ![w] = "walk"]
          /\ suspect' \in SUBSET {"rollback", "overlap", "add", "stated"}
          /\ UNCHANGED <<remote, clone, fetched, index, row, lock, tree, clashed,
                         moves, faults, past>>
      BY <2>5 DEF ForceSyncLocal, EnterUnder
    <3>4. /\ seen' \in [Workers -> Commits \union {None}]
          /\ dir' \in [Workers -> Dirs \union {None}]
          /\ dir'[w] \in Dirs
          /\ \A x \in Workers \ {w} : dir'[x] = dir[x]
      BY <3>1, ReadsTyped DEF TypeInv
    <3>5. TypeOK'
      BY <3>1, <3>2, <3>3, <3>4
    <3>6. Sound'
      BY <3>1, <3>2, <3>3, <3>4
    <3> QED
      BY <3>5, <3>6
  <2>6. CASE IngestRepo(w)
    <3>1. PICK d \in Dirs, sha \in past :
            /\ dir' = [dir EXCEPT ![w] = d]
            /\ target' = [target EXCEPT ![w] = sha]
            /\ CheckedOut(d)
      BY <2>6 DEF IngestRepo
    <3>2. sha \in Commits
      BY <3>1
    <3>3. /\ pc' = [pc EXCEPT ![w] = "walk"]
          /\ suspect' \in SUBSET {"rollback", "overlap", "add", "stated"}
          /\ UNCHANGED <<remote, fetched, index, row, lock, seen, tree, clashed,
                         moves, faults, past>>
      BY <2>6 DEF IngestRepo, EnterUnder
    <3>4. /\ clone' \in [Dirs -> Commits \union {None}]
          /\ clone'["managed"] = clone["managed"]
          /\ \A e \in Dirs : {clone'[e]} \ {None} \subseteq past
      BY <3>1, CheckedOutTyped DEF TypeInv
    <3>5. TypeOK'
      BY <3>1, <3>2, <3>3, <3>4
    <3>6. Sound'
      BY <3>1, <3>2, <3>3, <3>4
    <3> QED
      BY <3>5, <3>6
  <2> QED
    BY <1>6, <2>1, <2>2, <2>3, <2>4, <2>5, <2>6 DEF Arrival
<1>7. ASSUME NEW w \in Workers, Acquire(w)  PROVE TypeInv'
  BY <1>7 DEF Acquire, Enter
<1>8. ASSUME NEW w \in Workers, Step(w)  PROVE TypeInv'
  <2>1. CASE Check(w)
    BY <2>1 DEF Check
  <2>2. CASE CheckUnchanged(w)
    BY <2>2, LeaveTyped DEF CheckUnchanged
  <2>3. CASE Clone(w)
    BY <2>3 DEF Clone, Dirs
  <2>4. CASE Fetch(w)
    BY <2>4 DEF Fetch
  <2>5. CASE Reset(w)
    BY <2>5 DEF Reset
  <2>6. CASE Head(w)
    BY <2>6 DEF Head
  <2>7. CASE Register(w)
    <3>1. target[w] \in past /\ target[w] \in Commits
      BY <2>7 DEF Register
    <3>2. row' \in Row /\ row'.last = target[w]
      <4>1. "managed" \in Dirs /\ (row = None \/ row.watch) \in BOOLEAN
        BY DEF Dirs, Row
      <4> QED
        BY <2>7, <3>1, <4>1, RowTyped DEF Register, Upserted, ManagedRow
    <3> QED
      BY <2>7, <3>1, <3>2 DEF Register
  <2>8. CASE Walk(w)
    <3>1. index' \in Index
      <4>1. TornIndex \in Index
        BY IndexTyped DEF TornIndex
      <4> QED
        BY <2>8, <4>1 DEF Walk
    <3>2. tree' \in [Workers -> Commits \union {None, Torn}]
      BY <2>8 DEF Walk
    <3>3. clashed' \in SUBSET Workers
      BY <2>8 DEF Walk, Writing
    <3>4. pc' = [pc EXCEPT ![w] = "write"] /\ pc[w] = "walk"
      BY <2>8 DEF Walk
    <3> QED
      BY <2>8, <3>1, <3>2, <3>3, <3>4 DEF Walk
  <2>9. CASE Written(w)
    <3>1. index' \in Index
      BY <2>9, WrittenTyped
    <3>2. pc' = [pc EXCEPT ![w] = "mark"] /\ pc[w] = "write"
      BY <2>9 DEF Written
    <3> QED
      BY <2>9, <3>1, <3>2 DEF Written
  <2>10. CASE Mark(w)
    <3>1. target[w] \in past /\ target[w] \in Commits
      BY <2>10 DEF Mark
    <3>2. row' \in Row \union {None} /\ (row' # None => row'.last \in past)
      BY <2>10, <3>1 DEF Mark, Synced, Recorded, Row
    <3>3. suspect' \in SUBSET {"rollback", "overlap", "add", "stated"}
      BY <2>10 DEF Mark
    <3> QED
      BY <2>10, <3>2, <3>3, LeaveTyped DEF Mark
  <2>14. CASE UpsertLocal(w)
    <3>1. target[w] \in past /\ target[w] \in Commits /\ dir[w] \in Dirs
      BY <2>14 DEF UpsertLocal
    <3>2. row' \in Row /\ row'.last = target[w]
      <4>1. CASE row = None
        BY <2>14, <3>1, <4>1, RowTyped DEF UpsertLocal, UpsertedLocal
      <4>2. CASE row # None
        BY <2>14, <3>1, <4>2 DEF UpsertLocal, UpsertedLocal, Row
      <4> QED
        BY <4>1, <4>2
    <3>3. suspect' \in SUBSET {"rollback", "overlap", "add", "stated"}
      BY <2>14 DEF UpsertLocal
    <3> QED
      BY <2>14, <3>1, <3>2, <3>3, LeaveTyped DEF UpsertLocal
  <2>11. CASE Fail(w)
    BY <2>11, LeaveTyped DEF Fail
  <2>12. CASE RemoveRow(w)
    BY <2>12 DEF RemoveRow
  <2>13. CASE RemoveRowFails(w)
    BY <2>13 DEF RemoveRowFails
  <2> QED
    BY <1>8, <2>1, <2>2, <2>3, <2>4, <2>5, <2>6, <2>7, <2>8, <2>9, <2>10,
       <2>11, <2>12, <2>13, <2>14 DEF Step
<1> QED
  BY <1>1, <1>2, <1>3, <1>4, <1>5, <1>6, <1>7, <1>8 DEF Next

\* Without the mark of an overlap, at most one worker is in its section and
\* no run has clashed: Mark wipes the mark only as the last one leaves.
LEMMA OverlapStep == TypeInv /\ OverlapInv /\ [Next]_vars => OverlapInv'
<1> SUFFICES ASSUME TypeInv, OverlapInv, [Next]_vars  PROVE OverlapInv'
  OBVIOUS
<1> USE FreshnessAssumption, LockersWork DEF registry, work, ghosts,
             OverlapInv, OneAtWork, Writing, InSection, TypeInv, TypeOK
<1>1. CASE UNCHANGED vars
  BY <1>1 DEF vars
<1>2. CASE Push
  BY <1>2 DEF Push
<1>3. CASE Toggle
  BY <1>3 DEF Toggle
<1>4. CASE Crash
  BY <1>4 DEF Crash
<1>5. CASE PollPass
  BY <1>5 DEF PollPass, Goto, Lockers, Workers
<1>6. ASSUME NEW w \in Workers, Arrival(w)  PROVE OverlapInv'
  <2>1. CASE Webhook(w)
    BY <2>1 DEF Webhook, Goto
  <2>2. CASE ForceSync(w)
    BY <2>2 DEF ForceSync, Enter, Alone, Goto
  <2>3. CASE AddManaged(w)
    BY <2>3 DEF AddManaged, Enter, Alone, Goto
  <2>4. CASE RemoveClone(w)
    BY <2>4 DEF RemoveClone, Goto
  <2>5. CASE ForceSyncLocal(w)
    BY <2>5 DEF ForceSyncLocal, EnterUnder, Alone, Goto
  <2>6. CASE IngestRepo(w)
    BY <2>6 DEF IngestRepo, EnterUnder, Alone, Goto
  <2> QED
    BY <1>6, <2>1, <2>2, <2>3, <2>4, <2>5, <2>6 DEF Arrival
<1>7. ASSUME NEW w \in Workers, Acquire(w)  PROVE OverlapInv'
  BY <1>7 DEF Acquire, Enter, Alone, Goto
<1>8. ASSUME NEW w \in Workers, Step(w)  PROVE OverlapInv'
  <2>1. CASE Check(w)
    BY <2>1 DEF Check, Goto
  <2>2. CASE CheckUnchanged(w)
    BY <2>2 DEF CheckUnchanged, Leave, Goto
  <2>3. CASE Clone(w)
    BY <2>3 DEF Clone, Goto
  <2>4. CASE Fetch(w)
    BY <2>4 DEF Fetch, Goto
  <2>5. CASE Reset(w)
    BY <2>5 DEF Reset, Goto
  <2>6. CASE Head(w)
    BY <2>6 DEF Head, Goto
  <2>7. CASE Register(w)
    BY <2>7 DEF Register, Goto
  <2>8. CASE Walk(w)
    BY <2>8 DEF Walk, Goto
  <2>9. CASE Written(w)
    BY <2>9 DEF Written, Goto
  <2>10. CASE Mark(w)
    BY <2>10 DEF Mark, Vouched, Leave, Goto, Alone
  <2>14. CASE UpsertLocal(w)
    BY <2>14 DEF UpsertLocal, Vouched, Leave, Goto, Alone
  <2>11. CASE Fail(w)
    BY <2>11 DEF Fail, Leave, Goto
  <2>12. CASE RemoveRow(w)
    BY <2>12 DEF RemoveRow, Goto
  <2>13. CASE RemoveRowFails(w)
    BY <2>13 DEF RemoveRowFails, Goto
  <2> QED
    BY <1>8, <2>1, <2>2, <2>3, <2>4, <2>5, <2>6, <2>7, <2>8, <2>9, <2>10,
       <2>11, <2>12, <2>13, <2>14 DEF Step
<1> QED
  BY <1>1, <1>2, <1>3, <1>4, <1>5, <1>6, <1>7, <1>8 DEF Next

\* The step that matters is Walk: it tears the memory unless the memory is
\* at the tree already, and a row that claims the tip claims that tree.
LEMMA ClaimStep == TypeInv /\ OverlapInv /\ ClaimInv /\ [Next]_vars => ClaimInv'
<1> SUFFICES ASSUME TypeInv, OverlapInv, ClaimInv, [Next]_vars  PROVE ClaimInv'
  OBVIOUS
<1> USE FreshnessAssumption, LockersWork DEF registry, work, ghosts,
             ClaimInv, Claims, Fresh, OverlapInv, OneAtWork, InSection,
             TypeInv, TypeOK, Sound, Fixed
<1>1. CASE UNCHANGED vars
  BY <1>1 DEF vars
<1>2. CASE Push
  BY <1>2 DEF Push
<1>3. CASE Toggle
  BY <1>3 DEF Toggle
<1>4. CASE Crash
  BY <1>4 DEF Crash
<1>5. CASE PollPass
  BY <1>5 DEF PollPass, Reads, Goto, Lockers, Workers
<1>6. ASSUME NEW w \in Workers, Arrival(w)  PROVE ClaimInv'
  <2>1. CASE Webhook(w)
    BY <2>1 DEF Webhook, Reads, Goto
  <2>2. CASE ForceSync(w)
    BY <2>2 DEF ForceSync, Enter, Alone, Goto
  <2>3. CASE AddManaged(w)
    BY <2>3 DEF AddManaged, Enter, Alone, Goto
  <2>4. CASE RemoveClone(w)
    BY <2>4 DEF RemoveClone, Goto
  <2>5. CASE ForceSyncLocal(w) \/ IngestRepo(w)
    BY <2>5 DEF ForceSyncLocal, IngestRepo, EnterUnder
  <2> QED
    BY <1>6, <2>1, <2>2, <2>3, <2>4, <2>5 DEF Arrival
<1>7. ASSUME NEW w \in Workers, Acquire(w)  PROVE ClaimInv'
  BY <1>7 DEF Acquire, Enter, Alone, Goto
<1>8. ASSUME NEW w \in Workers, Step(w)  PROVE ClaimInv'
  <2>1. CASE Check(w)
    BY <2>1 DEF Check, Goto
  <2>2. CASE CheckUnchanged(w)
    BY <2>2 DEF CheckUnchanged, Leave, Goto
  <2>3. CASE Clone(w)
    BY <2>3 DEF Clone, Goto, Dirs
  <2>4. CASE Fetch(w)
    BY <2>4 DEF Fetch, Goto
  <2>5. CASE Reset(w)
    BY <2>5 DEF Reset, Goto
  <2>6. CASE Head(w)
    BY <2>6 DEF Head, Goto
  <2>7. CASE Register(w)
    BY <2>7 DEF Register, Goto
  <2>8. CASE Walk(w)
    <3> SUFFICES ASSUME suspect' = {}
                 PROVE  /\ Claims' => index'.at = remote'
                        /\ \A x \in Workers : Fresh(x)'
      BY DEF ClaimInv
    <3>1. /\ pc[w] = "walk" /\ clone[dir[w]] # None /\ suspect = {}
          /\ pc' = [pc EXCEPT ![w] = "write"]
          /\ UNCHANGED <<remote, clone, row, dir, target>>
      BY <2>8 DEF Walk, Goto
    <3>2. \A x \in Workers \ {w} : ~InSection(x)
      BY <3>1 DEF OverlapInv, OneAtWork, InSection
    <3>3. Writing = {} /\ \A x \in Workers \ {w} : pc[x] # "reset"
      BY <3>1, <3>2 DEF Writing, InSection
    <3>4. clone[dir[w]] = target[w] /\ (Claims => index.at = remote /\ target[w] = remote)
      BY <3>1 DEF ClaimInv, Fresh
    <3>5. tree' = [tree EXCEPT ![w] = target[w]]
      BY <2>8, <3>3, <3>4 DEF Walk
    <3>6. target[w] = index.at => index' = index
      BY <2>8, <3>3, <3>4 DEF Walk
    <3>7. Claims' => Claims /\ index' = index
      BY <3>1, <3>4, <3>6 DEF Claims
    <3>8. \A x \in Workers \ {w} : pc'[x] = pc[x]
      BY <3>1 DEF TypeInv, TypeOK
    <3>9. pc'[w] = "write" /\ tree'[w] = target[w] /\ target'[w] = target[w]
      BY <3>1, <3>5 DEF TypeInv, TypeOK
    <3> QED
      BY <3>1, <3>2, <3>4, <3>7, <3>8, <3>9 DEF Fresh, InSection
  <2>9. CASE Written(w)
    BY <2>9 DEF Written, Goto
  <2>10. CASE Mark(w) \/ UpsertLocal(w)
    <3> SUFFICES ASSUME suspect' = {}
                 PROVE  /\ Claims' => index'.at = remote'
                        /\ \A x \in Workers : Fresh(x)'
      BY DEF ClaimInv
    <3>1. /\ pc[w] = "mark" /\ pc' = [pc EXCEPT ![w] = "idle"]
          /\ row' = Synced(target[w]) \/ row' = UpsertedLocal(target[w], dir[w])
          /\ UNCHANGED <<remote, index>>
      BY <2>10 DEF Mark, UpsertLocal, Recorded, Leave, Goto
    <3>2. Alone(w) /\ index.at = target[w]
      <4>1. CASE suspect = {}
        BY <3>1, <4>1 DEF ClaimInv, Fresh, OverlapInv, OneAtWork, InSection, Alone
      <4>2. CASE suspect # {}
        BY <2>10, <4>2 DEF Mark, UpsertLocal, Vouched
      <4> QED
        BY <4>1, <4>2
    <3>3. Claims' => index.at = remote
      <4>1. row' # None => row'.last = target[w]
        <5>1. row = None \/ row \in Row
          BY DEF TypeInv, TypeOK
        <5>2. CASE row' = Synced(target[w])
          BY <5>1, <5>2 DEF Synced, Row
        <5>3. CASE row' = UpsertedLocal(target[w], dir[w])
          BY <5>1, <5>3 DEF UpsertedLocal, Row
        <5> QED
          BY <3>1, <5>2, <5>3
      <4> QED
        BY <3>1, <3>2, <4>1 DEF Claims
    <3>4. \A x \in Workers : pc'[x] \in {"idle", "acquire", "delete"}
      BY <3>1, <3>2 DEF Alone, InSection, TypeInv, TypeOK
    <3> QED
      BY <3>1, <3>3, <3>4 DEF Fresh
  <2>11. CASE Fail(w)
    BY <2>11 DEF Fail, Leave, Goto
  <2>12. CASE RemoveRow(w)
    BY <2>12 DEF RemoveRow, Goto
  <2>13. CASE RemoveRowFails(w)
    BY <2>13 DEF RemoveRowFails, Goto
  <2> QED
    BY <1>8, <2>1, <2>2, <2>3, <2>4, <2>5, <2>6, <2>7, <2>8, <2>9, <2>10,
       <2>11, <2>12, <2>13 DEF Step
<1> QED
  BY <1>1, <1>2, <1>3, <1>4, <1>5, <1>6, <1>7, <1>8 DEF Next

\* Types are kept, whatever the numbers of workers, commits, moves, faults.
THEOREM FreshnessTyped == Spec => []TypeOK
<1>1. TypeInv => TypeOK
  BY DEF TypeInv
<1> QED
  BY <1>1, InitTyped, TypeStep, PTL DEF Spec

\* In the first states nobody works and a row claims what was ingested.
LEMMA InitClaim == Init => OverlapInv /\ ClaimInv
<1> SUFFICES ASSUME Init  PROVE OverlapInv /\ ClaimInv
  OBVIOUS
<1>1. \A w \in Workers : pc[w] = "idle"
  BY DEF Init
<1>2. Claims => index.at = remote
  <2>1. PICK head \in {None, remote} :
          /\ row = IF head = None THEN None ELSE ManagedRow(head, TRUE)
          /\ index = [at |-> head, whole |-> TRUE, left |-> FALSE]
    BY DEF Init
  <2> QED
    BY <2>1 DEF Claims, ManagedRow
<1> QED
  BY <1>1, <1>2 DEF Init, OverlapInv, OneAtWork, InSection, Writing, ClaimInv, Fresh

\* A row that claims the tip while nobody works claims what the memory holds,
\* except after the four accidents suspect names: however polls, webhooks,
\* forced syncs, adds, removals, POST /ingest, failures and crashes interleave.
THEOREM FreshClaims == Spec => []FreshClaimHolds
<1>1. ClaimInv => FreshClaimHolds
  BY DEF ClaimInv, Claims, FreshClaimHolds
<1> QED
  BY <1>1, InitTyped, InitClaim, TypeStep, OverlapStep, ClaimStep, PTL DEF Spec

\* No sync and no re-add flips watch_enabled, whatever was read before the
\* repository was paused: the upsert and mark_synced both keep the column.
THEOREM PausesSurvive == Spec => PauseSurvives
<1> DEFINE Kept == (row # None /\ row' # None /\ row'.watch # row.watch)
                     => (pc' = pc /\ row'.last = row.last)
<1>1. TypeInv /\ [Next]_vars => [Kept]_vars
  <2> SUFFICES ASSUME TypeInv, Next  PROVE Kept
    OBVIOUS
  <2>1. row # None => row \in Row
    BY DEF TypeInv, TypeOK
  <2>2. CASE row' = row
    BY <2>2
  <2>3. CASE Toggle
    BY <2>1, <2>3 DEF Toggle, work, Row
  <2>4. ASSUME NEW w \in Workers,
               Register(w) \/ Mark(w) \/ UpsertLocal(w) \/ RemoveRow(w)
        PROVE  Kept
    <3>1. CASE Register(w)
      BY <2>1, <3>1 DEF Register, Upserted, ManagedRow, Row
    <3>2. CASE Mark(w) \/ UpsertLocal(w) \/ RemoveRow(w)
      BY <2>1, <3>2 DEF Mark, Synced, UpsertLocal, UpsertedLocal, RemoveRow, Row
    <3> QED
      BY <2>4, <3>1, <3>2
  <2> QED
    BY <2>2, <2>3, <2>4
       DEF Next, Arrival, Step, registry, Push, Crash, PollPass, Acquire,
           Webhook, ForceSync, ForceSyncLocal, IngestRepo, AddManaged,
           RemoveClone, Check, CheckUnchanged, Clone, Fetch, Reset, Head, Walk,
           Written, Fail, RemoveRowFails
<1> QED
  BY <1>1, InitTyped, TypeStep, PTL DEF Spec, PauseSurvives

\* A sync that outlives the removal of its repository does not bring it
\* back, only registry.add_managed makes a row managed, and the upsert of
\* POST /ingest neither makes a managed row local nor a local one managed.
THEOREM RemovedStays == Spec => RemovedStaysRemoved
<1> DEFINE Sourced ==
        /\ IsManaged(row') /\ ~IsManaged(row)
             => \E d \in Adds : pc[d] = "register" /\ pc'[d] = "walk"
        /\ row = None /\ row' # None /\ ~IsManaged(row')
             => \E p \in Posts : pc[p] = "mark" /\ pc'[p] = "idle"
        /\ IsManaged(row) /\ row' # None => IsManaged(row')
<1>1. TypeInv /\ [Next]_vars => [Sourced]_vars
  <2> SUFFICES ASSUME TypeInv, Next  PROVE Sourced
    OBVIOUS
  <2>1. row # None => row \in Row
    BY DEF TypeInv, TypeOK
  <2>2. CASE row' = row
    BY <2>2
  <2>3. CASE Toggle
    BY <2>1, <2>3 DEF Toggle, IsManaged, Row
  <2>4. ASSUME NEW w \in Workers, Register(w)  PROVE Sourced
    <3>1. w \in Adds /\ pc[w] = "register" /\ pc'[w] = "walk"
      BY <2>4 DEF Register, Goto, TypeInv, TypeOK, Sound
    <3>2. row' # None => IsManaged(row')
      BY <2>4 DEF Register, Upserted, ManagedRow, IsManaged
    <3> QED
      BY <3>1, <3>2
  <2>5. ASSUME NEW w \in Workers, UpsertLocal(w)  PROVE Sourced
    <3>1. w \in Posts /\ pc[w] = "mark" /\ pc'[w] = "idle"
      BY <2>5 DEF UpsertLocal, Leave, Goto, TypeInv, TypeOK
    <3>2. row' # None => (IsManaged(row') <=> IsManaged(row))
      BY <2>1, <2>5 DEF UpsertLocal, UpsertedLocal, IsManaged, Row
    <3> QED
      BY <3>1, <3>2 DEF IsManaged
  <2>6. ASSUME NEW w \in Workers, Mark(w) \/ RemoveRow(w)  PROVE Sourced
    BY <2>1, <2>6 DEF Mark, Synced, RemoveRow, IsManaged, Row
  <2> QED
    BY <2>2, <2>3, <2>4, <2>5, <2>6
       DEF Next, Arrival, Step, registry, Push, Crash, PollPass, Acquire,
           Webhook, ForceSync, ForceSyncLocal, IngestRepo, AddManaged,
           RemoveClone, Check, CheckUnchanged, Clone, Fetch, Reset, Head, Walk,
           Written, Fail, RemoveRowFails
<1> QED
  BY <1>1, InitTyped, TypeStep, PTL DEF Spec, RemovedStaysRemoved
=============================================================================
