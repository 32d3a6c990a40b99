------------------------ MODULE EmbeddingModeProofs -------------------------
(***************************************************************************)
(* Proofs about EmbeddingMode: what its runs check on two repositories and *)
(* three requests, for any number of them and of failures.                 *)
(*                                                                         *)
(* One inductive invariant carries all five properties.  Its parts:        *)
(*   TypeInv    the values of the state, and which step a request of each  *)
(*              kind can be at;                                            *)
(*   ConfigInv  how far the one configuration write in progress has come;  *)
(*   LoneInv    a request nothing overlapped is the only one there is;     *)
(*   ApartInv   at most one request touches an unspoiled repository;       *)
(*   UnitInv    a repository on a reindex's list has a unit, and one that  *)
(*              has no unit has no collection a switch would miss;         *)
(*   TextInv    the text a request carries is the row's, and so is the     *)
(*              point's once its placeholder is written;                   *)
(*   SizeInv    a collection has the active size, or a reindex still has   *)
(*              it on its list;                                            *)
(*   ServeInv   what an undisturbed switch or reembed has finished.        *)
(***************************************************************************)
EXTENDS EmbeddingMode, TLAPS

Pcs == {"idle", "read", "write", "reload", "swap", "repos", "next", "recreate",
        "create", "list", "ensure", "rows", "placeholder", "batch", "embed", "respond"}

Request == [pc : Pcs, op : Ops \union {None}, mode : Modes \union {None},
            key : BOOLEAN, row : Config \union {None}, left : SUBSET Repos,
            repo : Repos \union {None}, embedder : Sizes \union {None},
            text : Versions \union {None}, failed : BOOLEAN]

Point == [text : Versions, size : Sizes \union {None}, vector : BOOLEAN]

\* Which kinds of request reach a step, and what they carry there.
Shaped(q) ==
    /\ q.pc # "idle" => q.op \in Ops
    /\ q.pc = "idle" => q.op = None
    /\ q.pc \in {"read", "write", "reload", "swap"} => q.op \in ConfigOps
    /\ q.pc \in {"write", "swap"} => q.row \in Config
    /\ q.pc \in {"repos", "next", "recreate", "create"} => q.op = "switch"
    /\ q.pc \in {"ensure", "rows", "placeholder"} => q.op = "ingest"
    /\ q.pc = "list" => q.op \in {"switch", "reembed"}
    /\ q.pc \in {"batch", "embed"} => q.op \notin {"openai_key", "mcp_key"}
    /\ q.pc \in {"ensure", "rows", "placeholder", "batch", "embed"} => q.text \in Versions
    /\ q.pc \in {"create", "batch", "embed"} => q.embedder \in Sizes
    /\ q.pc \in {"recreate", "create", "list", "batch", "embed"} => q.repo \in Repos
    /\ q.pc # "idle" /\ q.op \in {"ingest", "reembed"} => q.repo \in Repos
    /\ q.pc = "read" /\ q.op = "switch" => q.mode \in Modes

TypeInv ==
    /\ tier \in {"lite", "server"}
    /\ cfg \in Config /\ snap \in Config /\ asked \in Config
    /\ unit \in [Repos -> Versions \union {None}]
    /\ size \in [Repos -> Sizes \union {None}]
    /\ sizeCache \in [Repos -> Sizes \union {None}]
    /\ point \in [Repos -> Point \union {None}]
    /\ inFlight \subseteq Repos
    /\ req \in [Slots -> Request]
    /\ crossed \in BOOLEAN /\ spoiled \subseteq Repos /\ lone \subseteq Slots
    /\ \A s \in Slots : Shaped(req[s])

---------------------------------------------------------------------------
(* The parts of the invariant.                                             *)

\* The only configuration write there is, step by step.
WriteProgress(s) ==
    /\ At(s, "read") =>
          /\ snap = cfg /\ Merged(req[s], cfg) = asked
          /\ req[s].op = "switch" => req[s].row = snap
    /\ At(s, "write") => req[s].row = asked
    /\ At(s, "reload") => cfg = asked
    /\ At(s, "swap") => cfg = asked /\ req[s].row = asked
    /\ req[s].pc \in {"write", "reload", "swap"} =>
          (req[s].op = "switch" /\ req[s].key) \/ snap.mode = asked.mode

ConfigInv ==
    ~crossed =>
      /\ \A s, t \in Writers : s = t
      /\ (\A s \in Slots : ~Lost(req[s])) => cfg = asked /\ snap = cfg
      /\ \A s \in Slots : WriteProgress(s)

LoneInv == \A s \in lone : Busy(s) /\ \A t \in Slots \ {s} : ~Busy(t)

ApartInv ==
    \A r \in Repos \ spoiled, s \in Slots, t \in Slots :
        /\ Busy(s) /\ Busy(t)
        /\ r \in Touches(req[s]) /\ r \in Touches(req[t])
        => s = t

Looping == {"next", "recreate", "create", "list", "batch", "embed"}

UnitInv ==
    /\ \A s \in Slots :
          /\ req[s].op = "switch" /\ req[s].pc \in Looping =>
                \A r \in req[s].left : unit[r] # None
          /\ req[s].pc \in {"recreate", "create", "placeholder", "batch", "embed"} =>
                unit[req[s].repo] # None
          /\ req[s].pc = "list" /\ req[s].op = "switch" => unit[req[s].repo] # None
    /\ \A r \in Repos \ spoiled :
          /\ unit[r] = None
          /\ \A s \in Slots : ~(At(s, "rows") /\ req[s].repo = r)
          => size[r] = None

TextInv ==
    /\ \A s \in Slots :
          /\ req[s].pc \in {"placeholder", "batch", "embed"}
          /\ req[s].repo \notin spoiled
          => req[s].text = unit[req[s].repo]
    /\ \A r \in Repos \ spoiled :
          /\ \A s \in Slots : ~(At(s, "placeholder") /\ req[s].repo = r)
          /\ point[r] # None
          => point[r].text = unit[r]

\* A reindex still has the collection of r before it.
Awaits(s, r) ==
    /\ req[s].op = "switch"
    /\ \/ At(s, "repos")
       \/ req[s].pc \in Looping /\ r \in req[s].left
       \/ At(s, "recreate") /\ req[s].repo = r

SizeInv ==
    ~crossed =>
      /\ \A r \in Repos \ spoiled :
            size[r] \in {None, ActiveDimension(snap)} \/ \E s \in Slots : Awaits(s, r)
      /\ \A s \in Slots : req[s].repo \notin spoiled =>
            /\ req[s].pc \in {"create", "batch", "embed"} =>
                  req[s].embedder = ActiveDimension(snap)
            /\ At(s, "list") /\ req[s].op = "reembed" =>
                  req[s].embedder = ActiveDimension(snap)
            /\ At(s, "placeholder") =>
                  req[s].embedder \in {None, ActiveDimension(snap)}

\* The reindex has brought r in line.
Reindexed(r) ==
    unit[r] # None =>
      /\ size[r] = ActiveDimension(snap)
      /\ IF EmbeddingsEnabled(snap) THEN Searchable(r) ELSE point[r] = None

SwitchProgress(s) ==
    LET q == req[s] IN
    /\ At(s, "next") => \A r \in Repos \ q.left : Reindexed(r)
    /\ q.pc \in Looping \ {"next"} =>
          \A r \in Repos \ (q.left \union {q.repo}) : Reindexed(r)
    /\ At(s, "create") => size[q.repo] = None /\ point[q.repo] = None
                          /\ q.embedder = ActiveDimension(snap)
    /\ q.pc \in {"list", "batch", "embed"} =>
          size[q.repo] = ActiveDimension(snap) /\ point[q.repo] = None
    /\ q.pc \in {"batch", "embed"} =>
          /\ EmbeddingsEnabled(snap) /\ q.embedder = ActiveDimension(snap)
          /\ q.text = unit[q.repo]
    /\ At(s, "embed") => sizeCache[q.repo] = q.embedder
    /\ At(s, "respond") => \A r \in Repos : Reindexed(r)

ReembedProgress(s) ==
    LET q == req[s] IN
    /\ q.pc \in {"list", "batch", "embed"} =>
          EmbeddingsEnabled(snap) /\ q.embedder = ActiveDimension(snap)
    /\ q.pc \in {"batch", "embed"} => q.text = unit[q.repo]
    /\ At(s, "embed") => sizeCache[q.repo] = q.embedder
    /\ At(s, "respond") => (unit[q.repo] # None => Searchable(q.repo))

ServeInv ==
    \A s \in lone : ~req[s].failed =>
        /\ req[s].op = "switch" /\ req[s].key => SwitchProgress(s)
        /\ req[s].op = "reembed" => ReembedProgress(s)

Inv == /\ TypeInv /\ ConfigInv /\ LoneInv /\ ApartInv
       /\ UnitInv /\ TextInv /\ SizeInv /\ ServeInv
---------------------------------------------------------------------------
(* Types.                                                                  *)

\* What the configuration selects has the types its readers expect: an
\* embedder is a size or none, and the active size depends on the mode alone.
LEMMA SelectionFacts ==
    ASSUME NEW c \in Config
    PROVE  /\ RuntimeEmbedder(c) \in Sizes \union {None}
           /\ ActiveDimension(c) \in Sizes
           /\ ActiveDimension(c) = IF c.mode = "local" THEN LocalSize ELSE OpenAISize
           /\ EmbeddingsEnabled(c) => RuntimeEmbedder(c) = ActiveDimension(c)
           /\ ~EmbeddingsEnabled(c) => RuntimeEmbedder(c) = None
  BY DEF Config, RuntimeEmbedder, ActiveDimension, EmbeddingsEnabled, Sizes,
         LocalSize, OpenAISize

\* None is none of the values it stands beside.
LEMMA NoneFacts ==
    /\ None \notin Repos /\ None \notin Versions 
    /\ None \notin Sizes /\ None \notin Config /\ None \notin Ops
    /\ LocalSize # OpenAISize
  BY EmbeddingAssumption DEF Sizes, LocalSize, OpenAISize

\* The merge of a configuration write is a row, and changes the mode only
\* for a mode switch.
LEMMA MergedFacts ==
    ASSUME NEW q \in Request, Shaped(q), q.pc = "read", NEW c \in Config
    PROVE  /\ Merged(q, c) \in Config
           /\ q.op = "switch" => Merged(q, c).mode = q.mode
           /\ q.op # "switch" => Merged(q, c).mode = c.mode
  <1>1. CASE q.op = "switch"
    <2>1. Merged(q, c) = [c EXCEPT !.mode = q.mode]  BY <1>1 DEF Merged
    <2>2. q.mode \in Modes  BY <1>1 DEF Shaped
    <2> QED BY <1>1, <2>1, <2>2 DEF Config
  <1>2. CASE q.op = "openai_key"
    <2>1. Merged(q, c) = [c EXCEPT !.openaiKey = q.key]  BY <1>2 DEF Merged
    <2>2. q.key \in BOOLEAN  BY DEF Request
    <2> QED BY <1>2, <2>1, <2>2 DEF Config
  <1>3. CASE q.op = "mcp_key"
    <2>1. Merged(q, c) = [c EXCEPT !.mcpKey = TRUE]  BY <1>3 DEF Merged
    <2> QED BY <1>3, <2>1 DEF Config
  <1> QED BY <1>1, <1>2, <1>3 DEF Shaped, ConfigOps

\* The record a request starts from and ends as.
LEMMA IdleFacts == Idle \in Request /\ Shaped(Idle)
  BY DEF Idle, Request, Shaped, Pcs

\* The initial states are typed.
LEMMA InitTyped == Init => TypeInv
  <1> SUFFICES ASSUME Init PROVE TypeInv  OBVIOUS
  <1>1. req \in [Slots -> Request] /\ \A s \in Slots : Shaped(req[s])
    BY IdleFacts DEF Init
  <1>2. cfg \in Config /\ snap \in Config /\ asked \in Config  BY DEF Init
  <1>3. size \in [Repos -> Sizes \union {None}] /\ unit \in [Repos -> Versions \union {None}]
    BY <1>2, SelectionFacts DEF Init
  <1>4. point \in [Repos -> Point \union {None}]
    <2>1. EmbeddingsEnabled(cfg) \in BOOLEAN
      BY DEF EmbeddingsEnabled, Config, Init
    <2>2. \A v \in Versions :
             [text |-> v, size |-> ActiveDimension(cfg),
              vector |-> EmbeddingsEnabled(cfg) /\ v \notin Blank] \in Point
      BY <1>2, <2>1, SelectionFacts DEF Point
    <2> QED BY <2>2 DEF Init
  <1> QED BY <1>1, <1>2, <1>3, <1>4 DEF TypeInv, Init, Sizes

\* The record of the next batch is a request.
LEMMA BatchListed ==
    ASSUME NEW q \in Request, NEW e \in Sizes \union {None},
           NEW text \in Versions \union {None}, NEW pc \in Pcs
    PROVE  [q EXCEPT !.embedder = e, !.text = text, !.pc = pc] \in Request
  BY DEF Request

\* So is that of a run whose rows are written.
LEMMA RowsUpserted ==
    ASSUME NEW q \in Request, NEW e \in Sizes \union {None}, NEW pc \in Pcs
    PROVE  [q EXCEPT !.embedder = e, !.pc = pc] \in Request
  BY DEF Request

\* What a request becomes when its batch is done.
LEMMA AfterBatchFacts ==
    ASSUME NEW q \in Request, Shaped(q), q.pc = "embed"
    PROVE  /\ AfterBatch(q) \in Request /\ Shaped(AfterBatch(q))
           /\ [AfterBatch(q) EXCEPT !.failed = TRUE] \in Request
           /\ Shaped([AfterBatch(q) EXCEPT !.failed = TRUE])
  <1> PICK pc \in {"next", "respond"} : pc = IF q.op = "switch" THEN "next" ELSE "respond"
    OBVIOUS
  <1>1. pc \in Pcs  BY DEF Pcs
  <1> DEFINE a == [q EXCEPT !.pc = pc, !.embedder = None, !.text = None]
  <1>2. AfterBatch(q) = a  BY DEF AfterBatch
  <1>3. a \in Request  BY <1>1 DEF Request
  <1>4. Shaped(a)  BY DEF Shaped, Request, Ops, ConfigOps
  <1> HIDE DEF a
  <1>5. PICK b \in Request : b = a  BY <1>3
  <1>6. [b EXCEPT !.failed = TRUE] \in Request  BY DEF Request
  <1>7. Shaped([b EXCEPT !.failed = TRUE])  BY <1>4, <1>5 DEF Shaped, Request
  <1> QED BY <1>2, <1>4, <1>5, <1>6, <1>7

\* A request touches repositories.
LEMMA TouchesFacts ==
    ASSUME NEW q \in Request, Shaped(q)
    PROVE  /\ Touches(q) \subseteq Repos
           /\ q.op \in {"ingest", "reembed"} => Touches(q) = {q.repo}
           /\ q.op = "switch" => Touches(q) = Repos
  BY NoneFacts DEF Touches, Shaped, Ops, ConfigOps

\* A request arrives in a free slot, as one of its kind starts.
LEMMA ArrivalFacts ==
    ASSUME TypeInv, NEW s \in Slots, Arrival(s)
    PROVE  \E q \in Request :
             /\ Arrive(s, q) /\ Shaped(q) /\ ~q.failed /\ inFlight' \subseteq Repos
             /\ \/ /\ q.op \in ConfigOps /\ q.pc = "read"
                   /\ asked' = Merged(q, asked)
                   /\ q.op = "switch" => q.row = snap
                \/ q.op = "ingest" /\ q.pc = "ensure" /\ asked' = asked
                \/ /\ q.op = "reembed" /\ q.pc = "list" /\ asked' = asked
                   /\ EmbeddingsEnabled(snap) /\ q.embedder = RuntimeEmbedder(snap)
  <1> USE DEF TypeInv
  <1>p. {"read", "ensure", "list"} \subseteq Pcs  BY DEF Pcs
  <1>1. ASSUME NEW m \in Modes, SetEmbeddingMode(s, m)
        PROVE  \E q \in Request :
                 /\ Arrive(s, q) /\ Shaped(q) /\ ~q.failed /\ inFlight' \subseteq Repos
                 /\ q.op \in ConfigOps /\ q.pc = "read"
                 /\ asked' = Merged(q, asked)
                 /\ q.op = "switch" => q.row = snap
    <2> PICK row \in Config : row = snap  OBVIOUS
    <2> DEFINE q == [Idle EXCEPT !.op = "switch", !.pc = "read", !.mode = m, !.row = row]
    <2>1. q \in Request /\ Shaped(q)
      BY <1>p DEF Idle, Request, Shaped, Ops, ConfigOps
    <2>2. Arrive(s, q)  BY <1>1 DEF SetEmbeddingMode
    <2>3. q.op = "switch" /\ q.pc = "read" /\ q.mode = m /\ q.row = row /\ ~q.failed
      BY DEF Idle
    <2>4. asked' = Merged(q, asked) /\ inFlight' = inFlight
      BY <1>1, <2>3 DEF SetEmbeddingMode, Merged
    <2> HIDE DEF q
    <2> QED BY <2>1, <2>2, <2>3, <2>4 DEF ConfigOps
  <1>2. ASSUME NEW b \in BOOLEAN, SetOpenAIKey(s, b)
        PROVE  \E q \in Request :
                 /\ Arrive(s, q) /\ Shaped(q) /\ ~q.failed /\ inFlight' \subseteq Repos
                 /\ q.op \in ConfigOps /\ q.pc = "read"
                 /\ asked' = Merged(q, asked)
                 /\ q.op = "switch" => q.row = snap
    <2> DEFINE q == [Idle EXCEPT !.op = "openai_key", !.pc = "read", !.key = b]
    <2>1. q \in Request /\ Shaped(q)
      BY <1>p DEF Idle, Request, Shaped, Ops, ConfigOps
    <2>2. Arrive(s, q)  BY <1>2 DEF SetOpenAIKey
    <2>3. q.op = "openai_key" /\ q.pc = "read" /\ q.key = b /\ ~q.failed  BY DEF Idle
    <2>4. asked' = Merged(q, asked) /\ inFlight' = inFlight
      BY <1>2, <2>3 DEF SetOpenAIKey, Merged
    <2> HIDE DEF q
    <2> QED BY <2>1, <2>2, <2>3, <2>4 DEF ConfigOps
  <1>3. ASSUME GenerateMcpKey(s)
        PROVE  \E q \in Request :
                 /\ Arrive(s, q) /\ Shaped(q) /\ ~q.failed /\ inFlight' \subseteq Repos
                 /\ q.op \in ConfigOps /\ q.pc = "read"
                 /\ asked' = Merged(q, asked)
                 /\ q.op = "switch" => q.row = snap
    <2> DEFINE q == [Idle EXCEPT !.op = "mcp_key", !.pc = "read"]
    <2>1. q \in Request /\ Shaped(q)
      BY <1>p DEF Idle, Request, Shaped, Ops, ConfigOps
    <2>2. Arrive(s, q)  BY <1>3 DEF GenerateMcpKey
    <2>3. q.op = "mcp_key" /\ q.pc = "read" /\ ~q.failed  BY DEF Idle
    <2>4. asked' = Merged(q, asked) /\ inFlight' = inFlight
      BY <1>3, <2>3 DEF GenerateMcpKey, Merged
    <2> HIDE DEF q
    <2> QED BY <2>1, <2>2, <2>3, <2>4 DEF ConfigOps
  <1>4. ASSUME NEW r \in Repos, NEW v \in Versions, Ingest(s, r, v)
        PROVE  \E q \in Request :
                 /\ Arrive(s, q) /\ Shaped(q) /\ ~q.failed /\ inFlight' \subseteq Repos
                 /\ q.op = "ingest" /\ q.pc = "ensure" /\ asked' = asked
    <2> DEFINE q == [Idle EXCEPT !.op = "ingest", !.pc = "ensure", !.repo = r, !.text = v]
    <2>1. q \in Request /\ Shaped(q)
      BY <1>p DEF Idle, Request, Shaped, Ops, ConfigOps
    <2>2. Arrive(s, q) /\ UNCHANGED <<inFlight, asked>>  BY <1>4 DEF Ingest
    <2>3. q.op = "ingest" /\ q.pc = "ensure" /\ ~q.failed  BY DEF Idle
    <2> HIDE DEF q
    <2> QED BY <2>1, <2>2, <2>3
  <1>5. ASSUME NEW r \in Repos, Reembed(s, r)
        PROVE  \E q \in Request :
                 /\ Arrive(s, q) /\ Shaped(q) /\ ~q.failed /\ inFlight' \subseteq Repos
                 /\ q.op = "reembed" /\ q.pc = "list" /\ asked' = asked
                 /\ EmbeddingsEnabled(snap) /\ q.embedder = RuntimeEmbedder(snap)
    <2> PICK e \in Sizes : e = RuntimeEmbedder(snap)
      BY <1>5, SelectionFacts DEF Reembed
    <2> DEFINE q == [Idle EXCEPT !.op = "reembed", !.pc = "list", !.repo = r, !.embedder = e]
    <2>1. q \in Request /\ Shaped(q)
      BY <1>p DEF Idle, Request, Shaped, Ops, ConfigOps
    <2>2. /\ Arrive(s, q) /\ asked' = asked /\ EmbeddingsEnabled(snap)
          /\ inFlight' \subseteq Repos
      BY <1>5 DEF Reembed
    <2>3. q.op = "reembed" /\ q.pc = "list" /\ q.embedder = e /\ ~q.failed  BY DEF Idle
    <2> HIDE DEF q
    <2> QED BY <2>1, <2>2, <2>3
  <1> QED BY <1>1, <1>2, <1>3, <1>4, <1>5 DEF Arrival

\* A request that has taken a step is a request with its shape; what the step
\* writes is typed, so the state still is.
LEMMA TypeStep ==
    ASSUME TypeInv, Next PROVE TypeInv'
  <1> USE DEF TypeInv, Still, stores, At, Go, Return
  <1>p. {"read", "write", "reload", "swap", "repos", "next", "recreate", "create", "list",
         "ensure", "rows", "placeholder", "batch", "embed", "respond"} \subseteq Pcs
    BY DEF Pcs
  <1>1. ASSUME NEW s \in Slots, NEW q \in Request, Shaped(q), req' = [req EXCEPT ![s] = q]
        PROVE  req' \in [Slots -> Request] /\ \A t \in Slots : Shaped(req'[t])
    BY <1>1
  <1>t. \A t \in Slots : Touches(req[t]) \subseteq Repos
    <2> TAKE t \in Slots
    <2> PICK q \in Request : q = req[t]  OBVIOUS
    <2> QED BY TouchesFacts
  <1>2. ASSUME NEW s \in Slots, ReadRow(s) PROVE TypeInv'
    <2> PICK old \in Request : old = req[s]  OBVIOUS
    <2>1. old.pc = "read" /\ Shaped(old)  BY <1>2 DEF ReadRow
    <2> PICK row \in Config : row = Merged(old, cfg)  BY <2>1, MergedFacts
    <2> PICK key \in BOOLEAN : key = (old.row # None /\ old.row.mode # old.mode)  OBVIOUS
    <2> DEFINE q == [old EXCEPT !.pc = "write", !.row = row, !.key = key]
    <2>2. req' = [req EXCEPT ![s] = q]  BY <1>2 DEF ReadRow
    <2>3. q \in Request  BY <1>p DEF Request
    <2>4. Shaped(q)  BY <2>1 DEF Shaped, Request, ConfigOps
    <2> HIDE DEF q
    <2> QED BY <1>2, <1>1, <2>2, <2>3, <2>4 DEF ReadRow
  <1>3. ASSUME NEW s \in Slots, WriteRow(s) PROVE TypeInv'
    <2> PICK old \in Request : old = req[s]  OBVIOUS
    <2>1. old.pc = "write" /\ Shaped(old)  BY <1>3 DEF WriteRow
    <2> DEFINE q == [old EXCEPT !.pc = "reload"]
    <2>2. req' = [req EXCEPT ![s] = q]  BY <1>3 DEF WriteRow
    <2>3. q \in Request  BY <1>p DEF Request
    <2>4. Shaped(q)  BY <2>1 DEF Shaped, Request
    <2>5. old.row \in Config  BY <2>1 DEF Shaped
    <2> HIDE DEF q
    <2> QED BY <1>3, <1>1, <2>2, <2>3, <2>4, <2>5 DEF WriteRow
  <1>4. ASSUME NEW s \in Slots, Reload(s) PROVE TypeInv'
    <2> PICK old \in Request : old = req[s]  OBVIOUS
    <2>1. old.pc = "reload" /\ Shaped(old)  BY <1>4 DEF Reload
    <2> DEFINE q == [old EXCEPT !.pc = "swap", !.row = cfg]
    <2>2. req' = [req EXCEPT ![s] = q]  BY <1>4 DEF Reload
    <2>3. q \in Request  BY <1>p DEF Request
    <2>4. Shaped(q)  BY <2>1 DEF Shaped, Request
    <2> HIDE DEF q
    <2> QED BY <1>4, <1>1, <2>2, <2>3, <2>4 DEF Reload
  <1>5. ASSUME NEW s \in Slots, SwapSnapshot(s) PROVE TypeInv'
    <2> PICK old \in Request : old = req[s]  OBVIOUS
    <2>1. old.pc = "swap" /\ Shaped(old)  BY <1>5 DEF SwapSnapshot
    <2> PICK pc \in {"repos", "respond"} :
               pc = IF old.op = "switch" /\ old.key THEN "repos" ELSE "respond"
      OBVIOUS
    <2> DEFINE q == [old EXCEPT !.row = None, !.pc = pc]
    <2>2. req' = [req EXCEPT ![s] = q]  BY <1>5 DEF SwapSnapshot
    <2>3. q \in Request  BY <1>p DEF Request
    <2>4. Shaped(q)  BY <2>1 DEF Shaped, Request
    <2>5. old.row \in Config  BY <2>1 DEF Shaped
    <2> HIDE DEF q
    <2> QED BY <1>5, <1>1, <2>2, <2>3, <2>4, <2>5 DEF SwapSnapshot
  <1>6. ASSUME NEW s \in Slots, ListRepos(s) PROVE TypeInv'
    <2> PICK old \in Request : old = req[s]  OBVIOUS
    <2>1. old.pc = "repos" /\ Shaped(old)  BY <1>6 DEF ListRepos
    <2> PICK left \in SUBSET Repos : left = {r \in Repos : unit[r] # None}  OBVIOUS
    <2> DEFINE q == [old EXCEPT !.pc = "next", !.left = left]
    <2>2. req' = [req EXCEPT ![s] = q]  BY <1>6 DEF ListRepos
    <2>3. q \in Request  BY <1>p DEF Request
    <2>4. Shaped(q)  BY <2>1 DEF Shaped, Request
    <2> HIDE DEF q
    <2> QED BY <1>6, <1>1, <2>2, <2>3, <2>4 DEF ListRepos
  <1>7. ASSUME NEW s \in Slots, NextRepo(s) PROVE TypeInv'
    <2> PICK old \in Request : old = req[s]  OBVIOUS
    <2>1. old.pc = "next" /\ Shaped(old)  BY <1>7 DEF NextRepo
    <2>2. \E q \in Request : Shaped(q) /\ req' = [req EXCEPT ![s] = q]
      <3>1. CASE old.left = {}
        <4> DEFINE q == [old EXCEPT !.pc = "respond"]
        <4>1. q \in Request  BY <1>p DEF Request
        <4>2. Shaped(q)  BY <2>1 DEF Shaped, Request
        <4> QED BY <1>7, <3>1, <4>1, <4>2 DEF NextRepo
      <3>2. CASE old.left # {}
        <4> PICK r \in old.left : req' = [req EXCEPT ![s].pc = "recreate", ![s].repo = r,
                                                     ![s].left = @ \ {r}]
          BY <1>7, <3>2 DEF NextRepo
        <4>0. r \in Repos  BY DEF Request
        <4> PICK left \in SUBSET Repos : left = old.left \ {r}  BY DEF Request
        <4> DEFINE q == [old EXCEPT !.pc = "recreate", !.repo = r, !.left = left]
        <4>1. q \in Request  BY <1>p, <4>0 DEF Request
        <4>2. Shaped(q)  BY <2>1, <4>0 DEF Shaped, Request
        <4> QED BY <4>1, <4>2
      <3> QED BY <3>1, <3>2
    <2> QED BY <1>7, <1>1, <2>2 DEF NextRepo
  <1>8. ASSUME NEW s \in Slots, Recreate(s) PROVE TypeInv'
    <2> PICK old \in Request : old = req[s]  OBVIOUS
    <2>1. old.pc = "recreate" /\ Shaped(old)  BY <1>8 DEF Recreate
    <2> PICK r \in Repos : r = old.repo  BY <2>1 DEF Shaped
    <2> PICK n \in Sizes : n = ActiveDimension(snap)  BY SelectionFacts
    <2>2. \E q \in Request : Shaped(q) /\ req' = [req EXCEPT ![s] = q]
      <3>1. CASE tier = "lite"
        <4> DEFINE q == [old EXCEPT !.pc = "list"]
        <4>1. q \in Request  BY <1>p DEF Request
        <4>2. Shaped(q)  BY <2>1 DEF Shaped, Request
        <4> QED BY <1>8, <3>1, <4>1, <4>2 DEF Recreate
      <3>2. CASE tier = "server"
        <4> DEFINE q == [old EXCEPT !.pc = "create", !.embedder = n]
        <4>1. q \in Request  BY <1>p DEF Request
        <4>2. Shaped(q)  BY <2>1 DEF Shaped, Request
        <4> QED BY <1>8, <3>2, <4>1, <4>2 DEF Recreate
      <3> QED BY <3>1, <3>2
    <2>3. /\ size' \in [Repos -> Sizes \union {None}]
          /\ sizeCache' \in [Repos -> Sizes \union {None}]
          /\ point' \in [Repos -> Point \union {None}]
      BY <1>8 DEF Recreate, DropAndCreate, DeleteCollection
    <2> QED BY <1>8, <1>1, <2>2, <2>3 DEF Recreate
  <1>9. ASSUME NEW s \in Slots, Create(s) PROVE TypeInv'
    <2> PICK old \in Request : old = req[s]  OBVIOUS
    <2>1. old.pc = "create" /\ Shaped(old)  BY <1>9 DEF Create
    <2> PICK r \in Repos : r = old.repo  BY <2>1 DEF Shaped
    <2> PICK n \in Sizes : n = old.embedder  BY <2>1 DEF Shaped
    <2>2. \E q \in Request : Shaped(q) /\ req' = [req EXCEPT ![s] = q]
      <3>1. CASE size[r] = None
        <4> DEFINE q == [old EXCEPT !.pc = "list"]
        <4>1. q \in Request  BY <1>p DEF Request
        <4>2. Shaped(q)  BY <2>1 DEF Shaped, Request
        <4> QED BY <1>9, <3>1, <4>1, <4>2 DEF Create
      <3>2. CASE size[r] # None
        BY <1>9, <3>2, IdleFacts DEF Create
      <3> QED BY <3>1, <3>2
    <2>3. /\ size' \in [Repos -> Sizes \union {None}]
          /\ sizeCache' \in [Repos -> Sizes \union {None}]
      BY <1>9 DEF Create, EnsureCollection
    <2>4. spoiled' \subseteq Repos /\ lone' \subseteq Slots
      BY <1>9 DEF Create
    <2> QED BY <1>9, <1>1, <2>2, <2>3, <2>4 DEF Create
  <1>10. ASSUME NEW s \in Slots, ListUnits(s) PROVE TypeInv'
    <2> PICK old \in Request : old = req[s]  OBVIOUS
    <2>1. old.pc = "list" /\ Shaped(old)  BY <1>10 DEF ListUnits
    <2>2. old.repo \in Repos /\ old.op \in {"switch", "reembed"}  BY <2>1 DEF Shaped
    <2> PICK e \in Sizes \union {None} :
               e = IF old.op = "switch" THEN RuntimeEmbedder(snap) ELSE old.embedder
      BY SelectionFacts DEF Request
    <2> PICK text \in Versions \union {None} : text = unit[old.repo]  BY <2>2
    <2> PICK pc \in {"batch", "next", "respond"} :
               pc = IF e # None /\ text # None THEN "batch"
                    ELSE IF old.op = "switch" THEN "next" ELSE "respond"
      OBVIOUS
    <2> DEFINE q == [old EXCEPT !.embedder = e, !.text = text, !.pc = pc]
    <2>3. req' = [req EXCEPT ![s] = q]  BY <1>10 DEF ListUnits
    <2>4. q \in Request  BY <1>p, BatchListed
    <2>5. Shaped(q)  BY <2>1, <2>2 DEF Shaped, Request, Ops, ConfigOps
    <2>6. UNCHANGED <<tier, cfg, snap, stores, inFlight, asked, crossed, spoiled, lone>>
      BY <1>10 DEF ListUnits
    <2> HIDE DEF q
    <2> QED BY <1>1, <2>3, <2>4, <2>5, <2>6
  <1>11. ASSUME NEW s \in Slots, EnsureSized(s) PROVE TypeInv'
    <2> PICK old \in Request : old = req[s]  OBVIOUS
    <2>1. old.pc = "ensure" /\ Shaped(old)  BY <1>11 DEF EnsureSized
    <2> PICK n \in Sizes : n = ActiveDimension(snap)  BY SelectionFacts
    <2> DEFINE q == [old EXCEPT !.pc = "rows"]
    <2>2. req' = [req EXCEPT ![s] = q]  BY <1>11 DEF EnsureSized
    <2>3. q \in Request  BY <1>p DEF Request
    <2>4. Shaped(q)  BY <2>1 DEF Shaped, Request
    <2>5. /\ size' \in [Repos -> Sizes \union {None}]
          /\ sizeCache' \in [Repos -> Sizes \union {None}]
      BY <1>11 DEF EnsureSized, EnsureCollection
    <2> HIDE DEF q
    <2> QED BY <1>11, <1>1, <2>2, <2>3, <2>4, <2>5 DEF EnsureSized
  <1>12. ASSUME NEW s \in Slots, UpsertRows(s) PROVE TypeInv'
    <2> PICK old \in Request : old = req[s]  OBVIOUS
    <2>1. old.pc = "rows" /\ Shaped(old)  BY <1>12 DEF UpsertRows
    <2> PICK e \in Sizes \union {None} : e = RuntimeEmbedder(snap)  BY SelectionFacts
    <2> PICK pc \in {"respond", "placeholder"} :
               pc = IF e # None /\ unit[old.repo] = old.text THEN "respond" ELSE "placeholder"
      OBVIOUS
    <2> DEFINE q == [old EXCEPT !.embedder = e, !.pc = pc]
    <2>2. req' = [req EXCEPT ![s] = q]  BY <1>12 DEF UpsertRows
    <2>3. q \in Request  BY <1>p, RowsUpserted
    <2>4. Shaped(q)  BY <2>1 DEF Shaped, Request
    <2>5. old.text \in Versions  BY <2>1 DEF Shaped
    <2>6. unit' \in [Repos -> Versions \union {None}]  BY <1>12, <2>5 DEF UpsertRows
    <2> HIDE DEF q
    <2> QED BY <1>12, <1>1, <2>2, <2>3, <2>4, <2>6 DEF UpsertRows
  <1>13. ASSUME NEW s \in Slots, UpsertPlaceholder(s) PROVE TypeInv'
    <2> PICK old \in Request : old = req[s]  OBVIOUS
    <2>1. old.pc = "placeholder" /\ Shaped(old)  BY <1>13 DEF UpsertPlaceholder
    <2>2. old.text \in Versions /\ old.repo \in Repos /\ old.op = "ingest"
      BY <2>1 DEF Shaped
    <2>3. PlaceholderSize(old.repo) \in Sizes \union {None}
      BY <2>2 DEF PlaceholderSize
    <2>4. \E q \in Request : Shaped(q) /\ req' = [req EXCEPT ![s] = q]
      <3>1. PICK pc \in {"respond", "batch"} :
                  /\ pc = "batch" => old.embedder # None
                  /\ req' = [req EXCEPT ![s].pc = pc]
        BY <1>13 DEF UpsertPlaceholder
      <3>2. old.embedder \in Sizes \union {None}  BY DEF Request
      <3> DEFINE q == [old EXCEPT !.pc = pc]
      <3>3. q \in Request  BY <1>p DEF Request
      <3>4. Shaped(q)  BY <2>1, <2>2, <3>1, <3>2 DEF Shaped, Request, Ops, ConfigOps
      <3> QED BY <3>1, <3>3, <3>4
    <2>5. point' \in [Repos -> Point \union {None}]
      <3>1. [text |-> old.text, size |-> PlaceholderSize(old.repo), vector |-> FALSE] \in Point
        BY <2>2, <2>3 DEF Point
      <3> QED BY <1>13, <3>1 DEF UpsertPlaceholder, Upsert
    <2>6. spoiled' \subseteq Repos /\ lone' \subseteq Slots
      BY <1>13, <2>2 DEF UpsertPlaceholder, Spoil
    <2> QED BY <1>13, <1>1, <2>4, <2>5, <2>6 DEF UpsertPlaceholder
  <1>14. ASSUME NEW s \in Slots, EnsureForBatch(s) PROVE TypeInv'
    <2> PICK old \in Request : old = req[s]  OBVIOUS
    <2>1. old.pc = "batch" /\ Shaped(old)  BY <1>14 DEF EnsureForBatch
    <2> PICK n \in Sizes : n = old.embedder  BY <2>1 DEF Shaped
    <2> DEFINE q == [old EXCEPT !.pc = "embed"]
    <2>2. req' = [req EXCEPT ![s] = q]  BY <1>14 DEF EnsureForBatch
    <2>3. q \in Request  BY <1>p DEF Request
    <2>4. Shaped(q)  BY <2>1 DEF Shaped, Request
    <2>5. /\ size' \in [Repos -> Sizes \union {None}]
          /\ sizeCache' \in [Repos -> Sizes \union {None}]
      BY <1>14 DEF EnsureForBatch, EnsureCollection
    <2> HIDE DEF q
    <2> QED BY <1>14, <1>1, <2>2, <2>3, <2>4, <2>5 DEF EnsureForBatch
  <1>15. ASSUME NEW s \in Slots, WriteBatch(s) PROVE TypeInv'
    <2> PICK old \in Request : old = req[s]  OBVIOUS
    <2>1. old.pc = "embed" /\ Shaped(old)  BY <1>15 DEF WriteBatch
    <2> PICK q \in Request : q = AfterBatch(old) /\ Shaped(q)  BY <2>1, AfterBatchFacts
    <2>2. req' = [req EXCEPT ![s] = q]  BY <1>15 DEF WriteBatch
    <2>3. old.text \in Versions /\ old.embedder \in Sizes  BY <2>1 DEF Shaped
    <2>4. point' \in [Repos -> Point \union {None}]
      <3>1. old.repo \in Repos  BY <2>1 DEF Shaped
      <3>2. BatchSize(old) \in Sizes \union {None}
        BY <2>3, <3>1 DEF BatchSize, PlaceholderSize
      <3>3. [text |-> old.text, size |-> BatchSize(old), vector |-> old.text \notin Blank] \in Point
        BY <2>3, <3>2 DEF Point
      <3> QED BY <1>15, <3>3 DEF WriteBatch, UpsertBatch, Upsert
    <2> QED BY <1>15, <1>1, <2>2, <2>4 DEF WriteBatch
  <1>16. ASSUME NEW s \in Slots, BatchFails(s) PROVE TypeInv'
    <2> PICK old \in Request : old = req[s]  OBVIOUS
    <2>1. old.pc = "embed" /\ Shaped(old)  BY <1>16 DEF BatchFails
    <2> PICK q \in Request : q = [AfterBatch(old) EXCEPT !.failed = TRUE] /\ Shaped(q)
      BY <2>1, AfterBatchFacts
    <2>2. req' = [req EXCEPT ![s] = q]  BY <1>16 DEF BatchFails
    <2>3. spoiled' \subseteq Repos /\ lone' \subseteq Slots
      <3>1. old.repo \in Repos  BY <2>1 DEF Shaped
      <3> QED BY <1>16, <3>1 DEF BatchFails, Spoil
    <2> QED BY <1>16, <1>1, <2>2, <2>3 DEF BatchFails
  <1>17. ASSUME NEW s \in Slots, Respond(s) PROVE TypeInv'
    BY <1>17, IdleFacts DEF Respond
  <1>18. ASSUME NEW s \in Slots, NEW q \in Request, Shaped(q), Arrive(s, q)
         PROVE  /\ req' \in [Slots -> Request] /\ \A t \in Slots : Shaped(req'[t])
                /\ crossed' \in BOOLEAN /\ spoiled' \subseteq Repos /\ lone' \subseteq Slots
                /\ UNCHANGED <<tier, cfg, snap, stores>>
    <2>1. spoiled' \subseteq Repos
      BY <1>18, <1>t DEF Arrive
    <2> QED BY <1>18, <1>1, <2>1 DEF Arrive
  <1>19. ASSUME NEW s \in Slots, Arrival(s) PROVE TypeInv'
    <2>1. PICK q \in Request :
             /\ Arrive(s, q) /\ Shaped(q) /\ ~q.failed /\ inFlight' \subseteq Repos
             /\ \/ /\ q.op \in ConfigOps /\ q.pc = "read"
                   /\ asked' = Merged(q, asked)
                   /\ q.op = "switch" => q.row = snap
                \/ q.op = "ingest" /\ q.pc = "ensure" /\ asked' = asked
                \/ /\ q.op = "reembed" /\ q.pc = "list" /\ asked' = asked
                   /\ EmbeddingsEnabled(snap) /\ q.embedder = RuntimeEmbedder(snap)
      BY <1>19, ArrivalFacts
    <2>2. asked' \in Config  BY <2>1, MergedFacts
    <2> QED BY <1>18, <2>1, <2>2
  <1>20. ASSUME NEW s \in Slots, Fail(s) PROVE TypeInv'
    BY <1>20, <1>t, IdleFacts DEF Fail
  <1>21. CASE Restart
    BY <1>21, <1>t, IdleFacts DEF Restart
  <1> QED BY <1>2, <1>3, <1>4, <1>5, <1>6, <1>7, <1>8, <1>9, <1>10, <1>11, <1>12, <1>13,
            <1>14, <1>15, <1>16, <1>17, <1>19, <1>20, <1>21
          DEF Next, Arrival, Call

(* What a step leaves alone.                                               *)

LostPcs == {"read", "write", "reload", "swap"}

\* The steps of a request after its configuration write.
Later(s) ==
    \/ ListRepos(s) \/ NextRepo(s) \/ Recreate(s) \/ Create(s) \/ ListUnits(s)
    \/ EnsureSized(s) \/ UpsertRows(s) \/ UpsertPlaceholder(s)
    \/ EnsureForBatch(s) \/ WriteBatch(s) \/ BatchFails(s) \/ Respond(s)

\* A step of a request changes no other request, keeps its kind and
\* repository, and ends a request nothing overlapped only by forgetting it.
LEMMA CallFacts ==
    ASSUME TypeInv, NEW s \in Slots, Call(s)
    PROVE  /\ \A t \in Slots \ {s} : req'[t] = req[t]
           /\ Busy(s)
           /\ req'[s].pc # "idle" => /\ req'[s].op = req[s].op
                                     /\ req[s].op # "switch" => req'[s].repo = req[s].repo
           /\ lone' \subseteq lone
           /\ s \in lone' => req'[s].pc # "idle"
           /\ UNCHANGED <<tier, asked, crossed>>
           /\ spoiled \subseteq spoiled' \/ (Respond(s) /\ s \in lone /\ req'[s].pc = "idle")
  <1> USE DEF TypeInv, Still, stores, At, Go, Return, Busy
  <1> PICK old \in Request : old = req[s]  OBVIOUS
  <1>1. CASE ReadRow(s)  BY <1>1 DEF ReadRow, Request
  <1>2. CASE WriteRow(s)  BY <1>2 DEF WriteRow, Request
  <1>3. CASE Reload(s)  BY <1>3 DEF Reload, Request
  <1>4. CASE SwapSnapshot(s)  BY <1>4 DEF SwapSnapshot, Request
  <1>5. CASE ListRepos(s)  BY <1>5 DEF ListRepos, Request
  <1>6. CASE NextRepo(s)
    <2>1. old.pc = "next" /\ old.op = "switch"  BY <1>6 DEF NextRepo, Shaped
    <2>2. CASE old.left = {}
      <3>1. req' = [req EXCEPT ![s].pc = "respond"]  BY <1>6, <2>2 DEF NextRepo
      <3> QED BY <1>6, <2>1, <3>1 DEF NextRepo, Request
    <2>3. CASE old.left # {}
      <3>1. PICK r \in old.left : req' = [req EXCEPT ![s].pc = "recreate", ![s].repo = r,
                                                     ![s].left = @ \ {r}]
        BY <1>6, <2>3 DEF NextRepo
      <3> QED BY <1>6, <2>1, <3>1 DEF NextRepo, Request
    <2> QED BY <2>2, <2>3
  <1>7. CASE Recreate(s)  BY <1>7 DEF Recreate, Request, Shaped
  <1>8. CASE Create(s)  BY <1>8 DEF Create, Request, Shaped, Idle
  <1>9. CASE ListUnits(s)  BY <1>9 DEF ListUnits, Request
  <1>10. CASE EnsureSized(s)  BY <1>10 DEF EnsureSized, Request
  <1>11. CASE UpsertRows(s)  BY <1>11 DEF UpsertRows, Request
  <1>12. CASE UpsertPlaceholder(s)
    <2>1. PICK pc \in {"respond", "batch"} : req' = [req EXCEPT ![s].pc = pc]
      BY <1>12 DEF UpsertPlaceholder
    <2>2. spoiled \subseteq spoiled' /\ lone' \subseteq lone
      BY <1>12 DEF UpsertPlaceholder, Spoil
    <2> QED BY <1>12, <2>1, <2>2 DEF UpsertPlaceholder, Request
  <1>13. CASE EnsureForBatch(s)  BY <1>13 DEF EnsureForBatch, Request
  <1>14. CASE WriteBatch(s)  BY <1>14 DEF WriteBatch, AfterBatch, Request
  <1>15. CASE BatchFails(s)  BY <1>15 DEF BatchFails, AfterBatch, Spoil, Request
  <1>16. CASE Respond(s)  BY <1>16 DEF Respond, Idle
  <1> QED BY <1>1, <1>2, <1>3, <1>4, <1>5, <1>6, <1>7, <1>8, <1>9, <1>10, <1>11, <1>12,
            <1>13, <1>14, <1>15, <1>16 DEF Call

\* After its configuration write a request changes nothing ConfigInv speaks of.
LEMMA LaterFacts ==
    ASSUME TypeInv, NEW s \in Slots, Later(s)
    PROVE  /\ Call(s) /\ UNCHANGED <<cfg, snap>>
           /\ req[s].pc \notin LostPcs /\ req'[s].pc \notin LostPcs
  <1> USE DEF TypeInv, Still, stores, At, Go, Return, LostPcs
  <1>0. Call(s)  BY DEF Later, Call
  <1> PICK old \in Request : old = req[s]  OBVIOUS
  <1>1. CASE ListRepos(s)  BY <1>0, <1>1 DEF ListRepos, Request
  <1>2. CASE NextRepo(s)
    <2>1. PICK pc \in {"respond", "recreate"} : req'[s].pc = pc
      <3>1. CASE old.left = {}
        BY <1>2, <3>1 DEF NextRepo, Request
      <3>2. CASE old.left # {}
        <4>1. PICK r \in old.left : req' = [req EXCEPT ![s].pc = "recreate", ![s].repo = r,
                                                       ![s].left = @ \ {r}]
          BY <1>2, <3>2 DEF NextRepo
        <4> QED BY <4>1 DEF Request
      <3> QED BY <3>1, <3>2
    <2> QED BY <1>0, <1>2, <2>1 DEF NextRepo
  <1>3. CASE Recreate(s)  BY <1>0, <1>3 DEF Recreate, Request
  <1>4. CASE Create(s)  BY <1>0, <1>4 DEF Create, Request, Idle
  <1>5. CASE ListUnits(s)  BY <1>0, <1>5 DEF ListUnits, Request
  <1>6. CASE EnsureSized(s)  BY <1>0, <1>6 DEF EnsureSized, Request
  <1>7. CASE UpsertRows(s)  BY <1>0, <1>7 DEF UpsertRows, Request
  <1>8. CASE UpsertPlaceholder(s)
    <2>1. PICK pc \in {"respond", "batch"} : req' = [req EXCEPT ![s].pc = pc]
      BY <1>8 DEF UpsertPlaceholder
    <2> QED BY <1>0, <1>8, <2>1 DEF UpsertPlaceholder, Request
  <1>9. CASE EnsureForBatch(s)  BY <1>0, <1>9 DEF EnsureForBatch, Request
  <1>10. CASE WriteBatch(s)  BY <1>0, <1>10 DEF WriteBatch, AfterBatch, Request
  <1>11. CASE BatchFails(s)  BY <1>0, <1>11 DEF BatchFails, AfterBatch, Request
  <1>12. CASE Respond(s)  BY <1>0, <1>12 DEF Respond, Idle
  <1> QED BY <1>1, <1>2, <1>3, <1>4, <1>5, <1>6, <1>7, <1>8, <1>9, <1>10, <1>11, <1>12
          DEF Later

---------------------------------------------------------------------------
(* Requests apart.                                                         *)

\* A request nothing overlapped stays the only one until one arrives.
LEMMA LoneStep == TypeInv /\ LoneInv /\ Next => LoneInv'
  <1> SUFFICES ASSUME TypeInv, LoneInv, Next PROVE LoneInv'  OBVIOUS
  <1> USE DEF LoneInv, Busy, TypeInv
  <1>1. ASSUME NEW s \in Slots, NEW q \in Request, q.pc # "idle", Arrive(s, q) PROVE LoneInv'
    BY <1>1 DEF Arrive
  <1>2. ASSUME NEW s \in Slots, Arrival(s) PROVE LoneInv'
    BY <1>1, <1>2, ArrivalFacts
  <1>3. ASSUME NEW s \in Slots, Call(s) PROVE LoneInv'
    BY <1>3, CallFacts
  <1>4. ASSUME NEW s \in Slots, Fail(s) PROVE LoneInv'
    BY <1>4 DEF Fail, Return, Idle
  <1>5. CASE Restart  BY <1>5 DEF Restart
  <1> QED BY <1>2, <1>3, <1>4, <1>5 DEF Next

\* At most one request touches a repository that is not spoiled.
LEMMA ApartStep == TypeInv /\ LoneInv /\ ApartInv /\ Next => ApartInv'
  <1> SUFFICES ASSUME TypeInv, LoneInv, ApartInv, Next,
                      NEW r \in Repos, r \notin spoiled',
                      NEW s \in Slots, NEW t \in Slots, s # t,
                      Busy(s)', Busy(t)', r \in Touches(req[s])', r \in Touches(req[t])'
               PROVE  FALSE
    BY DEF ApartInv
  <1> USE DEF Busy, TypeInv
  <1>1. ASSUME NEW u \in Slots, Arrival(u) PROVE FALSE
    <2>1. PICK q \in Request : q.pc # "idle" /\ Arrive(u, q)  BY <1>1, ArrivalFacts
    <2>2. req'[u] = q /\ \A v \in Slots \ {u} : req'[v] = req[v]  BY <2>1 DEF Arrive
    <2>3. r \notin spoiled /\ \A v \in Slots \ {u} :
             Busy(v) => r \notin Touches(q) \intersect Touches(req[v])
      BY <2>1 DEF Arrive
    <2> QED BY <2>2, <2>3 DEF ApartInv
  <1>2. ASSUME NEW u \in Slots, Call(u) PROVE FALSE
    <2>1. \A v \in Slots : Busy(v)' => Busy(v) /\ Touches(req[v])' = Touches(req[v])
      <3> SUFFICES ASSUME NEW v \in Slots, Busy(v)'
                   PROVE  Busy(v) /\ Touches(req[v])' = Touches(req[v])
        OBVIOUS
      <3>1. CASE v = u
        <4>1. Busy(u) /\ req'[u].op = req[u].op
              /\ (req[u].op # "switch" => req'[u].repo = req[u].repo)
          BY <1>2, <3>1, CallFacts
        <4> QED BY <3>1, <4>1 DEF Touches
      <3>2. CASE v # u  BY <1>2, <3>2, CallFacts
      <3> QED BY <3>1, <3>2
    <2>2. CASE r \notin spoiled  BY <2>1, <2>2 DEF ApartInv
    <2>3. CASE r \in spoiled
      <3>1. u \in lone /\ req'[u].pc = "idle"  BY <1>2, <2>3, CallFacts
      <3> QED BY <1>2, <2>1, <3>1 DEF LoneInv
    <2> QED BY <2>2, <2>3
  <1>3. ASSUME NEW u \in Slots, Fail(u) PROVE FALSE
    BY <1>3 DEF Fail, Return, Idle, ApartInv
  <1>4. CASE Restart  BY <1>4 DEF Restart, Idle
  <1> QED BY <1>1, <1>2, <1>3, <1>4 DEF Next

---------------------------------------------------------------------------
(* Configuration writes.                                                   *)

\* While no write overlapped another, the one in progress is where its step
\* says, and between writes row, snapshot and what was asked for agree.
LEMMA ConfigStep == TypeInv /\ ConfigInv /\ Next => ConfigInv'
  <1> SUFFICES ASSUME TypeInv, ConfigInv, Next, ~crossed' PROVE ConfigInv'
    BY DEF ConfigInv
  <1> USE DEF TypeInv, Busy, At
  <1>1. ASSUME NEW s \in Slots, Arrival(s) PROVE ConfigInv'
    <2>1. PICK q \in Request :
             /\ Arrive(s, q) /\ Shaped(q) /\ ~q.failed /\ inFlight' \subseteq Repos
             /\ \/ /\ q.op \in ConfigOps /\ q.pc = "read"
                   /\ asked' = Merged(q, asked)
                   /\ q.op = "switch" => q.row = snap
                \/ q.op = "ingest" /\ q.pc = "ensure" /\ asked' = asked
                \/ /\ q.op = "reembed" /\ q.pc = "list" /\ asked' = asked
                   /\ EmbeddingsEnabled(snap) /\ q.embedder = RuntimeEmbedder(snap)
      BY <1>1, ArrivalFacts
    <2>2. /\ req'[s] = q /\ ~Busy(s)
          /\ \A t \in Slots \ {s} : req'[t] = req[t]
          /\ ~crossed /\ (q.op \in ConfigOps => Writers = {})
          /\ UNCHANGED <<cfg, snap>>
      BY <2>1 DEF Arrive
    <2>3. CASE q.op \in ConfigOps
      <3>1. q.pc = "read" /\ asked' = Merged(q, asked) /\ (q.op = "switch" => q.row = snap)
        BY <2>1, <2>3 DEF ConfigOps
      <3>2. \A t \in Slots : ~Lost(req[t])  BY <2>2, <2>3 DEF Writers, Lost
      <3>3. cfg = asked /\ snap = cfg  BY <2>2, <3>2 DEF ConfigInv
      <3>4. \A t \in Slots \ {s} : req'[t].pc \notin LostPcs
        BY <2>2, <3>2 DEF Lost, LostPcs, Shaped
      <3>5. Lost(req[s])'  BY <2>2, <2>3, <3>1 DEF Lost
      <3>6. WriteProgress(s)'
        BY <2>2, <3>1, <3>3 DEF WriteProgress
      <3>7. \A t \in Slots : WriteProgress(t)'
        BY <2>2, <3>4, <3>6 DEF WriteProgress, LostPcs
      <3>8. \A t, u \in Writers' : t = u  BY <2>2, <2>3 DEF Writers
      <3> QED BY <3>5, <3>7, <3>8 DEF ConfigInv
    <2>4. CASE q.op \notin ConfigOps
      <3>1. asked' = asked /\ q.pc \notin LostPcs  BY <2>1, <2>4 DEF LostPcs
      <3>2. WriteProgress(s)'  BY <2>2, <3>1 DEF WriteProgress, LostPcs
      <3>3. \A t \in Slots \ {s} : WriteProgress(t)'
        BY <2>2, <3>1 DEF WriteProgress, ConfigInv
      <3>4. Writers' = Writers  BY <2>2, <2>4 DEF Writers
      <3>5. \A t \in Slots : Lost(req[t])' = Lost(req[t])
        BY <2>2, <2>4, <3>1 DEF Lost, LostPcs
      <3> QED BY <2>2, <3>1, <3>2, <3>3, <3>4, <3>5 DEF ConfigInv
    <2> QED BY <2>3, <2>4
  <1>2. ASSUME NEW s \in Slots, Later(s) PROVE ConfigInv'
    <2>1. /\ UNCHANGED <<cfg, snap, asked, crossed>>
          /\ req[s].pc \notin LostPcs /\ req'[s].pc \notin LostPcs
          /\ \A t \in Slots \ {s} : req'[t] = req[t]
          /\ Busy(s) /\ (req'[s].pc # "idle" => req'[s].op = req[s].op)
      BY <1>2, LaterFacts, CallFacts
    <2>2. WriteProgress(s)'  BY <2>1 DEF WriteProgress, LostPcs
    <2>3. \A t \in Slots \ {s} : WriteProgress(t)'
      BY <2>1 DEF WriteProgress, ConfigInv
    <2>4. Writers' \subseteq Writers  BY <2>1 DEF Writers
    <2>5. \A t \in Slots : Lost(req[t])' = Lost(req[t])  BY <2>1 DEF Lost, LostPcs
    <2> QED BY <2>1, <2>2, <2>3, <2>4, <2>5 DEF ConfigInv
  <1>3. ASSUME NEW s \in Slots, req[s].pc \in LostPcs, Call(s),
               \A t, u \in Writers : t = u
        PROVE  \A t \in Slots \ {s} : req'[t] = req[t] /\ req[t].pc \notin LostPcs
    BY <1>3, CallFacts DEF Writers, LostPcs, Shaped
  <1>4. ASSUME NEW s \in Slots, req[s].pc \in LostPcs, Call(s), Lost(req[s])', WriteProgress(s)'
        PROVE  ConfigInv'
    <2>1. ~crossed  BY <1>4, CallFacts
    <2>2. \A t \in Slots \ {s} : req'[t] = req[t] /\ req[t].pc \notin LostPcs
      BY <1>3, <1>4, <2>1 DEF ConfigInv
    <2>3. \A t \in Slots \ {s} : WriteProgress(t)'  BY <2>2 DEF WriteProgress, LostPcs
    <2>4. Writers' \subseteq Writers
      BY <1>4, <2>2, CallFacts DEF Writers
    <2> QED BY <1>4, <2>1, <2>3, <2>4 DEF ConfigInv
  <1>5. ASSUME NEW s \in Slots, ReadRow(s) PROVE ConfigInv'
    <2> PICK old \in Request : old = req[s]  OBVIOUS
    <2>1. Call(s) /\ old.pc = "read" /\ Shaped(old)  BY <1>5 DEF Call, ReadRow
    <2>2. ~crossed  BY <2>1, CallFacts
    <2>3. /\ snap = cfg /\ Merged(old, cfg) = asked
          /\ old.op = "switch" => old.row = snap
      BY <2>1, <2>2 DEF ConfigInv, WriteProgress
    <2>4. /\ req'[s].pc = "write" /\ req'[s].row = asked /\ req'[s].op = old.op
          /\ req'[s].mode = old.mode
          /\ req'[s].key = (old.row # None /\ old.row.mode # old.mode)
      BY <1>5, <2>3 DEF ReadRow, Request
    <2>5. (old.op = "switch" /\ req'[s].key) \/ snap.mode = asked.mode
      <3>1. CASE old.op = "switch"
        <4>1. asked.mode = old.mode  BY <2>1, <2>3, <3>1, MergedFacts
        <4>2. old.row = snap /\ snap # None  BY <2>3, <3>1, NoneFacts
        <4> QED BY <2>4, <3>1, <4>1, <4>2
      <3>2. CASE old.op # "switch"
        BY <2>1, <2>3, <3>2, MergedFacts
      <3> QED BY <3>1, <3>2
    <2>6. UNCHANGED <<cfg, snap, asked>>  BY <1>5 DEF ReadRow, Still
    <2>7. old.op \in ConfigOps  BY <2>1 DEF Shaped
    <2>8. WriteProgress(s)'  BY <2>4, <2>5, <2>6 DEF WriteProgress
    <2>9. Lost(req[s])'  BY <2>4, <2>7 DEF Lost
    <2> QED BY <1>4, <2>1, <2>8, <2>9 DEF LostPcs
  <1>6. ASSUME NEW s \in Slots, WriteRow(s) PROVE ConfigInv'
    <2> PICK old \in Request : old = req[s]  OBVIOUS
    <2>1. Call(s) /\ old.pc = "write" /\ Shaped(old)  BY <1>6 DEF Call, WriteRow
    <2>2. ~crossed  BY <2>1, CallFacts
    <2>3. /\ old.row = asked
          /\ (old.op = "switch" /\ old.key) \/ snap.mode = asked.mode
      BY <2>1, <2>2 DEF ConfigInv, WriteProgress
    <2>4. /\ req'[s].pc = "reload" /\ req'[s].op = old.op /\ req'[s].key = old.key
      BY <1>6 DEF WriteRow, Go, Request
    <2>5. cfg' = old.row /\ UNCHANGED <<snap, asked>>  BY <1>6 DEF WriteRow, Still
    <2>6. old.op \in ConfigOps  BY <2>1 DEF Shaped
    <2>7. WriteProgress(s)'  BY <2>3, <2>4, <2>5 DEF WriteProgress
    <2>8. Lost(req[s])'  BY <2>4, <2>6 DEF Lost
    <2> QED BY <1>4, <2>1, <2>7, <2>8 DEF LostPcs
  <1>7. ASSUME NEW s \in Slots, Reload(s) PROVE ConfigInv'
    <2> PICK old \in Request : old = req[s]  OBVIOUS
    <2>1. Call(s) /\ old.pc = "reload" /\ Shaped(old)  BY <1>7 DEF Call, Reload
    <2>2. ~crossed  BY <2>1, CallFacts
    <2>3. /\ cfg = asked
          /\ (old.op = "switch" /\ old.key) \/ snap.mode = asked.mode
      BY <2>1, <2>2 DEF ConfigInv, WriteProgress
    <2>4. /\ req'[s].pc = "swap" /\ req'[s].op = old.op /\ req'[s].key = old.key
          /\ req'[s].row = cfg
      BY <1>7 DEF Reload, Request
    <2>5. UNCHANGED <<cfg, snap, asked>>  BY <1>7 DEF Reload, Still
    <2>6. old.op \in ConfigOps  BY <2>1 DEF Shaped
    <2>7. WriteProgress(s)'  BY <2>3, <2>4, <2>5 DEF WriteProgress
    <2>8. Lost(req[s])'  BY <2>4, <2>6 DEF Lost
    <2> QED BY <1>4, <2>1, <2>7, <2>8 DEF LostPcs
  <1>8. ASSUME NEW s \in Slots, SwapSnapshot(s) PROVE ConfigInv'
    <2> PICK old \in Request : old = req[s]  OBVIOUS
    <2>1. Call(s) /\ old.pc = "swap" /\ Shaped(old)  BY <1>8 DEF Call, SwapSnapshot
    <2>2. ~crossed  BY <2>1, CallFacts
    <2>3. cfg = asked /\ old.row = asked
      BY <2>1, <2>2 DEF ConfigInv, WriteProgress
    <2>4. req'[s].pc \in {"repos", "respond"} /\ req'[s].op = old.op
      BY <1>8 DEF SwapSnapshot, Request
    <2>5. snap' = old.row /\ UNCHANGED <<cfg, asked>>  BY <1>8 DEF SwapSnapshot, Still
    <2>6. \A t \in Slots \ {s} : req'[t] = req[t] /\ req[t].pc \notin LostPcs
      BY <1>3, <2>1, <2>2 DEF ConfigInv, LostPcs
    <2>7. \A t \in Slots : WriteProgress(t)'
      BY <2>4, <2>6 DEF WriteProgress, LostPcs
    <2>8. Writers' \subseteq Writers  BY <2>1, <2>4, <2>6 DEF Writers
    <2> QED BY <2>2, <2>3, <2>5, <2>7, <2>8 DEF ConfigInv
  <1>9. ASSUME NEW s \in Slots, Fail(s) PROVE ConfigInv'
    <2>1. /\ ~crossed /\ ~Lost(req[s]) /\ UNCHANGED <<cfg, snap, asked>>
          /\ req' = [req EXCEPT ![s] = Idle]
      BY <1>9 DEF Fail, Return
    <2>2. \A t \in Slots \ {s} : req'[t] = req[t]  BY <2>1
    <2>3. req'[s].pc = "idle"  BY <2>1 DEF Idle
    <2>4. \A t \in Slots : WriteProgress(t)'
      BY <2>1, <2>2, <2>3 DEF WriteProgress, ConfigInv
    <2>5. Writers' \subseteq Writers  BY <2>2, <2>3 DEF Writers
    <2>6. \A t \in Slots : Lost(req[t])' = Lost(req[t])
      BY <2>1, <2>2, <2>3 DEF Lost
    <2> QED BY <2>1, <2>4, <2>5, <2>6 DEF ConfigInv
  <1>10. CASE Restart
    <2>1. /\ ~crossed /\ (\A s \in Slots : ~Lost(req[s])) /\ UNCHANGED <<cfg, asked>>
          /\ snap' = cfg /\ \A s \in Slots : req'[s].pc = "idle"
      BY <1>10 DEF Restart, Idle
    <2> QED BY <2>1 DEF ConfigInv, WriteProgress, Writers
  <1> QED BY <1>1, <1>2, <1>5, <1>6, <1>7, <1>8, <1>9, <1>10 DEF Next, Call, Later

---------------------------------------------------------------------------
(* Units and their collections.                                            *)

\* UnitInv about one request, and about one repository.
UnitListed(s) ==
    /\ req[s].op = "switch" /\ req[s].pc \in Looping =>
          \A r \in req[s].left : unit[r] # None
    /\ req[s].pc \in {"recreate", "create", "placeholder", "batch", "embed"} =>
          unit[req[s].repo] # None
    /\ req[s].pc = "list" /\ req[s].op = "switch" => unit[req[s].repo] # None

Bare(r) ==
    /\ unit[r] = None
    /\ \A s \in Slots : ~(At(s, "rows") /\ req[s].repo = r)
    => size[r] = None

\* UnitInv is made of these two.
LEMMA UnitParts ==
    UnitInv <=> (\A s \in Slots : UnitListed(s)) /\ (\A r \in Repos \ spoiled : Bare(r))
  BY DEF UnitInv, UnitListed, Bare

\* No step takes a unit's text away.
LEMMA UnitsStay ==
    ASSUME TypeInv, Next, NEW r \in Repos, unit[r] # None
    PROVE  unit'[r] # None
  <1> USE DEF TypeInv, stores
  <1>1. ASSUME NEW s \in Slots, Arrival(s) PROVE unit' = unit
    BY <1>1, ArrivalFacts DEF Arrive
  <1>2. ASSUME NEW s \in Slots, UpsertRows(s) PROVE unit'[r] # None
    <2> PICK old \in Request : old = req[s]  OBVIOUS
    <2>1. old.pc = "rows" /\ Shaped(old)  BY <1>2 DEF UpsertRows, At
    <2>2. old.text # None  BY <2>1, NoneFacts DEF Shaped
    <2> QED BY <1>2, <2>2 DEF UpsertRows
  <1>3. ASSUME NEW s \in Slots, Call(s), ~UpsertRows(s) PROVE unit' = unit
    BY <1>3 DEF Call, ReadRow, WriteRow, Reload, SwapSnapshot, ListRepos, NextRepo, Recreate,
       Create, ListUnits, EnsureSized, UpsertPlaceholder, EnsureForBatch, WriteBatch,
       BatchFails, Respond
  <1>4. ASSUME NEW s \in Slots, Fail(s) PROVE unit' = unit  BY <1>4 DEF Fail
  <1>5. CASE Restart  BY <1>5 DEF Restart
  <1> QED BY <1>1, <1>2, <1>3, <1>4, <1>5 DEF Next

\* A repository on a reindex's list has a unit, and one that has none has no
\* collection but of a run about to write its rows.
LEMMA UnitStep == TypeInv /\ UnitInv /\ Next => UnitInv'
  <1> SUFFICES ASSUME TypeInv, UnitInv, Next PROVE UnitInv'  OBVIOUS
  <1> USE DEF TypeInv, At, Still, stores
  <1>a. (\A s \in Slots : UnitListed(s)) /\ (\A r \in Repos \ spoiled : Bare(r))
    BY UnitParts
  <1>b. ASSUME \A s \in Slots : UnitListed(s)', \A r \in Repos \ spoiled' : Bare(r)'
        PROVE  UnitInv'
    BY <1>b DEF UnitInv, UnitListed, Bare
  <1>u. \A r \in Repos : unit[r] # None => unit'[r] # None  BY UnitsStay
  <1>1. ASSUME NEW t \in Slots, req'[t] = req[t] PROVE UnitListed(t)'
    <2> PICK q \in Request : q = req[t]  OBVIOUS
    <2>1. Shaped(q) /\ q.left \subseteq Repos  BY DEF Request
    <2>2. q.pc \in {"recreate", "create", "list", "placeholder", "batch", "embed"} => q.repo \in Repos
      BY <2>1 DEF Shaped, Ops, ConfigOps
    <2>3. UnitListed(t)  BY <1>a
    <2> QED BY <1>1, <1>u, <2>1, <2>2, <2>3 DEF UnitListed
  <1>2. ASSUME NEW s \in Slots, NEW r \in Repos \ spoiled, spoiled \subseteq spoiled',
               \A t \in Slots \ {s} : req'[t] = req[t],
               ~(At(s, "rows") /\ req[s].repo = r) \/ unit'[r] # None,
               size'[r] = size[r] \/ unit'[r] # None \/ (At(s, "rows")' /\ req'[s].repo = r)
        PROVE  Bare(r)'
    BY <1>2, <1>a, <1>u DEF Bare
  <1>3. ASSUME NEW s \in Slots, Arrival(s) PROVE UnitInv'
    <2>1. PICK q \in Request : Arrive(s, q) /\ q.pc \in {"read", "ensure", "list"}
                               /\ ~(q.pc = "list" /\ q.op = "switch")
      BY <1>3, ArrivalFacts
    <2>2. /\ req'[s] = q /\ ~Busy(s) /\ \A t \in Slots \ {s} : req'[t] = req[t]
          /\ UNCHANGED stores /\ spoiled \subseteq spoiled'
      BY <2>1 DEF Arrive
    <2>3. UnitListed(s)'  BY <2>1, <2>2 DEF UnitListed, Looping
    <2>4. \A r \in Repos \ spoiled' : Bare(r)'  BY <2>2, <1>2 DEF Busy
    <2> QED BY <1>1, <1>b, <2>2, <2>3, <2>4
  <1>4. ASSUME NEW s \in Slots, Call(s), UnitListed(s)', spoiled \subseteq spoiled', UNCHANGED size,
               req[s].pc # "rows"
        PROVE  UnitInv'
    <2>1. \A t \in Slots \ {s} : req'[t] = req[t]  BY <1>4, CallFacts
    <2>2. \A r \in Repos \ spoiled' : Bare(r)'  BY <2>1, <1>2, <1>4
    <2> QED BY <1>1, <1>4, <1>b, <2>1, <2>2
  <1>5. ASSUME NEW s \in Slots, ReadRow(s) \/ WriteRow(s) \/ Reload(s) \/ SwapSnapshot(s)
        PROVE  UnitInv'
    <2> PICK old \in Request : old = req[s]  OBVIOUS
    <2>1. req'[s].pc \in {"write", "reload", "swap", "repos", "respond"} /\ Call(s)
          /\ old.pc \in LostPcs
      BY <1>5 DEF ReadRow, WriteRow, Reload, SwapSnapshot, Go, Request, Call, LostPcs
    <2>2. UNCHANGED <<size, spoiled>>  BY <1>5 DEF ReadRow, WriteRow, Reload, SwapSnapshot
    <2>3. UnitListed(s)'  BY <2>1 DEF UnitListed, Looping
    <2> QED BY <1>4, <2>1, <2>2, <2>3 DEF LostPcs
  <1>6. ASSUME NEW s \in Slots, ListRepos(s) PROVE UnitInv'
    <2> PICK old \in Request : old = req[s]  OBVIOUS
    <2>1. req'[s].pc = "next" /\ Call(s) /\ req'[s].left = {r \in Repos : unit[r] # None}
      BY <1>6 DEF ListRepos, Call, Request
    <2>2. UNCHANGED <<size, unit, spoiled>> /\ old.pc # "rows"  BY <1>6 DEF ListRepos
    <2>3. UnitListed(s)'  BY <2>1, <2>2 DEF UnitListed
    <2> QED BY <1>4, <2>1, <2>2, <2>3
  <1>7. ASSUME NEW s \in Slots, NextRepo(s) PROVE UnitInv'
    <2> PICK old \in Request : old = req[s]  OBVIOUS
    <2>1. old.pc = "next" /\ Shaped(old) /\ Call(s)  BY <1>7 DEF NextRepo, Call
    <2>2. UNCHANGED <<size, unit, spoiled>>  BY <1>7 DEF NextRepo
    <2>3. \A r \in old.left : unit[r] # None
      BY <1>a, <2>1 DEF UnitListed, Looping, Shaped
    <2>4. CASE old.left = {}
      <3>1. req'[s].pc = "respond"  BY <1>7, <2>4 DEF NextRepo, Go, Request
      <3>2. UnitListed(s)'  BY <3>1 DEF UnitListed, Looping
      <3> QED BY <1>4, <2>1, <2>2, <3>2
    <2>5. CASE old.left # {}
      <3>1. PICK r \in old.left : req' = [req EXCEPT ![s].pc = "recreate", ![s].repo = r,
                                                     ![s].left = @ \ {r}]
        BY <1>7, <2>5 DEF NextRepo
      <3>2. req'[s].pc = "recreate" /\ req'[s].repo = r /\ req'[s].left = old.left \ {r}
        BY <3>1 DEF Request
      <3>3. UnitListed(s)'  BY <2>2, <2>3, <3>2 DEF UnitListed
      <3> QED BY <1>4, <2>1, <2>2, <3>3
    <2> QED BY <2>4, <2>5
  <1>8. ASSUME NEW s \in Slots, Call(s), UnitListed(s)', spoiled \subseteq spoiled',
               req[s].pc # "rows", NEW r \in Repos, unit'[r] # None,
               \A x \in Repos \ {r} : size'[x] = size[x]
        PROVE  UnitInv'
    <2>1. \A t \in Slots \ {s} : req'[t] = req[t]  BY <1>8, CallFacts
    <2>2. \A x \in Repos \ spoiled' : Bare(x)'
      <3> SUFFICES ASSUME NEW x \in Repos \ spoiled' PROVE Bare(x)'  OBVIOUS
      <3>1. CASE x = r  BY <1>8, <3>1 DEF Bare
      <3>2. CASE x # r  BY <2>1, <1>2, <1>8, <3>2
      <3> QED BY <3>1, <3>2
    <2> QED BY <1>1, <1>8, <1>b, <2>1, <2>2
  <1>9. ASSUME NEW s \in Slots, Recreate(s) PROVE UnitInv'
    <2> PICK old \in Request : old = req[s]  OBVIOUS
    <2>1. old.pc = "recreate" /\ Shaped(old) /\ Call(s)  BY <1>9 DEF Recreate, Call
    <2> PICK r \in Repos : r = old.repo  BY <2>1 DEF Shaped
    <2>2. old.op = "switch" /\ unit[r] # None /\ \A x \in old.left : unit[x] # None
      BY <1>a, <2>1 DEF UnitListed, Looping, Shaped
    <2>3. UNCHANGED <<unit, spoiled>>  BY <1>9 DEF Recreate
    <2>4. /\ req'[s].pc \in {"list", "create"} /\ req'[s].repo = r /\ req'[s].left = old.left
      BY <1>9 DEF Recreate, Go, Request
    <2>5. \A x \in Repos \ {r} : size'[x] = size[x]
      BY <1>9 DEF Recreate, DropAndCreate, DeleteCollection
    <2>6. UnitListed(s)'  BY <2>2, <2>3, <2>4 DEF UnitListed
    <2> QED BY <1>8, <2>1, <2>2, <2>3, <2>5, <2>6
  <1>10. ASSUME NEW s \in Slots, Create(s) PROVE UnitInv'
    <2> PICK old \in Request : old = req[s]  OBVIOUS
    <2>1. old.pc = "create" /\ Shaped(old) /\ Call(s)  BY <1>10 DEF Create, Call
    <2> PICK r \in Repos : r = old.repo  BY <2>1 DEF Shaped
    <2>2. old.op = "switch" /\ unit[r] # None /\ \A x \in old.left : unit[x] # None
      BY <1>a, <2>1 DEF UnitListed, Looping, Shaped
    <2>3. unit' = unit /\ spoiled \subseteq spoiled'  BY <1>10 DEF Create
    <2>4. /\ req'[s].pc \in {"list", "idle"}
          /\ req'[s].pc = "list" => req'[s].repo = r /\ req'[s].left = old.left
      BY <1>10 DEF Create, Go, Return, Idle, Request
    <2>5. \A x \in Repos \ {r} : size'[x] = size[x]
      BY <1>10 DEF Create, EnsureCollection
    <2>6. UnitListed(s)'  BY <2>2, <2>3, <2>4 DEF UnitListed, Looping
    <2> QED BY <1>8, <2>1, <2>2, <2>3, <2>5, <2>6
  <1>11. ASSUME NEW s \in Slots, ListUnits(s) PROVE UnitInv'
    <2> PICK old \in Request : old = req[s]  OBVIOUS
    <2>1. old.pc = "list" /\ Shaped(old) /\ Call(s)  BY <1>11 DEF ListUnits, Call
    <2>2. /\ req'[s].op = old.op /\ req'[s].repo = old.repo /\ req'[s].left = old.left
          /\ req'[s].pc \in {"batch", "next", "respond"}
          /\ req'[s].pc = "batch" => unit[old.repo] # None
      BY <1>11 DEF ListUnits, Request
    <2>3. UNCHANGED <<size, unit, spoiled>>  BY <1>11 DEF ListUnits
    <2>4. UnitListed(s)'  BY <1>a, <2>1, <2>2, <2>3 DEF UnitListed, Looping
    <2> QED BY <1>4, <2>1, <2>3, <2>4
  <1>12. ASSUME NEW s \in Slots, EnsureSized(s) PROVE UnitInv'
    <2> PICK old \in Request : old = req[s]  OBVIOUS
    <2>1. old.pc = "ensure" /\ Shaped(old) /\ Call(s)  BY <1>12 DEF EnsureSized, Call
    <2> PICK r \in Repos : r = old.repo  BY <2>1 DEF Shaped, Ops
    <2>2. req'[s].pc = "rows" /\ req'[s].repo = r  BY <1>12 DEF EnsureSized, Go, Request
    <2>3. UNCHANGED <<unit, spoiled>>  BY <1>12 DEF EnsureSized
    <2>4. \A x \in Repos \ {r} : size'[x] = size[x]
      BY <1>12 DEF EnsureSized, EnsureCollection
    <2>5. \A t \in Slots \ {s} : req'[t] = req[t]  BY <2>1, CallFacts
    <2>6. \A x \in Repos \ spoiled' : Bare(x)'  BY <1>2, <2>1, <2>2, <2>3, <2>4, <2>5
    <2>7. UnitListed(s)'  BY <2>2 DEF UnitListed, Looping
    <2> QED BY <1>1, <1>b, <2>5, <2>6, <2>7
  <1>13. ASSUME NEW s \in Slots, UpsertRows(s) PROVE UnitInv'
    <2> PICK old \in Request : old = req[s]  OBVIOUS
    <2>1. old.pc = "rows" /\ Shaped(old) /\ Call(s)  BY <1>13 DEF UpsertRows, Call
    <2> PICK r \in Repos : r = old.repo  BY <2>1 DEF Shaped, Ops
    <2>2. old.text # None  BY <2>1, NoneFacts DEF Shaped
    <2>3. UNCHANGED <<size, spoiled>> /\ unit'[r] # None  BY <1>13, <2>2 DEF UpsertRows
    <2>4. req'[s].pc \in {"placeholder", "respond"} /\ req'[s].repo = r
      BY <1>13 DEF UpsertRows, Request
    <2>5. \A t \in Slots \ {s} : req'[t] = req[t]  BY <2>1, CallFacts
    <2>6. \A x \in Repos \ spoiled' : Bare(x)'  BY <1>2, <2>3, <2>5
    <2>7. UnitListed(s)'  BY <2>3, <2>4 DEF UnitListed, Looping
    <2> QED BY <1>1, <1>b, <2>5, <2>6, <2>7
  <1>14. ASSUME NEW s \in Slots, UpsertPlaceholder(s) PROVE UnitInv'
    <2> PICK old \in Request : old = req[s]  OBVIOUS
    <2>1. old.pc = "placeholder" /\ Shaped(old) /\ Call(s)  BY <1>14 DEF UpsertPlaceholder, Call
    <2>2. PICK pc \in {"respond", "batch"} : req' = [req EXCEPT ![s].pc = pc]
      BY <1>14 DEF UpsertPlaceholder, Go
    <2>3. req'[s].pc = pc /\ req'[s].repo = old.repo  BY <2>2 DEF Request
    <2>4. UNCHANGED <<size, unit>> /\ spoiled \subseteq spoiled'
      BY <1>14 DEF UpsertPlaceholder, Spoil
    <2>6. req'[s].op = "ingest" BY <2>1, <2>2 DEF Shaped, Request
    <2>5. UnitListed(s)'  BY <1>a, <2>1, <2>3, <2>4, <2>6 DEF UnitListed
    <2> QED BY <1>4, <2>1, <2>4, <2>5
  <1>15. ASSUME NEW s \in Slots, EnsureForBatch(s) PROVE UnitInv'
    <2> PICK old \in Request : old = req[s]  OBVIOUS
    <2>1. old.pc = "batch" /\ Shaped(old) /\ Call(s)  BY <1>15 DEF EnsureForBatch, Call
    <2> PICK r \in Repos : r = old.repo  BY <2>1 DEF Shaped
    <2>2. unit[r] # None  BY <1>a, <2>1 DEF UnitListed
    <2>3. /\ req'[s].pc = "embed" /\ req'[s].op = old.op /\ req'[s].repo = r
          /\ req'[s].left = old.left
      BY <1>15 DEF EnsureForBatch, Go, Request
    <2>4. UNCHANGED <<unit, spoiled>>  BY <1>15 DEF EnsureForBatch
    <2>5. \A x \in Repos \ {r} : size'[x] = size[x]
      BY <1>15 DEF EnsureForBatch, EnsureCollection
    <2>6. UnitListed(s)'  BY <1>a, <2>1, <2>2, <2>3, <2>4 DEF UnitListed, Looping
    <2> QED BY <1>8, <2>1, <2>2, <2>4, <2>5, <2>6
  <1>16. ASSUME NEW s \in Slots, WriteBatch(s) \/ BatchFails(s) PROVE UnitInv'
    <2> PICK old \in Request : old = req[s]  OBVIOUS
    <2>1. old.pc = "embed" /\ Shaped(old) /\ Call(s)
      BY <1>16 DEF WriteBatch, BatchFails, Call
    <2>2. /\ req'[s].pc \in {"next", "respond"} /\ req'[s].op = old.op
          /\ req'[s].left = old.left
      <3>1. CASE WriteBatch(s)  BY <3>1 DEF WriteBatch, AfterBatch, Request
      <3>2. CASE BatchFails(s)  BY <3>2 DEF BatchFails, AfterBatch, Request
      <3> QED BY <1>16, <3>1, <3>2
    <2>3. UNCHANGED <<size, unit>> /\ spoiled \subseteq spoiled'
      BY <1>16 DEF WriteBatch, BatchFails, Spoil
    <2>4. UnitListed(s)'  BY <1>a, <2>1, <2>2, <2>3 DEF UnitListed, Looping
    <2> QED BY <1>4, <2>1, <2>3, <2>4
  <1>17. ASSUME NEW s \in Slots, Respond(s) PROVE UnitInv'
    <2>1. /\ UNCHANGED <<size, unit>> /\ Call(s) /\ req[s].pc = "respond"
          /\ req'[s].pc = "idle"
          /\ \A r \in Repos \ spoiled' : r \notin spoiled \/ unit[r] # None
      BY <1>17 DEF Respond, Call, Return, Idle
    <2>2. \A t \in Slots \ {s} : req'[t] = req[t]  BY <2>1, CallFacts
    <2>3. UnitListed(s)'  BY <2>1 DEF UnitListed, Looping
    <2>4. \A r \in Repos \ spoiled' : Bare(r)'  BY <1>a, <2>1, <2>2 DEF Bare
    <2> QED BY <1>1, <1>b, <2>2, <2>3, <2>4
  <1>18. ASSUME NEW s \in Slots, Fail(s) PROVE UnitInv'
    <2>1. /\ UNCHANGED <<size, unit>> /\ req'[s].pc = "idle"
          /\ spoiled' = spoiled \union Touches(req[s])
          /\ \A t \in Slots \ {s} : req'[t] = req[t]
      BY <1>18 DEF Fail, Return, Idle
    <2>2. UnitListed(s)'  BY <2>1 DEF UnitListed, Looping
    <2>3. \A r \in Repos \ spoiled' : ~(At(s, "rows") /\ req[s].repo = r)
      <3> PICK old \in Request : old = req[s]  OBVIOUS
      <3>1. old.pc = "rows" => old.repo \in Touches(old)
        BY TouchesFacts DEF Shaped
      <3> QED BY <2>1, <3>1
    <2>4. \A r \in Repos \ spoiled' : Bare(r)'  BY <1>2, <2>1, <2>3
    <2> QED BY <1>1, <1>b, <2>1, <2>2, <2>4
  <1>19. CASE Restart
    <2>1. /\ UNCHANGED <<size, unit>> /\ \A s \in Slots : req'[s].pc = "idle"
          /\ spoiled' = spoiled \union UNION {Touches(req[s]) : s \in Slots}
      BY <1>19 DEF Restart, Idle
    <2>2. \A s \in Slots : UnitListed(s)'  BY <2>1 DEF UnitListed, Looping
    <2>3. \A r \in Repos \ spoiled', s \in Slots : ~(At(s, "rows") /\ req[s].repo = r)
      <3> TAKE r \in Repos \ spoiled', s \in Slots
      <3> PICK old \in Request : old = req[s]  OBVIOUS
      <3>1. old.pc = "rows" => old.repo \in Touches(old)
        BY TouchesFacts DEF Shaped
      <3> QED BY <2>1, <3>1
    <2>4. \A r \in Repos \ spoiled' : Bare(r)'  BY <1>a, <2>1, <2>3 DEF Bare
    <2> QED BY <1>b, <2>2, <2>4
  <1> QED BY <1>3, <1>5, <1>6, <1>7, <1>9, <1>10, <1>11, <1>12, <1>13, <1>14, <1>15, <1>16,
            <1>17, <1>18, <1>19 DEF Next, Call

---------------------------------------------------------------------------
(* Texts.                                                                  *)

\* TextInv about one request, and about one repository.
TextOf(s) ==
    /\ req[s].pc \in {"placeholder", "batch", "embed"}
    /\ req[s].repo \notin spoiled
    => req[s].text = unit[req[s].repo]

PointOf(r) ==
    /\ \A s \in Slots : ~(At(s, "placeholder") /\ req[s].repo = r)
    /\ point[r] # None
    => point[r].text = unit[r]

\* TextInv is made of these two.
LEMMA TextParts ==
    TextInv <=> (\A s \in Slots : TextOf(s)) /\ (\A r \in Repos \ spoiled : PointOf(r))
  BY DEF TextInv, TextOf, PointOf

\* A request on its way to a repository's rows or points touches it.
LEMMA AtTouches ==
    ASSUME TypeInv, NEW s \in Slots,
           req[s].pc \in {"ensure", "rows", "placeholder", "recreate", "create",
                          "list", "batch", "embed"}
    PROVE  Busy(s) /\ req[s].repo \in Repos /\ req[s].repo \in Touches(req[s])
  <1> PICK q \in Request : q = req[s]  BY DEF TypeInv
  <1>1. Shaped(q)  BY DEF TypeInv
  <1> QED BY <1>1, TouchesFacts DEF Shaped, Ops, ConfigOps, Busy

\* Two requests never write to one repository that is not spoiled.
LEMMA NoOther ==
    ASSUME TypeInv, ApartInv, NEW s \in Slots, NEW t \in Slots, s # t,
           Busy(s), NEW r \in Repos, r \in Touches(req[s]), r \notin spoiled,
           req[t].repo = r
    PROVE  req[t].pc \notin {"ensure", "rows", "placeholder", "recreate", "create",
                             "list", "batch", "embed"}
  BY AtTouches DEF ApartInv

\* The text a request carries to a repository that is not spoiled is its
\* row's, and so is its point's.
LEMMA TextStep ==
    TypeInv /\ LoneInv /\ ApartInv /\ TextInv /\ ServeInv /\ Next => TextInv'
  <1> SUFFICES ASSUME TypeInv, LoneInv, ApartInv, TextInv, ServeInv, Next PROVE TextInv'
    OBVIOUS
  <1> USE DEF TypeInv, At, Still, stores
  <1>a. (\A s \in Slots : TextOf(s)) /\ (\A r \in Repos \ spoiled : PointOf(r))
    BY TextParts
  <1>b. ASSUME \A s \in Slots : TextOf(s)', \A r \in Repos \ spoiled' : PointOf(r)'
        PROVE  TextInv'
    BY <1>b DEF TextInv, TextOf, PointOf
  <1>1. ASSUME NEW t \in Slots, req'[t] = req[t], spoiled \subseteq spoiled', unit' = unit
        PROVE  TextOf(t)'
    BY <1>1, <1>a DEF TextOf
  <1>2. ASSUME NEW s \in Slots, NEW r \in Repos \ spoiled', spoiled \subseteq spoiled',
               \A t \in Slots \ {s} : req'[t] = req[t],
               ~(At(s, "placeholder") /\ req[s].repo = r),
               unit'[r] = unit[r], point'[r] = point[r]
        PROVE  PointOf(r)'
    BY <1>2, <1>a DEF PointOf
  <1>3. ASSUME NEW s \in Slots, \A t \in Slots \ {s} : req'[t] = req[t],
               spoiled \subseteq spoiled', UNCHANGED <<unit, point>>,
               TextOf(s)', req[s].pc # "placeholder"
        PROVE  TextInv'
    BY <1>1, <1>2, <1>3, <1>b
  <1>4. ASSUME NEW s \in Slots, Arrival(s) PROVE TextInv'
    <2>1. PICK q \in Request : Arrive(s, q) /\ q.pc \in {"read", "ensure", "list"}
      BY <1>4, ArrivalFacts
    <2>2. /\ req'[s] = q /\ ~Busy(s) /\ \A t \in Slots \ {s} : req'[t] = req[t]
          /\ UNCHANGED stores /\ spoiled \subseteq spoiled'
      BY <2>1 DEF Arrive
    <2>3. TextOf(s)'  BY <2>1, <2>2 DEF TextOf
    <2> QED BY <1>3, <2>2, <2>3 DEF Busy
  <1>5. ASSUME NEW s \in Slots, ReadRow(s) \/ WriteRow(s) \/ Reload(s) \/ SwapSnapshot(s)
        PROVE  TextInv'
    <2> PICK old \in Request : old = req[s]  OBVIOUS
    <2>1. req'[s].pc \in {"write", "reload", "swap", "repos", "respond"} /\ Call(s)
          /\ old.pc \in LostPcs
      BY <1>5 DEF ReadRow, WriteRow, Reload, SwapSnapshot, Go, Request, Call, LostPcs
    <2>2. UNCHANGED <<unit, point, spoiled>>
      BY <1>5 DEF ReadRow, WriteRow, Reload, SwapSnapshot
    <2>3. TextOf(s)'  BY <2>1 DEF TextOf
    <2> QED BY <1>3, <2>1, <2>2, <2>3, CallFacts DEF LostPcs
  <1>6. ASSUME NEW s \in Slots, ListRepos(s) \/ NextRepo(s) \/ EnsureSized(s) PROVE TextInv'
    <2> PICK old \in Request : old = req[s]  OBVIOUS
    <2>1. UNCHANGED <<unit, point, spoiled>> /\ Call(s) /\ old.pc # "placeholder"
      BY <1>6 DEF ListRepos, NextRepo, EnsureSized, Call
    <2>2. req'[s].pc \in {"next", "recreate", "respond", "rows"}
      <3>1. CASE ListRepos(s)  BY <3>1 DEF ListRepos, Request
      <3>2. CASE EnsureSized(s)  BY <3>2 DEF EnsureSized, Go, Request
      <3>3. CASE NextRepo(s)
        <4>1. CASE old.left = {}  BY <3>3, <4>1 DEF NextRepo, Go, Request
        <4>2. CASE old.left # {}
          <5>1. PICK r \in old.left : req' = [req EXCEPT ![s].pc = "recreate", ![s].repo = r,
                                                         ![s].left = @ \ {r}]
            BY <3>3, <4>2 DEF NextRepo
          <5> QED BY <5>1 DEF Request
        <4> QED BY <4>1, <4>2
      <3> QED BY <1>6, <3>1, <3>2, <3>3
    <2>3. TextOf(s)'  BY <2>2 DEF TextOf
    <2> QED BY <1>3, <2>1, <2>3, CallFacts
  <1>7. ASSUME NEW s \in Slots, Recreate(s) PROVE TextInv'
    <2> PICK old \in Request : old = req[s]  OBVIOUS
    <2>1. old.pc = "recreate" /\ Shaped(old) /\ Call(s)  BY <1>7 DEF Recreate, Call
    <2> PICK r \in Repos : r = old.repo  BY <2>1 DEF Shaped
    <2>2. UNCHANGED <<unit, spoiled>> /\ \A t \in Slots \ {s} : req'[t] = req[t]
      BY <1>7, <2>1, CallFacts DEF Recreate
    <2>3. point' = [point EXCEPT ![r] = None]
      BY <1>7 DEF Recreate, DropAndCreate, DeleteCollection
    <2>4. req'[s].pc \in {"list", "create"}  BY <1>7 DEF Recreate, Go, Request
    <2>5. TextOf(s)'  BY <2>4 DEF TextOf
    <2>6. PointOf(r)'  BY <2>3 DEF PointOf
    <2>7. \A x \in Repos \ spoiled' : x # r => PointOf(x)'  BY <1>2, <2>1, <2>2, <2>3
    <2> QED BY <1>1, <1>b, <2>2, <2>5, <2>6, <2>7
  <1>8. ASSUME NEW s \in Slots, Create(s) PROVE TextInv'
    <2> PICK old \in Request : old = req[s]  OBVIOUS
    <2>1. /\ UNCHANGED <<unit, point>> /\ spoiled \subseteq spoiled' /\ Call(s)
          /\ old.pc = "create"
      BY <1>8 DEF Create, Call
    <2>2. req'[s].pc \in {"list", "idle"}  BY <1>8 DEF Create, Go, Return, Idle, Request
    <2>3. TextOf(s)'  BY <2>2 DEF TextOf
    <2> QED BY <1>3, <2>1, <2>3, CallFacts
  <1>9. ASSUME NEW s \in Slots, ListUnits(s) PROVE TextInv'
    <2> PICK old \in Request : old = req[s]  OBVIOUS
    <2>1. UNCHANGED <<unit, point, spoiled>> /\ Call(s) /\ old.pc = "list"
      BY <1>9 DEF ListUnits, Call
    <2>2. req'[s].repo = old.repo /\ req'[s].text = unit[old.repo]
      BY <1>9 DEF ListUnits, Request
    <2>3. TextOf(s)'  BY <2>1, <2>2 DEF TextOf
    <2> QED BY <1>3, <2>1, <2>3, CallFacts
  <1>10. ASSUME NEW s \in Slots, UpsertRows(s) PROVE TextInv'
    <2> PICK old \in Request : old = req[s]  OBVIOUS
    <2>1. old.pc = "rows" /\ Shaped(old) /\ Call(s)  BY <1>10 DEF UpsertRows, Call
    <2>2. old.repo \in Repos /\ Busy(s) /\ old.repo \in Touches(old)  BY <2>1, AtTouches
    <2> PICK r \in Repos : r = old.repo  BY <2>2
    <2>3. /\ UNCHANGED <<point, spoiled>> /\ unit' = [unit EXCEPT ![r] = old.text]
          /\ \A t \in Slots \ {s} : req'[t] = req[t]
      BY <1>10, <2>1, CallFacts DEF UpsertRows
    <2>4. /\ req'[s].repo = r /\ req'[s].text = old.text
          /\ req'[s].pc = "placeholder" \/ (req'[s].pc = "respond" /\ unit[r] = old.text)
      BY <1>10 DEF UpsertRows, Request
    <2>5. \A t \in Slots \ {s} : r \notin spoiled /\ req[t].repo = r =>
             req[t].pc \notin {"placeholder", "batch", "embed"}
      BY <2>2, NoOther
    <2>6. \A t \in Slots \ {s} : TextOf(t)'
      <3> SUFFICES ASSUME NEW t \in Slots \ {s} PROVE TextOf(t)'  OBVIOUS
      <3>1. CASE req[t].repo = r  BY <2>3, <2>5, <3>1 DEF TextOf
      <3>2. CASE req[t].repo # r
        <4>1. unit'[req[t].repo] = unit[req[t].repo] \/ req[t].repo \notin Repos
          BY <2>3, <3>2
        <4>2. req[t].pc \in {"placeholder", "batch", "embed"} => req[t].repo \in Repos
          BY AtTouches
        <4> QED BY <1>a, <2>3, <4>1, <4>2 DEF TextOf
      <3> QED BY <3>1, <3>2
    <2>7. TextOf(s)'  BY <2>3, <2>4 DEF TextOf
    <2>8. \A x \in Repos \ spoiled' : x # r => PointOf(x)'  BY <1>2, <2>1, <2>3
    <2>9. r \notin spoiled => PointOf(r)'
      <3>1. CASE req'[s].pc = "placeholder"  BY <2>4, <3>1 DEF PointOf
      <3>2. CASE req'[s].pc = "respond"
        <4>1. unit'[r] = unit[r]  BY <2>3, <2>4, <3>2
        <4> QED BY <1>2, <2>1, <2>3, <4>1
      <3> QED BY <2>4, <3>1, <3>2
    <2> QED BY <1>b, <2>3, <2>6, <2>7, <2>8, <2>9
  <1>11. ASSUME NEW s \in Slots, UpsertPlaceholder(s) PROVE TextInv'
    <2> PICK old \in Request : old = req[s]  OBVIOUS
    <2>1. old.pc = "placeholder" /\ Call(s)  BY <1>11 DEF UpsertPlaceholder, Call
    <2> PICK r \in Repos : r = old.repo  BY <2>1, AtTouches
    <2>2. /\ unit' = unit /\ \A t \in Slots \ {s} : req'[t] = req[t]
          /\ spoiled \subseteq spoiled'
      BY <1>11, <2>1, CallFacts DEF UpsertPlaceholder, Spoil
    <2>3. PICK pc \in {"respond", "batch"} : req' = [req EXCEPT ![s].pc = pc]
      BY <1>11 DEF UpsertPlaceholder, Go
    <2>4. req'[s].repo = r /\ req'[s].text = old.text /\ req'[s].pc = pc  BY <2>3 DEF Request
    <2>5. TextOf(s)'  BY <1>a, <2>1, <2>2, <2>4 DEF TextOf
    <2>6. \/ r \in spoiled' /\ point' = point
          \/ /\ spoiled' = spoiled
             /\ \E n \in Sizes \union {None} : point' = [point EXCEPT ![r] =
                   [text |-> old.text, size |-> n, vector |-> FALSE]]
      <3>1. PlaceholderSize(r) \in Sizes \union {None}  BY DEF PlaceholderSize
      <3> QED BY <1>11, <3>1 DEF UpsertPlaceholder, Spoil, Upsert
    <2>7. \A x \in Repos \ spoiled' : x # r => PointOf(x)'  BY <1>2, <2>1, <2>2, <2>6
    <2>8. ASSUME r \notin spoiled' PROVE PointOf(r)'
      <3>1. old.text = unit[r]  BY <1>a, <2>1, <2>2, <2>8 DEF TextOf
      <3>2. PICK n \in Sizes \union {None} : point' = [point EXCEPT ![r] =
                   [text |-> old.text, size |-> n, vector |-> FALSE]]
        BY <2>6, <2>8
      <3> QED BY <2>2, <3>1, <3>2 DEF PointOf
    <2> QED BY <1>1, <1>b, <2>2, <2>5, <2>7, <2>8
  <1>12. ASSUME NEW s \in Slots, EnsureForBatch(s) PROVE TextInv'
    <2> PICK old \in Request : old = req[s]  OBVIOUS
    <2>1. UNCHANGED <<unit, point, spoiled>> /\ Call(s) /\ old.pc = "batch"
      BY <1>12 DEF EnsureForBatch, Call
    <2>2. req'[s].repo = old.repo /\ req'[s].text = old.text
      BY <1>12 DEF EnsureForBatch, Go, Request
    <2>3. TextOf(s)'  BY <1>a, <2>1, <2>2 DEF TextOf
    <2> QED BY <1>3, <2>1, <2>3, CallFacts
  <1>13. ASSUME NEW s \in Slots, WriteBatch(s) PROVE TextInv'
    <2> PICK old \in Request : old = req[s]  OBVIOUS
    <2>1. old.pc = "embed" /\ Call(s)  BY <1>13 DEF WriteBatch, Call
    <2> PICK r \in Repos : r = old.repo  BY <2>1, AtTouches
    <2>2. /\ unit' = unit /\ \A t \in Slots \ {s} : req'[t] = req[t]
          /\ spoiled' = spoiled
      BY <1>13, <2>1, CallFacts DEF WriteBatch
    <2>3. req'[s].pc \in {"next", "respond"}
      BY <1>13 DEF WriteBatch, AfterBatch, Request
    <2>4. TextOf(s)'  BY <2>3 DEF TextOf
    <2>5. point' = [point EXCEPT ![r] = [text |-> old.text, size |-> BatchSize(old),
                                         vector |-> old.text \notin Blank]]
      BY <1>13 DEF WriteBatch, UpsertBatch, Upsert
    <2>6. \A x \in Repos \ spoiled' : x # r => PointOf(x)'  BY <1>2, <2>1, <2>2, <2>5
    <2>7. r \notin spoiled' => PointOf(r)'
      BY <1>a, <2>1, <2>2, <2>5 DEF PointOf, TextOf
    <2> QED BY <1>1, <1>b, <2>2, <2>4, <2>6, <2>7
  <1>14. ASSUME NEW s \in Slots, BatchFails(s) PROVE TextInv'
    <2> PICK old \in Request : old = req[s]  OBVIOUS
    <2>1. /\ UNCHANGED <<unit, point>> /\ spoiled \subseteq spoiled' /\ Call(s)
          /\ old.pc = "embed"
      BY <1>14 DEF BatchFails, Spoil, Call
    <2>2. req'[s].pc \in {"next", "respond"}
      BY <1>14 DEF BatchFails, AfterBatch, Request
    <2>3. TextOf(s)'  BY <2>2 DEF TextOf
    <2> QED BY <1>3, <2>1, <2>3, CallFacts
  <1>15. ASSUME NEW s \in Slots, Respond(s) PROVE TextInv'
    <2> PICK old \in Request : old = req[s]  OBVIOUS
    <2>1. /\ UNCHANGED <<unit, point>> /\ old.pc = "respond" /\ Call(s)
          /\ req'[s].pc = "idle"
      BY <1>15 DEF Respond, Call, Return, Idle
    <2>2. TextOf(s)'  BY <2>1 DEF TextOf
    <2>3. CASE spoiled \subseteq spoiled'
      BY <1>3, <2>1, <2>2, <2>3, CallFacts
    <2>4. CASE ~(spoiled \subseteq spoiled')
      <3>1. /\ s \in lone /\ old.op = "switch" /\ old.key /\ ~old.failed
            /\ spoiled' = {r \in spoiled : unit[r] = None}
        BY <1>15, <2>4 DEF Respond
      <3>2. \A t \in Slots \ {s} : req'[t] = req[t] /\ req'[t].pc = "idle"
        BY <2>1, <3>1, CallFacts DEF LoneInv, Busy
      <3>3. \A t \in Slots : TextOf(t)'  BY <2>1, <3>2 DEF TextOf
      <3>4. \A r \in Repos : Reindexed(r)
        BY <2>1, <3>1 DEF ServeInv, SwitchProgress
      <3>5. \A r \in Repos \ spoiled' : PointOf(r)'
        <4> SUFFICES ASSUME NEW r \in Repos \ spoiled' PROVE PointOf(r)'  OBVIOUS
        <4>1. CASE r \in spoiled
          <5>1. unit[r] # None  BY <3>1, <4>1
          <5>2. point[r] = None \/ Searchable(r)  BY <3>4, <5>1 DEF Reindexed
          <5> QED BY <2>1, <5>2 DEF PointOf, Searchable
        <4>2. CASE r \notin spoiled
          BY <1>a, <2>1, <3>2, <4>2 DEF PointOf
        <4> QED BY <4>1, <4>2
      <3> QED BY <1>b, <3>3, <3>5
    <2> QED BY <2>3, <2>4
  <1>16. ASSUME NEW s \in Slots, Fail(s) PROVE TextInv'
    <2>1. /\ UNCHANGED <<unit, point>> /\ req'[s].pc = "idle"
          /\ spoiled' = spoiled \union Touches(req[s])
          /\ \A t \in Slots \ {s} : req'[t] = req[t]
      BY <1>16 DEF Fail, Return, Idle
    <2>2. TextOf(s)'  BY <2>1 DEF TextOf
    <2>3. \A r \in Repos \ spoiled' : ~(At(s, "placeholder") /\ req[s].repo = r)
      BY <2>1, AtTouches
    <2>4. \A r \in Repos \ spoiled' : PointOf(r)'  BY <1>2, <2>1, <2>3
    <2> QED BY <1>1, <1>b, <2>1, <2>2, <2>4
  <1>17. CASE Restart
    <2>1. /\ UNCHANGED <<unit, point>> /\ \A s \in Slots : req'[s].pc = "idle"
          /\ spoiled' = spoiled \union UNION {Touches(req[s]) : s \in Slots}
      BY <1>17 DEF Restart, Idle
    <2>2. \A s \in Slots : TextOf(s)'  BY <2>1 DEF TextOf
    <2>3. \A r \in Repos \ spoiled', s \in Slots : ~(At(s, "placeholder") /\ req[s].repo = r)
      BY <2>1, AtTouches
    <2>4. \A r \in Repos \ spoiled' : PointOf(r)'  BY <1>a, <2>1, <2>3 DEF PointOf
    <2> QED BY <1>b, <2>2, <2>4
  <1> QED BY <1>4, <1>5, <1>6, <1>7, <1>8, <1>9, <1>10, <1>11, <1>12, <1>13, <1>14, <1>15,
            <1>16, <1>17 DEF Next, Call

---------------------------------------------------------------------------
(* Sizes.                                                                  *)

\* SizeInv about one repository, and about one request.
SizeOf(r) ==
    size[r] \in {None, ActiveDimension(snap)} \/ \E s \in Slots : Awaits(s, r)

EmbedderOf(s) ==
    req[s].repo \notin spoiled =>
      /\ req[s].pc \in {"create", "batch", "embed"} =>
            req[s].embedder = ActiveDimension(snap)
      /\ At(s, "list") /\ req[s].op = "reembed" =>
            req[s].embedder = ActiveDimension(snap)
      /\ At(s, "placeholder") => req[s].embedder \in {None, ActiveDimension(snap)}

\* SizeInv is made of these two.
LEMMA SizeParts ==
    SizeInv <=> (~crossed => /\ \A r \in Repos \ spoiled : SizeOf(r)
                             /\ \A s \in Slots : EmbedderOf(s))
  BY DEF SizeInv, SizeOf, EmbedderOf

\* Once configuration writes have crossed, they have.
LEMMA CrossedStays == TypeInv /\ Next /\ ~crossed' => ~crossed
  <1> SUFFICES ASSUME TypeInv, Next, ~crossed' PROVE ~crossed  OBVIOUS
  <1>1. ASSUME NEW s \in Slots, Arrival(s) PROVE ~crossed
    BY <1>1, ArrivalFacts DEF Arrive
  <1>2. ASSUME NEW s \in Slots, Call(s) PROVE ~crossed  BY <1>2, CallFacts
  <1>3. ASSUME NEW s \in Slots, Fail(s) PROVE ~crossed  BY <1>3 DEF Fail
  <1>4. CASE Restart  BY <1>4 DEF Restart
  <1> QED BY <1>1, <1>2, <1>3, <1>4 DEF Next

\* A collection has the size of the active mode or waits for its reindex.
LEMMA SizeStep ==
    /\ TypeInv /\ ConfigInv /\ LoneInv /\ ApartInv /\ UnitInv /\ SizeInv /\ ServeInv
    /\ Next
    => SizeInv'
  <1> SUFFICES ASSUME TypeInv, ConfigInv, LoneInv, ApartInv, UnitInv, SizeInv, ServeInv,
                      Next, ~crossed'
               PROVE  SizeInv'
    BY DEF SizeInv
  <1> USE DEF TypeInv, At, Still, stores
  <1>c. ~crossed  BY CrossedStays
  <1>a. (\A r \in Repos \ spoiled : SizeOf(r)) /\ (\A s \in Slots : EmbedderOf(s))
    BY SizeParts, <1>c
  <1>b. ASSUME \A s \in Slots : EmbedderOf(s)', \A r \in Repos \ spoiled' : SizeOf(r)'
        PROVE  SizeInv'
    BY <1>b DEF SizeInv, SizeOf, EmbedderOf
  <1>1. ASSUME NEW s \in Slots, \A t \in Slots \ {s} : req'[t] = req[t],
               spoiled \subseteq spoiled', snap' = snap, EmbedderOf(s)',
               \A r \in Repos \ spoiled' :
                  \/ size'[r] \in {None, ActiveDimension(snap)}
                  \/ size'[r] = size[r] /\ (Awaits(s, r) => Awaits(s, r)')
        PROVE  SizeInv'
    <2>1. \A t \in Slots \ {s} : EmbedderOf(t)'  BY <1>a, <1>1 DEF EmbedderOf
    <2>2. \A r \in Repos \ spoiled' : SizeOf(r)'
      <3> SUFFICES ASSUME NEW r \in Repos \ spoiled' PROVE SizeOf(r)'  OBVIOUS
      <3>1. CASE size'[r] \in {None, ActiveDimension(snap)}  BY <1>1, <3>1 DEF SizeOf
      <3>2. CASE size'[r] = size[r] /\ (Awaits(s, r) => Awaits(s, r)')
        <4>1. r \in Repos \ spoiled /\ SizeOf(r)  BY <1>a, <1>1
        <4>2. CASE size[r] \in {None, ActiveDimension(snap)}
          BY <1>1, <3>2, <4>2 DEF SizeOf
        <4>3. CASE \E t \in Slots : Awaits(t, r)
          <5>1. PICK t \in Slots : Awaits(t, r)  BY <4>3
          <5>2. Awaits(t, r)'  BY <1>1, <3>2, <5>1 DEF Awaits
          <5> QED BY <5>2 DEF SizeOf
        <4> QED BY <4>1, <4>2, <4>3 DEF SizeOf
      <3> QED BY <1>1, <3>1, <3>2
    <2> QED BY <1>1, <1>b, <2>1, <2>2
  <1>2. ASSUME NEW s \in Slots, Arrival(s) PROVE SizeInv'
    <2>1. PICK q \in Request :
             /\ Arrive(s, q)
             /\ \/ q.pc \in {"read", "ensure"}
                \/ /\ q.pc = "list" /\ q.op = "reembed" /\ EmbeddingsEnabled(snap)
                   /\ q.embedder = RuntimeEmbedder(snap)
      BY <1>2, ArrivalFacts
    <2>2. /\ req'[s] = q /\ ~Busy(s) /\ \A t \in Slots \ {s} : req'[t] = req[t]
          /\ UNCHANGED <<size, snap>> /\ spoiled \subseteq spoiled'
      BY <2>1 DEF Arrive
    <2>3. EmbedderOf(s)'  BY <2>1, <2>2, SelectionFacts DEF EmbedderOf
    <2>4. \A r \in Repos : ~Awaits(s, r)  BY <2>2 DEF Awaits, Busy, Looping
    <2> QED BY <1>1, <2>2, <2>3, <2>4
  <1>3. ASSUME NEW s \in Slots, ReadRow(s) \/ WriteRow(s) \/ Reload(s) PROVE SizeInv'
    <2> PICK old \in Request : old = req[s]  OBVIOUS
    <2>1. req'[s].pc \in {"write", "reload", "swap"} /\ Call(s) /\ old.pc \in LostPcs
      BY <1>3 DEF ReadRow, WriteRow, Reload, Go, Request, Call, LostPcs
    <2>2. UNCHANGED <<size, snap, spoiled>>
      BY <1>3 DEF ReadRow, WriteRow, Reload
    <2>3. EmbedderOf(s)'  BY <2>1 DEF EmbedderOf
    <2>4. \A r \in Repos : ~Awaits(s, r)  BY <2>1 DEF Awaits, Looping, LostPcs
    <2> QED BY <1>1, <2>1, <2>2, <2>3, <2>4, CallFacts
  <1>4. ASSUME NEW s \in Slots, SwapSnapshot(s) PROVE SizeInv'
    <2> PICK old \in Request : old = req[s]  OBVIOUS
    <2>1. /\ old.pc = "swap" /\ Shaped(old) /\ Call(s) /\ Busy(s)
          /\ snap' = old.row /\ UNCHANGED <<size, spoiled>>
      BY <1>4 DEF SwapSnapshot, Call, Busy
    <2>2. \A t \in Slots \ {s} : req'[t] = req[t]  BY <2>1, CallFacts
    <2>3. /\ req'[s].op = old.op
          /\ req'[s].pc = IF old.op = "switch" /\ old.key THEN "repos" ELSE "respond"
      BY <1>4 DEF SwapSnapshot, Request
    <2>4. EmbedderOf(s)'  BY <2>3 DEF EmbedderOf
    <2>5. CASE old.op = "switch" /\ old.key
      <3>1. \A r \in Repos : SizeOf(r)'  BY <2>3, <2>5 DEF SizeOf, Awaits
      <3>2. \A t \in Slots \ {s} : EmbedderOf(t)'
        <4> SUFFICES ASSUME NEW t \in Slots \ {s} PROVE EmbedderOf(t)'  OBVIOUS
        <4>1. Touches(old) = Repos  BY <2>5, TouchesFacts, <2>1
        <4>2. req[t].pc \in {"create", "list", "batch", "embed", "placeholder"} =>
                 req[t].repo \in Repos
          BY AtTouches
        <4>3. req[t].repo \in Repos \ spoiled =>
                 req[t].pc \notin {"create", "list", "batch", "embed", "placeholder"}
          BY <2>1, <4>1, NoOther
        <4> QED BY <2>1, <2>2, <4>2, <4>3 DEF EmbedderOf
      <3> QED BY <1>b, <2>4, <3>1, <3>2
    <2>6. CASE ~(old.op = "switch" /\ old.key)
      <3>1. old.row = asked /\ snap.mode = asked.mode
        BY <1>c, <2>1, <2>6 DEF ConfigInv, WriteProgress
      <3>2. ActiveDimension(snap') = ActiveDimension(snap)
        BY <2>1, <3>1, SelectionFacts
      <3>3. \A t \in Slots \ {s} : EmbedderOf(t)'
        BY <1>a, <2>1, <2>2, <3>2 DEF EmbedderOf
      <3>4. \A r \in Repos \ spoiled' : SizeOf(r)'
        <4> SUFFICES ASSUME NEW r \in Repos \ spoiled' PROVE SizeOf(r)'  OBVIOUS
        <4>1. SizeOf(r)  BY <1>a, <2>1
        <4>2. CASE size[r] \in {None, ActiveDimension(snap)}
          BY <2>1, <3>2, <4>2 DEF SizeOf
        <4>3. ASSUME NEW t \in Slots, Awaits(t, r) PROVE SizeOf(r)'
          <5>1. t # s  BY <2>1, <4>3 DEF Awaits, Looping
          <5>2. Awaits(t, r)'  BY <2>2, <4>3, <5>1 DEF Awaits
          <5> QED BY <5>2 DEF SizeOf
        <4> QED BY <4>1, <4>2, <4>3 DEF SizeOf
      <3> QED BY <1>b, <2>4, <3>3, <3>4
    <2> QED BY <2>5, <2>6
  <1>5. ASSUME NEW s \in Slots, ListRepos(s) PROVE SizeInv'
    <2> PICK old \in Request : old = req[s]  OBVIOUS
    <2>1. /\ old.pc = "repos" /\ old.op = "switch" /\ Call(s) /\ Busy(s)
          /\ Touches(old) = Repos
      BY <1>5, TouchesFacts DEF ListRepos, Call, Busy, Shaped
    <2>2. UNCHANGED <<size, snap, spoiled>>  BY <1>5 DEF ListRepos
    <2>3. /\ req'[s].pc = "next" /\ req'[s].op = "switch"
          /\ req'[s].left = {r \in Repos : unit[r] # None}
      BY <1>5, <2>1 DEF ListRepos, Request
    <2>4. EmbedderOf(s)'  BY <2>3 DEF EmbedderOf
    <2>5. \A r \in Repos \ spoiled' : size[r] = None \/ Awaits(s, r)'
      <3> SUFFICES ASSUME NEW r \in Repos \ spoiled', unit[r] = None PROVE size[r] = None
        BY <2>3 DEF Awaits, Looping
      <3>1. \A t \in Slots : ~(req[t].pc = "rows" /\ req[t].repo = r)
        BY <2>1, <2>2, NoOther
      <3> QED BY <2>2, <3>1 DEF UnitInv
    <2> QED BY <1>1, <2>1, <2>2, <2>4, <2>5, CallFacts
  <1>6. ASSUME NEW s \in Slots, NextRepo(s) PROVE SizeInv'
    <2> PICK old \in Request : old = req[s]  OBVIOUS
    <2>1. old.pc = "next" /\ old.op = "switch" /\ Call(s)
      BY <1>6 DEF NextRepo, Call, Shaped
    <2>2. UNCHANGED <<size, snap, spoiled>>  BY <1>6 DEF NextRepo
    <2>3. CASE old.left = {}
      <3>1. req'[s].pc = "respond"  BY <1>6, <2>3 DEF NextRepo, Go, Request
      <3>2. EmbedderOf(s)'  BY <3>1 DEF EmbedderOf
      <3>3. \A r \in Repos : ~Awaits(s, r)  BY <2>1, <2>3 DEF Awaits
      <3> QED BY <1>1, <2>1, <2>2, <3>2, <3>3, CallFacts
    <2>4. CASE old.left # {}
      <3>1. PICK r \in old.left : req' = [req EXCEPT ![s].pc = "recreate", ![s].repo = r,
                                                     ![s].left = @ \ {r}]
        BY <1>6, <2>4 DEF NextRepo
      <3>2. /\ req'[s].pc = "recreate" /\ req'[s].repo = r /\ req'[s].left = old.left \ {r}
            /\ req'[s].op = "switch"
        BY <2>1, <3>1 DEF Request
      <3>3. EmbedderOf(s)'  BY <3>2 DEF EmbedderOf
      <3>4. \A x \in Repos : Awaits(s, x) => Awaits(s, x)'
        BY <2>1, <3>2 DEF Awaits, Looping
      <3> QED BY <1>1, <2>1, <2>2, <3>3, <3>4, CallFacts
    <2> QED BY <2>3, <2>4
  <1>7. ASSUME NEW s \in Slots, Recreate(s) PROVE SizeInv'
    <2> PICK old \in Request : old = req[s]  OBVIOUS
    <2>1. old.pc = "recreate" /\ Shaped(old) /\ Call(s)  BY <1>7 DEF Recreate, Call
    <2> PICK r \in Repos : r = old.repo  BY <2>1 DEF Shaped
    <2>2. UNCHANGED <<snap, spoiled>>  BY <1>7 DEF Recreate
    <2>3. size' \in {[size EXCEPT ![r] = ActiveDimension(snap)], [size EXCEPT ![r] = None]}
      BY <1>7 DEF Recreate, DropAndCreate, DeleteCollection
    <2>4. /\ req'[s].op = old.op /\ req'[s].left = old.left
          /\ \/ req'[s].pc = "list"
             \/ req'[s].pc = "create" /\ req'[s].embedder = ActiveDimension(snap)
      BY <1>7 DEF Recreate, Go, Request
    <2>5. old.op = "switch"  BY <2>1 DEF Shaped
    <2>6. EmbedderOf(s)'  BY <2>2, <2>4, <2>5 DEF EmbedderOf
    <2>7. size'[r] \in {None, ActiveDimension(snap)} /\ \A x \in Repos \ {r} : size'[x] = size[x]
      BY <2>3
    <2>8. \A x \in Repos \ {r} : Awaits(s, x) => Awaits(s, x)'
      BY <2>1, <2>4, <2>5 DEF Awaits, Looping
    <2> QED BY <1>1, <2>1, <2>2, <2>6, <2>7, <2>8, CallFacts
  <1>8. ASSUME NEW s \in Slots, Create(s) PROVE SizeInv'
    <2> PICK old \in Request : old = req[s]  OBVIOUS
    <2>1. old.pc = "create" /\ Shaped(old) /\ Call(s)  BY <1>8 DEF Create, Call
    <2> PICK r \in Repos : r = old.repo  BY <2>1 DEF Shaped
    <2>2. snap' = snap /\ old.op = "switch"  BY <1>8, <2>1 DEF Create, Shaped
    <2>3. CASE size[r] = None
      <3>1. /\ spoiled' = spoiled /\ size' = [size EXCEPT ![r] = old.embedder]
            /\ req' = [req EXCEPT ![s].pc = "list"]
        BY <1>8, <2>3 DEF Create, EnsureCollection, Go
      <3>2. req'[s].pc = "list" /\ req'[s].op = old.op /\ req'[s].left = old.left
        BY <3>1 DEF Request
      <3>3. EmbedderOf(s)'  BY <2>2, <3>2 DEF EmbedderOf
      <3>4. r \notin spoiled => size'[r] = ActiveDimension(snap)
        BY <1>a, <2>1, <3>1 DEF EmbedderOf
      <3>5. \A x \in Repos \ {r} : size'[x] = size[x] /\ (Awaits(s, x) => Awaits(s, x)')
        BY <2>1, <3>1, <3>2 DEF Awaits, Looping
      <3> QED BY <1>1, <2>1, <2>2, <3>1, <3>3, <3>4, <3>5, CallFacts
    <2>4. CASE size[r] # None
      <3>1. spoiled' = spoiled \union Repos /\ req'[s].pc = "idle"
        BY <1>8, <2>4 DEF Create, Return, Idle
      <3>2. EmbedderOf(s)'  BY <3>1 DEF EmbedderOf
      <3> QED BY <1>1, <2>1, <2>2, <3>1, <3>2, CallFacts
    <2> QED BY <2>3, <2>4
  <1>9. ASSUME NEW s \in Slots, ListUnits(s) PROVE SizeInv'
    <2> PICK old \in Request : old = req[s]  OBVIOUS
    <2> PICK e \in Sizes \union {None} :
               e = IF old.op = "switch" THEN RuntimeEmbedder(snap) ELSE old.embedder
      BY SelectionFacts DEF Request
    <2>1. old.pc = "list" /\ old.op \in {"switch", "reembed"} /\ Call(s)
      BY <1>9 DEF ListUnits, Call, Shaped
    <2>2. UNCHANGED <<size, snap, spoiled>>  BY <1>9 DEF ListUnits
    <2>3. /\ req'[s].op = old.op /\ req'[s].left = old.left /\ req'[s].embedder = e
          /\ req'[s].repo = old.repo
          /\ \/ req'[s].pc = "batch" /\ e # None
             \/ req'[s].pc = IF old.op = "switch" THEN "next" ELSE "respond"
      BY <1>9 DEF ListUnits, Request
    <2>4. EmbedderOf(s)'
      <3>1. CASE old.op = "switch"  BY <2>2, <2>3, <3>1, SelectionFacts DEF EmbedderOf
      <3>2. CASE old.op = "reembed"  BY <1>a, <2>1, <2>2, <2>3, <3>2 DEF EmbedderOf
      <3> QED BY <2>1, <3>1, <3>2
    <2>5. \A x \in Repos : Awaits(s, x) => Awaits(s, x)'
      BY <2>1, <2>3 DEF Awaits, Looping
    <2> QED BY <1>1, <2>1, <2>2, <2>4, <2>5, CallFacts
  <1>10. ASSUME NEW s \in Slots, EnsureSized(s) PROVE SizeInv'
    <2> PICK old \in Request : old = req[s]  OBVIOUS
    <2>1. old.pc = "ensure" /\ old.op = "ingest" /\ Call(s)
      BY <1>10 DEF EnsureSized, Call, Shaped
    <2> PICK r \in Repos : r = old.repo  BY <2>1, AtTouches
    <2>2. UNCHANGED <<snap, spoiled>>  BY <1>10 DEF EnsureSized
    <2>3. size' = [size EXCEPT ![r] = IF @ = None THEN ActiveDimension(snap) ELSE @]
      BY <1>10 DEF EnsureSized, EnsureCollection
    <2>4. req'[s].pc = "rows"  BY <1>10 DEF EnsureSized, Go, Request
    <2>5. EmbedderOf(s)'  BY <2>4 DEF EmbedderOf
    <2>6. \A x \in Repos : ~Awaits(s, x)  BY <2>1 DEF Awaits
    <2>7. \A x \in Repos : size'[x] = size[x] \/ size'[x] = ActiveDimension(snap)  BY <2>3
    <2> QED BY <1>1, <2>1, <2>2, <2>5, <2>6, <2>7, CallFacts
  <1>11. ASSUME NEW s \in Slots, UpsertRows(s) PROVE SizeInv'
    <2> PICK old \in Request : old = req[s]  OBVIOUS
    <2>1. old.pc = "rows" /\ old.op = "ingest" /\ Call(s)
      BY <1>11 DEF UpsertRows, Call, Shaped
    <2>2. UNCHANGED <<size, snap, spoiled>>  BY <1>11 DEF UpsertRows
    <2>3. /\ req'[s].pc \in {"placeholder", "respond"}
          /\ req'[s].embedder = RuntimeEmbedder(snap)
      BY <1>11 DEF UpsertRows, Request
    <2>4. EmbedderOf(s)'  BY <2>2, <2>3, SelectionFacts DEF EmbedderOf
    <2>5. \A x \in Repos : ~Awaits(s, x)  BY <2>1 DEF Awaits
    <2> QED BY <1>1, <2>1, <2>2, <2>4, <2>5, CallFacts
  <1>12. ASSUME NEW s \in Slots, UpsertPlaceholder(s) PROVE SizeInv'
    <2> PICK old \in Request : old = req[s]  OBVIOUS
    <2>1. old.pc = "placeholder" /\ old.op = "ingest" /\ Call(s)
      BY <1>12 DEF UpsertPlaceholder, Call, Shaped
    <2>2. UNCHANGED <<size, snap>> /\ spoiled \subseteq spoiled'
      BY <1>12 DEF UpsertPlaceholder, Spoil
    <2>3. PICK pc \in {"respond", "batch"} :
             /\ pc = "batch" => old.embedder # None
             /\ req' = [req EXCEPT ![s].pc = pc]
      BY <1>12 DEF UpsertPlaceholder, Go
    <2>4. req'[s].pc = pc /\ req'[s].embedder = old.embedder /\ req'[s].repo = old.repo
      BY <2>3 DEF Request
    <2>5. EmbedderOf(s)'  BY <1>a, <2>1, <2>2, <2>3, <2>4 DEF EmbedderOf
    <2>6. \A x \in Repos : ~Awaits(s, x)  BY <2>1 DEF Awaits
    <2> QED BY <1>1, <2>1, <2>2, <2>5, <2>6, CallFacts
  <1>13. ASSUME NEW s \in Slots, EnsureForBatch(s) PROVE SizeInv'
    <2> PICK old \in Request : old = req[s]  OBVIOUS
    <2>1. old.pc = "batch" /\ Call(s)  BY <1>13 DEF EnsureForBatch, Call
    <2> PICK r \in Repos : r = old.repo  BY <2>1, AtTouches
    <2>2. UNCHANGED <<snap, spoiled>>  BY <1>13 DEF EnsureForBatch
    <2>3. size' = [size EXCEPT ![r] = IF @ = None THEN old.embedder ELSE @]
      BY <1>13 DEF EnsureForBatch, EnsureCollection
    <2>4. /\ req'[s].pc = "embed" /\ req'[s].op = old.op /\ req'[s].repo = r
          /\ req'[s].left = old.left /\ req'[s].embedder = old.embedder
      BY <1>13 DEF EnsureForBatch, Go, Request
    <2>5. EmbedderOf(s)'  BY <1>a, <2>1, <2>2, <2>4 DEF EmbedderOf
    <2>6. r \notin spoiled => size'[r] = size[r] \/ size'[r] = ActiveDimension(snap)
      BY <1>a, <2>1, <2>3 DEF EmbedderOf
    <2>7. \A x \in Repos : /\ x # r => size'[x] = size[x]
                           /\ Awaits(s, x) => Awaits(s, x)'
      BY <2>1, <2>3, <2>4 DEF Awaits, Looping
    <2> QED BY <1>1, <2>1, <2>2, <2>5, <2>6, <2>7, CallFacts
  <1>14. ASSUME NEW s \in Slots, WriteBatch(s) \/ BatchFails(s) PROVE SizeInv'
    <2> PICK old \in Request : old = req[s]  OBVIOUS
    <2>1. old.pc = "embed" /\ Call(s)  BY <1>14 DEF WriteBatch, BatchFails, Call
    <2>2. UNCHANGED <<size, snap>> /\ spoiled \subseteq spoiled'
      BY <1>14 DEF WriteBatch, BatchFails, Spoil
    <2>3. /\ req'[s].pc = IF old.op = "switch" THEN "next" ELSE "respond"
          /\ req'[s].op = old.op /\ req'[s].left = old.left
      <3>1. CASE WriteBatch(s)  BY <3>1 DEF WriteBatch, AfterBatch, Request
      <3>2. CASE BatchFails(s)  BY <3>2 DEF BatchFails, AfterBatch, Request
      <3> QED BY <1>14, <3>1, <3>2
    <2>4. EmbedderOf(s)'  BY <2>3 DEF EmbedderOf
    <2>5. \A x \in Repos : Awaits(s, x) => Awaits(s, x)'
      BY <2>1, <2>3 DEF Awaits, Looping
    <2> QED BY <1>1, <2>1, <2>2, <2>4, <2>5, CallFacts
  <1>15. ASSUME NEW s \in Slots, Respond(s) PROVE SizeInv'
    <2> PICK old \in Request : old = req[s]  OBVIOUS
    <2>1. /\ UNCHANGED <<size, unit, snap>> /\ old.pc = "respond" /\ Call(s)
          /\ req'[s].pc = "idle"
      BY <1>15 DEF Respond, Call, Return, Idle
    <2>2. EmbedderOf(s)'  BY <2>1 DEF EmbedderOf
    <2>3. \A r \in Repos : ~Awaits(s, r)  BY <2>1 DEF Awaits, Looping
    <2>4. CASE spoiled \subseteq spoiled'
      BY <1>1, <2>1, <2>2, <2>3, <2>4, CallFacts
    <2>5. CASE ~(spoiled \subseteq spoiled')
      <3>1. /\ s \in lone /\ old.op = "switch" /\ old.key /\ ~old.failed
            /\ spoiled' = {r \in spoiled : unit[r] = None}
        BY <1>15, <2>5 DEF Respond
      <3>2. \A t \in Slots \ {s} : req'[t] = req[t] /\ req[t].pc = "idle"
        BY <2>1, <3>1, CallFacts DEF LoneInv, Busy
      <3>3. \A t \in Slots : EmbedderOf(t)'  BY <2>1, <3>2 DEF EmbedderOf
      <3>4. \A r \in Repos : Reindexed(r)
        BY <2>1, <3>1 DEF ServeInv, SwitchProgress
      <3>5. \A r \in Repos \ spoiled' : SizeOf(r)'
        <4> SUFFICES ASSUME NEW r \in Repos \ spoiled' PROVE SizeOf(r)'  OBVIOUS
        <4>1. CASE r \in spoiled
          BY <2>1, <3>1, <3>4, <4>1 DEF Reindexed, SizeOf
        <4>2. CASE r \notin spoiled
          <5>1. \A t \in Slots : ~Awaits(t, r)  BY <2>3, <3>2 DEF Awaits, Looping
          <5> QED BY <1>a, <2>1, <4>2, <5>1 DEF SizeOf
        <4> QED BY <4>1, <4>2
      <3> QED BY <1>b, <3>3, <3>5
    <2> QED BY <2>4, <2>5
  <1>16. ASSUME NEW s \in Slots, Fail(s) PROVE SizeInv'
    <2> PICK old \in Request : old = req[s]  OBVIOUS
    <2>1. /\ UNCHANGED <<size, snap>> /\ req'[s].pc = "idle"
          /\ spoiled' = spoiled \union Touches(old)
          /\ \A t \in Slots \ {s} : req'[t] = req[t]
      BY <1>16 DEF Fail, Return, Idle
    <2>2. EmbedderOf(s)'  BY <2>1 DEF EmbedderOf
    <2>3. \A r \in Repos \ spoiled' : ~Awaits(s, r)
      BY <2>1, TouchesFacts DEF Awaits
    <2> QED BY <1>1, <2>1, <2>2, <2>3
  <1>17. CASE Restart
    <2>1. /\ size' = size /\ snap' = cfg /\ \A s \in Slots : req'[s].pc = "idle"
          /\ \A s \in Slots : ~Lost(req[s])
          /\ spoiled' = spoiled \union UNION {Touches(req[s]) : s \in Slots}
      BY <1>17 DEF Restart, Idle
    <2>2. snap' = snap  BY <1>c, <2>1 DEF ConfigInv
    <2>3. \A s \in Slots : EmbedderOf(s)'  BY <2>1 DEF EmbedderOf
    <2>4. \A r \in Repos \ spoiled', s \in Slots : ~Awaits(s, r)
      <3> SUFFICES ASSUME NEW r \in Repos \ spoiled', NEW s \in Slots, Awaits(s, r) PROVE FALSE
        OBVIOUS
      <3> PICK old \in Request : old = req[s]  OBVIOUS
      <3>1. Touches(old) = Repos  BY TouchesFacts DEF Awaits
      <3> QED BY <2>1, <3>1
    <2>5. \A r \in Repos \ spoiled' : SizeOf(r)'  BY <1>a, <2>1, <2>2, <2>4 DEF SizeOf
    <2> QED BY <1>b, <2>3, <2>5
  <1> QED BY <1>2, <1>3, <1>4, <1>5, <1>6, <1>7, <1>8, <1>9, <1>10, <1>11, <1>12, <1>13,
            <1>14, <1>15, <1>16, <1>17 DEF Next, Call

---------------------------------------------------------------------------
(* What an undisturbed switch or reembed leaves behind.                    *)

Served(s) ==
    ~req[s].failed =>
      /\ req[s].op = "switch" /\ req[s].key => SwitchProgress(s)
      /\ req[s].op = "reembed" => ReembedProgress(s)

\* The steps of a request nothing overlapped take its work one step on.
LEMMA ServedStep ==
    ASSUME TypeInv, NEW s \in Slots, Served(s), UnitListed(s), Call(s), s \in lone'
    PROVE  Served(s)'
  <1> USE DEF TypeInv, At, Still, stores
  <1> PICK old \in Request : old = req[s]  OBVIOUS
  <1>0. Shaped(old)  OBVIOUS
  <1>1. CASE ReadRow(s) \/ WriteRow(s) \/ Reload(s) \/ SwapSnapshot(s)
    <2>1. old.op \in ConfigOps  BY <1>0, <1>1 DEF ReadRow, WriteRow, Reload, SwapSnapshot, Shaped
    <2>2. /\ req'[s].op = old.op
          /\ \/ req'[s].pc \in {"write", "reload", "swap", "repos"}
             \/ req'[s].pc = "respond" /\ ~(req'[s].op = "switch" /\ req'[s].key)
      <3>1. CASE ReadRow(s)  BY <3>1 DEF ReadRow, Request
      <3>2. CASE WriteRow(s)  BY <3>2 DEF WriteRow, Go, Request
      <3>3. CASE Reload(s)  BY <3>3 DEF Reload, Request
      <3>4. CASE SwapSnapshot(s)  BY <3>4 DEF SwapSnapshot, Request
      <3> QED BY <1>1, <3>1, <3>2, <3>3, <3>4
    <2> QED BY <2>1, <2>2 DEF Served, SwitchProgress, Looping, ConfigOps
  <1>2. CASE ListRepos(s)
    <2>1. UNCHANGED <<snap, stores>>  BY <1>2 DEF ListRepos
    <2>2. /\ req'[s].pc = "next" /\ req'[s].op = old.op
          /\ req'[s].left = {r \in Repos : unit[r] # None}
      BY <1>2 DEF ListRepos, Request
    <2>3. \A r \in Repos \ req'[s].left : unit[r] = None  BY <2>2
    <2>4. old.op = "switch"  BY <1>0, <1>2 DEF ListRepos, Shaped
    <2>5. SwitchProgress(s)'  BY <2>1, <2>2, <2>3 DEF SwitchProgress, Looping, Reindexed
    <2> QED BY <2>2, <2>4, <2>5 DEF Served
  <1>3. CASE NextRepo(s)
    <2>1. UNCHANGED <<snap, stores>> /\ old.pc = "next" /\ old.op = "switch"
      BY <1>0, <1>3 DEF NextRepo, Shaped
    <2>2. Reindexed(old.repo)' = Reindexed(old.repo) /\ \A r \in Repos : Reindexed(r)' = Reindexed(r)
      BY <2>1 DEF Reindexed, Searchable
    <2>3. CASE old.left = {}
      <3>1. /\ req'[s].pc = "respond" /\ req'[s].op = old.op /\ req'[s].key = old.key
            /\ req'[s].failed = old.failed
        BY <1>3, <2>3 DEF NextRepo, Go, Request
      <3>2. ~old.failed /\ old.key => \A r \in Repos : Reindexed(r)
        BY <2>1, <2>3 DEF Served, SwitchProgress
      <3> QED BY <2>1, <2>2, <3>1, <3>2 DEF Served, SwitchProgress, Looping
    <2>4. CASE old.left # {}
      <3>1. PICK r \in old.left : req' = [req EXCEPT ![s].pc = "recreate", ![s].repo = r,
                                                     ![s].left = @ \ {r}]
        BY <1>3, <2>4 DEF NextRepo
      <3>2. /\ req'[s].pc = "recreate" /\ req'[s].repo = r /\ req'[s].left = old.left \ {r}
            /\ req'[s].op = old.op /\ req'[s].key = old.key /\ req'[s].failed = old.failed
        BY <3>1 DEF Request
      <3>3. ~old.failed /\ old.key => \A x \in Repos \ old.left : Reindexed(x)
        BY <2>1 DEF Served, SwitchProgress
      <3> QED BY <2>1, <2>2, <3>2, <3>3 DEF Served, SwitchProgress, Looping
    <2> QED BY <2>3, <2>4
  <1>4. CASE Recreate(s)
    <2>1. old.pc = "recreate" /\ old.op = "switch"  BY <1>0, <1>4 DEF Recreate, Shaped
    <2> PICK r \in Repos : r = old.repo  BY <1>0, <2>1 DEF Shaped
    <2>2. UNCHANGED <<snap, unit>>  BY <1>4 DEF Recreate
    <2>3. point' = [point EXCEPT ![r] = None] /\ \A x \in Repos \ {r} : size'[x] = size[x]
      BY <1>4 DEF Recreate, DropAndCreate, DeleteCollection
    <2>4. /\ req'[s].repo = r /\ req'[s].left = old.left /\ req'[s].op = old.op
          /\ req'[s].key = old.key /\ req'[s].failed = old.failed
          /\ \/ req'[s].pc = "list" /\ size'[r] = ActiveDimension(snap)
             \/ /\ req'[s].pc = "create" /\ size'[r] = None
                /\ req'[s].embedder = ActiveDimension(snap)
      BY <1>4 DEF Recreate, DropAndCreate, DeleteCollection, Go, Request
    <2>5. ~old.failed /\ old.key =>
             \A x \in Repos \ (old.left \union {r}) : Reindexed(x)
      BY <2>1 DEF Served, SwitchProgress, Looping
    <2>6. \A x \in Repos \ {r} : Reindexed(x)' = Reindexed(x)
      BY <2>2, <2>3 DEF Reindexed, Searchable
    <2> QED BY <2>1, <2>2, <2>3, <2>4, <2>5, <2>6 DEF Served, SwitchProgress, Looping
  <1>5. CASE Create(s)
    <2>1. old.pc = "create" /\ old.op = "switch"  BY <1>0, <1>5 DEF Create, Shaped
    <2> PICK r \in Repos : r = old.repo  BY <1>0, <2>1 DEF Shaped
    <2>2. UNCHANGED <<snap, unit, point>>  BY <1>5 DEF Create
    <2>3. CASE size[r] # None
      <3>1. lone' = lone \ {s}  BY <1>5, <2>3 DEF Create
      <3> QED BY <3>1
    <2>4. CASE size[r] = None
      <3>1. /\ size' = [size EXCEPT ![r] = old.embedder]
            /\ req' = [req EXCEPT ![s].pc = "list"]
        BY <1>5, <2>4 DEF Create, EnsureCollection, Go
      <3>2. /\ req'[s].pc = "list" /\ req'[s].repo = r /\ req'[s].left = old.left
            /\ req'[s].op = old.op /\ req'[s].key = old.key /\ req'[s].failed = old.failed
        BY <3>1 DEF Request
      <3>3. ~old.failed /\ old.key =>
               /\ \A x \in Repos \ (old.left \union {r}) : Reindexed(x)
               /\ point[r] = None /\ old.embedder = ActiveDimension(snap)
        BY <2>1 DEF Served, SwitchProgress, Looping
      <3>4. \A x \in Repos \ {r} : Reindexed(x)' = Reindexed(x)
        BY <2>2, <3>1 DEF Reindexed, Searchable
      <3> QED BY <2>1, <2>2, <3>1, <3>2, <3>3, <3>4 DEF Served, SwitchProgress, Looping
    <2> QED BY <2>3, <2>4
  <1>6. CASE ListUnits(s)
    <2> PICK e \in Sizes \union {None} :
               e = IF old.op = "switch" THEN RuntimeEmbedder(snap) ELSE old.embedder
      BY SelectionFacts DEF Request
    <2>1. old.pc = "list" /\ old.op \in {"switch", "reembed"}
      BY <1>0, <1>6 DEF ListUnits, Shaped
    <2> PICK r \in Repos : r = old.repo  BY <1>0, <2>1 DEF Shaped
    <2>2. UNCHANGED <<snap, stores>>  BY <1>6 DEF ListUnits
    <2>3. /\ req'[s].op = old.op /\ req'[s].left = old.left /\ req'[s].embedder = e
          /\ req'[s].repo = r /\ req'[s].text = unit[r]
          /\ req'[s].key = old.key /\ req'[s].failed = old.failed
          /\ req'[s].pc = IF e # None /\ unit[r] # None THEN "batch"
                          ELSE IF old.op = "switch" THEN "next" ELSE "respond"
      BY <1>6 DEF ListUnits, Request
    <2>4. \A x \in Repos : Reindexed(x)' = Reindexed(x)
      BY <2>2 DEF Reindexed, Searchable
    <2>5. CASE old.op = "switch"
      <3>1. ~old.failed /\ old.key =>
               /\ \A x \in Repos \ (old.left \union {r}) : Reindexed(x)
               /\ size[r] = ActiveDimension(snap) /\ point[r] = None
        BY <2>1, <2>5 DEF Served, SwitchProgress, Looping
      <3>2. CASE req'[s].pc = "batch"
        <4>1. EmbeddingsEnabled(snap) /\ e = ActiveDimension(snap)
          BY <2>3, <2>5, <3>2, SelectionFacts
        <4> QED BY <2>2, <2>3, <2>4, <2>5, <3>1, <3>2, <4>1
            DEF Served, SwitchProgress, Looping
      <3>3. CASE req'[s].pc = "next"
        <4>1. ~EmbeddingsEnabled(snap) \/ unit[r] = None
          BY <2>3, <2>5, <3>3, SelectionFacts, NoneFacts
        <4>2. ~old.failed /\ old.key => Reindexed(r)
          BY <3>1, <4>1 DEF Reindexed
        <4> QED BY <2>3, <2>4, <2>5, <3>1, <3>3, <4>2 DEF Served, SwitchProgress, Looping
      <3> QED BY <2>3, <2>5, <3>2, <3>3
    <2>6. CASE old.op = "reembed"
      <3>1. ~old.failed => EmbeddingsEnabled(snap) /\ old.embedder = ActiveDimension(snap)
        BY <2>1, <2>6 DEF Served, ReembedProgress
      <3>2. ActiveDimension(snap) # None  BY SelectionFacts, NoneFacts
      <3> QED BY <2>2, <2>3, <2>6, <3>1, <3>2 DEF Served, ReembedProgress
    <2> QED BY <2>1, <2>5, <2>6
  <1>7. CASE EnsureSized(s) \/ UpsertRows(s) \/ UpsertPlaceholder(s)
    <2>1. old.op = "ingest"
      BY <1>0, <1>7 DEF EnsureSized, UpsertRows, UpsertPlaceholder, Shaped
    <2>2. req'[s].op = "ingest"
      <3>1. req'[s].pc # "idle"
        BY CallFacts
      <3> QED BY <2>1, <3>1, CallFacts
    <2> QED BY <2>2 DEF Served
  <1>8. CASE EnsureForBatch(s)
    <2>1. old.pc = "batch"  BY <1>8 DEF EnsureForBatch
    <2> PICK r \in Repos : r = old.repo  BY <1>0, <2>1 DEF Shaped
    <2>2. UNCHANGED <<snap, unit, point>>  BY <1>8 DEF EnsureForBatch
    <2>3. size' = [size EXCEPT ![r] = IF @ = None THEN old.embedder ELSE @]
      BY <1>8 DEF EnsureForBatch, EnsureCollection
    <2>4. /\ req'[s].pc = "embed" /\ req'[s].op = old.op /\ req'[s].left = old.left
          /\ req'[s].embedder = old.embedder /\ req'[s].repo = r /\ req'[s].text = old.text
          /\ req'[s].key = old.key /\ req'[s].failed = old.failed
          /\ sizeCache'[r] = old.embedder
      BY <1>8 DEF EnsureForBatch, EnsureCollection, Go, Request
    <2>5. ASSUME ~old.failed, old.op = "switch", old.key PROVE SwitchProgress(s)'
      <3>1. /\ \A x \in Repos \ (old.left \union {r}) : Reindexed(x)
            /\ size[r] = ActiveDimension(snap) /\ point[r] = None
            /\ EmbeddingsEnabled(snap) /\ old.embedder = ActiveDimension(snap)
            /\ old.text = unit[r]
        BY <2>1, <2>5 DEF Served, SwitchProgress, Looping
      <3>2. size' = size
        <4>1. size[r] # None  BY <3>1, SelectionFacts, NoneFacts
        <4> QED BY <2>3, <4>1
      <3>3. \A x \in Repos : Reindexed(x)' = Reindexed(x)
        BY <2>2, <3>2 DEF Reindexed, Searchable
      <3> QED BY <2>2, <2>4, <3>1, <3>2, <3>3 DEF SwitchProgress, Looping
    <2>6. ASSUME ~old.failed, old.op = "reembed" PROVE ReembedProgress(s)'
      BY <2>1, <2>2, <2>4, <2>6 DEF Served, ReembedProgress
    <2> QED BY <2>4, <2>5, <2>6 DEF Served
  <1>9. CASE WriteBatch(s)
    <2>1. old.pc = "embed"  BY <1>9 DEF WriteBatch
    <2> PICK r \in Repos : r = old.repo  BY <1>0, <2>1 DEF Shaped
    <2>2. UNCHANGED <<snap, unit, size>>  BY <1>9 DEF WriteBatch
    <2>3. point' = [point EXCEPT ![r] = [text |-> old.text, size |-> BatchSize(old),
                                         vector |-> old.text \notin Blank]]
      BY <1>9 DEF WriteBatch, UpsertBatch, Upsert
    <2>7. ASSUME sizeCache[r] = old.embedder, old.embedder = ActiveDimension(snap)
          PROVE  BatchSize(old) = ActiveDimension(snap)
      <3>1. sizeCache[r] # None  BY <2>7, SelectionFacts, NoneFacts
      <3> QED BY <2>7, <3>1 DEF BatchSize, PlaceholderSize
    <2>4. /\ req'[s].pc = (IF old.op = "switch" THEN "next" ELSE "respond")
          /\ req'[s].op = old.op /\ req'[s].left = old.left /\ req'[s].repo = r
          /\ req'[s].key = old.key /\ req'[s].failed = old.failed
      BY <1>9 DEF WriteBatch, AfterBatch, Request
    <2>5. ASSUME ~old.failed, old.op = "switch", old.key PROVE SwitchProgress(s)'
      <3>1. /\ \A x \in Repos \ (old.left \union {r}) : Reindexed(x)
            /\ size[r] = ActiveDimension(snap)
            /\ EmbeddingsEnabled(snap) /\ BatchSize(old) = ActiveDimension(snap)
            /\ old.text = unit[r]
        BY <2>1, <2>5, <2>7 DEF Served, SwitchProgress, Looping, At
      <3>2. Reindexed(r)'
        BY <2>2, <2>3, <3>1 DEF Reindexed, Searchable
      <3>3. \A x \in Repos \ {r} : Reindexed(x)' = Reindexed(x)
        BY <2>2, <2>3 DEF Reindexed, Searchable
      <3> QED BY <2>4, <2>5, <3>1, <3>2, <3>3 DEF SwitchProgress, Looping
    <2>6. ASSUME ~old.failed, old.op = "reembed" PROVE ReembedProgress(s)'
      <3>1. BatchSize(old) = ActiveDimension(snap) /\ old.text = unit[r]
        BY <2>1, <2>6, <2>7 DEF Served, ReembedProgress, At
      <3>2. Searchable(r)'  BY <2>2, <2>3, <3>1 DEF Searchable
      <3> QED BY <2>4, <2>6, <3>2 DEF ReembedProgress
    <2> QED BY <2>4, <2>5, <2>6 DEF Served
  <1>10. CASE BatchFails(s)
    <2>1. req'[s].failed  BY <1>10 DEF BatchFails, AfterBatch, Request
    <2> QED BY <2>1 DEF Served
  <1>11. CASE Respond(s)
    <2>1. lone' = lone \ {s}  BY <1>11 DEF Respond
    <2> QED BY <2>1
  <1> QED BY <1>1, <1>2, <1>3, <1>4, <1>5, <1>6, <1>7, <1>8, <1>9, <1>10, <1>11 DEF Call

\* While nothing overlaps it, what a switch or a reembed has done stands.
LEMMA ServeStep == TypeInv /\ LoneInv /\ UnitInv /\ ServeInv /\ Next => ServeInv'
  <1> SUFFICES ASSUME TypeInv, LoneInv, UnitInv, ServeInv, Next, NEW s \in lone', s \in Slots
               PROVE  Served(s)'
    BY TypeStep DEF ServeInv, Served, TypeInv
  <1> USE DEF TypeInv, Busy
  <1>1. ASSUME NEW t \in Slots, Arrival(t) PROVE Served(s)'
    <2>1. PICK q \in Request :
             /\ Arrive(t, q) /\ Shaped(q) /\ ~q.failed /\ inFlight' \subseteq Repos
             /\ \/ /\ q.op \in ConfigOps /\ q.pc = "read"
                   /\ asked' = Merged(q, asked)
                   /\ q.op = "switch" => q.row = snap
                \/ q.op = "ingest" /\ q.pc = "ensure" /\ asked' = asked
                \/ /\ q.op = "reembed" /\ q.pc = "list" /\ asked' = asked
                   /\ EmbeddingsEnabled(snap) /\ q.embedder = RuntimeEmbedder(snap)
      BY <1>1, ArrivalFacts
    <2>2. s = t /\ req'[s] = q /\ snap' = snap  BY <2>1 DEF Arrive
    <2>3. q.op = "switch" => SwitchProgress(s)'
      BY <2>1, <2>2 DEF SwitchProgress, Looping, At
    <2>4. q.op = "reembed" => ReembedProgress(s)'
      BY <2>1, <2>2, SelectionFacts DEF ReembedProgress, At, ConfigOps
    <2> QED BY <2>2, <2>3, <2>4 DEF Served
  <1>2. ASSUME NEW t \in Slots, Call(t) PROVE Served(s)'
    <2>1. s \in lone /\ Busy(t)  BY <1>2, CallFacts
    <2>2. s = t  BY <2>1 DEF LoneInv
    <2>3. Served(s) /\ UnitListed(s)  BY <2>1, UnitParts DEF ServeInv, Served
    <2> QED BY <1>2, <2>2, <2>3, ServedStep
  <1>3. ASSUME NEW t \in Slots, Fail(t) PROVE Served(s)'
    <2>1. s \in lone /\ s # t /\ Busy(t)  BY <1>3 DEF Fail
    <2> QED BY <2>1 DEF LoneInv
  <1>4. CASE Restart  BY <1>4 DEF Restart
  <1> QED BY <1>1, <1>2, <1>3, <1>4 DEF Next

---------------------------------------------------------------------------
(* The theorems.                                                           *)

\* The invariant holds when the program starts.
LEMMA InitInv == Init => Inv
  <1> SUFFICES ASSUME Init PROVE Inv  OBVIOUS
  <1>1. TypeInv  BY InitTyped
  <1>2. /\ \A s \in Slots : req[s] = Idle /\ req[s].pc = "idle"
        /\ lone = {} /\ ~crossed /\ spoiled = {} /\ snap = cfg /\ asked = cfg
    BY DEF Init, Idle
  <1>3. ConfigInv
    BY <1>2 DEF ConfigInv, WriteProgress, Writers, Busy, At
  <1>4. LoneInv /\ ServeInv  BY <1>2 DEF LoneInv, ServeInv
  <1>5. ApartInv  BY <1>2 DEF ApartInv, Busy
  <1>6. UnitInv /\ TextInv
    BY <1>2, NoneFacts DEF UnitInv, TextInv, Looping, Init
  <1>7. SizeInv
    BY <1>2 DEF SizeInv, At, Init
  <1> QED BY <1>1, <1>3, <1>4, <1>5, <1>6, <1>7 DEF Inv

\* Every step of the program keeps it.
LEMMA StepInv == Inv /\ [Next]_vars => Inv'
  <1> SUFFICES ASSUME Inv, [Next]_vars PROVE Inv'  OBVIOUS
  <1>1. CASE Next
    BY <1>1, TypeStep, ConfigStep, LoneStep, ApartStep, UnitStep, TextStep, SizeStep, ServeStep
    DEF Inv
  <1>2. CASE UNCHANGED vars
    <2> USE <1>2 DEF Inv, vars, stores, ghosts
    <2>1. TypeInv'  BY DEF TypeInv
    <2>2. ConfigInv'  BY DEF ConfigInv, WriteProgress, Writers, Busy, At
    <2>3. LoneInv' /\ ApartInv'  BY DEF LoneInv, ApartInv, Busy
    <2>4. UnitInv' /\ TextInv'  BY DEF UnitInv, TextInv, At
    <2>5. SizeInv'  BY DEF SizeInv, Awaits, At
    <2>6. ServeInv'
      BY DEF ServeInv, SwitchProgress, ReembedProgress, Reindexed, Searchable, At
    <2> QED BY <2>1, <2>2, <2>3, <2>4, <2>5, <2>6
  <1> QED BY <1>1, <1>2

\* The invariant always holds.
THEOREM ModeInvariant == Spec => []Inv
  BY InitInv, StepInv, PTL DEF Spec

\* A mode switch that changed the mode, that nothing overlapped and in which
\* no batch failed, leaves every unit with something to embed searchable in
\* the new mode, and of the others the payload.
THEOREM SwitchesServe == Spec => []SwitchServes
  <1>1. Inv => SwitchServes
    <2> SUFFICES ASSUME Inv, NEW s \in lone, At(s, "respond"), req[s].op = "switch",
                        req[s].key, ~req[s].failed, EmbeddingsEnabled(snap),
                        NEW r \in Repos, unit[r] # None
                 PROVE  Searchable(r)
      BY DEF SwitchServes
    <2>1. SwitchProgress(s)  BY DEF Inv, ServeInv
    <2>2. Reindexed(r)  BY <2>1 DEF SwitchProgress
    <2> QED BY <2>2 DEF Reindexed
  <1> QED BY <1>1, ModeInvariant, PTL

\* What a reembed nothing overlapped counts as embedded is searchable, if it
\* has anything to embed.
THEOREM ReembedsServe == Spec => []ReembedServes
  <1>1. Inv => ReembedServes
    <2> SUFFICES ASSUME Inv, NEW s \in lone, At(s, "respond"), req[s].op = "reembed",
                        ~req[s].failed, unit[req[s].repo] # None
                 PROVE  Searchable(req[s].repo)
      BY DEF ReembedServes
    <2>1. ReembedProgress(s)  BY DEF Inv, ServeInv
    <2> QED BY <2>1 DEF ReembedProgress
  <1> QED BY <1>1, ModeInvariant, PTL

\* Between requests the collections of undisturbed repositories have the size
\* of the active mode.
THEOREM SizesFollow == Spec => []SizesFollowMode
  <1>1. Inv => SizesFollowMode
    <2> SUFFICES ASSUME Inv, Quiet, ~crossed, NEW r \in Repos \ spoiled
                 PROVE  size[r] \in {None, ActiveDimension(snap)}
      BY DEF SizesFollowMode
    <2>1. \A s \in Slots : ~Awaits(s, r)  BY DEF Quiet, Busy, Awaits, At, Looping
    <2> QED BY <2>1 DEF Inv, SizeInv
  <1> QED BY <1>1, ModeInvariant, PTL

\* Between requests the points of undisturbed repositories hold the text of
\* their rows.
THEOREM PointsFollow == Spec => []PointsFollowRows
  <1>1. Inv => PointsFollowRows
    BY DEF Inv, TextInv, PointsFollowRows, Quiet, Busy, At
  <1> QED BY <1>1, ModeInvariant, PTL

\* Between requests row and snapshot hold what was last asked for, unless
\* configuration writes overlapped or broke off.
THEOREM ConfigStays == Spec => []ConfigKept
  <1>1. Inv => ConfigKept
    <2> SUFFICES ASSUME Inv, Quiet, ~crossed PROVE cfg = asked /\ snap = cfg
      BY DEF ConfigKept
    <2>1. \A s \in Slots : ~Lost(req[s])  BY DEF Quiet, Busy, Lost
    <2> QED BY <2>1 DEF Inv, ConfigInv
  <1> QED BY <1>1, ModeInvariant, PTL

=============================================================================
