-------------------------- MODULE IngestionProofs --------------------------
(* What holds of the ingestion of a repository of any size, for any number  *)
(* of runs and any trees, proved from the assumption on the constants only: *)
(* types, the mirror of the graph store and the links of a run, then what   *)
(* the stores show of each other and to their readers, the table at one     *)
(* version of each file, the three stores in agreement as long as nothing   *)
(* went wrong, vectors kept by a re-ingest and restored by a reembed.       *)
EXTENDS Ingestion, TLAPS

USE DEF calls

FileStage == {"delete_units", "delete_graph", "wipe_graph", "delete_points",
              "upsert_units", "upsert_nodes", "placeholders", "embed"}

\* A run works on files it has parsed; it has one at hand in every file stage
\* and none left in its edge pass and once it has returned.
Progress ==
    \A r \in Runs :
        /\ todo[r] \subseteq Parsed(r)
        /\ pc[r] \in FileStage => todo[r] # {}
        /\ pc[r] \in {"idle", "insert_edges", "returned"} => todo[r] = {}

\* What a wipe has read, and is about to delete, are nodes of its file.
DoomedHere ==
    \A r \in Runs :
        pc[r] = "wipe_graph" => \A u \in doomed[r] : u[1] = File(r)

TypeInv == TypeOK /\ Progress /\ DoomedHere

\* The current file of a run that has one is the first it has left.
LEMMA FileInTodo ==
    ASSUME TypeOK, NEW r \in Runs, todo[r] # {}
    PROVE  File(r) \in todo[r] /\ File(r) \in Files
<1>1. todo[r] \in SUBSET Files
  BY DEF TypeOK
<1>2. \E f \in todo[r] : IsFirst(f, todo[r])
  BY <1>1, ConstantsAssumption
<1>3. File(r) \in todo[r]
  BY <1>2 DEF File
<1> QED
  BY <1>1, <1>3

\* In a file stage the current file is one the run parsed.
LEMMA FileParsed ==
    ASSUME TypeInv, NEW r \in Runs, pc[r] \in FileStage \/ todo[r] # {}
    PROVE  /\ File(r) \in todo[r]
           /\ File(r) \in Files
           /\ parsed[r][File(r)] \in Content
<1>1. todo[r] # {} /\ todo[r] \subseteq Parsed(r)
  BY DEF TypeInv, Progress
<1>2. File(r) \in todo[r] /\ File(r) \in Files
  BY <1>1, FileInTodo DEF TypeInv
<1> QED
  BY <1>1, <1>2 DEF Parsed

\* What GraphBuilder makes of a file are edges and names of external nodes.
LEMMA BuildTyped ==
    ASSUME NEW r \in Runs, NEW f \in Files
    PROVE  BuildEdges(r, f) \subseteq Edge /\ BuildExternals(r, f) \subseteq UnitId
<1>1. ASSUME NEW e \in BuildEdges(r, f)
      PROVE  e \in Edge
  <2>1. PICK ref \in References(r, f) :
           e = <<<<f, ref[1]>>, TargetOf(r, ref[2])>>
    BY <1>1 DEF BuildEdges
  <2>2. ref[1] \in Names /\ ref[2] \in UnitId
    BY <2>1 DEF References, Defines
  <2>3. TargetOf(r, ref[2]) \in Target
    BY <2>2 DEF TargetOf, Target
  <2> QED
    BY <2>1, <2>2, <2>3 DEF Edge, UnitId
<1>2. BuildEdges(r, f) \subseteq Edge
  BY <1>1
<1>3. \A e \in Edge : e[2][2] \in UnitId
  BY DEF Edge, Target
<1>4. BuildExternals(r, f) \subseteq UnitId
  BY <1>2, <1>3 DEF BuildExternals
<1> QED
  BY <1>2, <1>4

\* The first state is typed and no run has anything to do.
LEMMA InitType == Init => TypeInv
<1> SUFFICES ASSUME Init PROVE TypeInv
  OBVIOUS
<1>1. pc \in [Writers -> Stage] /\ \A r \in Runs : pc[r] \notin FileStage
  BY DEF Init, Writers, Stage, FileStage
<1>2. Progress
  BY <1>1 DEF Init, Progress
<1>3. DoomedHere
  BY <1>1 DEF DoomedHere, FileStage
<1> QED
  BY <1>1, <1>2, <1>3 DEF Init, TypeInv, TypeOK

\* Finishing a file keeps the types and takes the file off the list.
LEMMA FinishType ==
    ASSUME TypeInv, NEW r \in Runs, pc[r] \in FileStage, FinishFile(r)
    PROVE  /\ collected' \in [Runs -> SUBSET Edge]
           /\ todo' \in [Runs -> SUBSET Files]
           /\ \A q \in Runs : todo'[q] \subseteq todo[q]
           /\ existing' \in [Runs -> [Names -> Shas \union {None}]]
           /\ pc' \in [Writers -> Stage]
           /\ \A q \in Runs : pc'[q] \in FileStage => todo'[q] # {}
           /\ \A q \in Runs :
                 pc'[q] \in {"idle", "insert_edges", "returned"} => todo'[q] = {}
           /\ pc'[r] = "list"
           /\ \A q \in Runs \ {r} : pc'[q] = pc[q] /\ todo'[q] = todo[q]
<1>1. File(r) \in Files
  BY FileParsed
<1>2. BuildEdges(r, File(r)) \subseteq Edge
  BY <1>1, BuildTyped
<1> QED
  BY <1>2 DEF FinishFile, Goto, TypeInv, TypeOK, Progress, Stage, FileStage, Writers

\* Every step of a run keeps the types and the progress.
LEMMA RunStepType ==
    ASSUME TypeInv, NEW r \in Runs, RunStep(r)
    PROVE  TypeOK' /\ Progress'
<1> USE DEF TypeInv
<1>f. pc[r] \in FileStage =>
        File(r) \in Files /\ parsed[r][File(r)] \in Content
  BY FileParsed
<1>r. Runs \subseteq Writers /\ Reembed \notin Runs
  BY ConstantsAssumption DEF Writers
<1>1. CASE Start(r)
  <2>1. PICK tree \in Trees, mode \in Modes :
           /\ parsed' = [parsed EXCEPT ![r] = tree]
           /\ embeds' = [embeds EXCEPT ![r] = mode]
           /\ todo' = [todo EXCEPT ![r] = {f \in Files : tree[f] \in Content}]
           /\ failed' = [failed EXCEPT ![r] = {f \in Files : tree[f] = Broken}]
    BY <1>1 DEF Start
  <2>2. /\ tree \in [Files -> Content \union {Absent, Broken}]
        /\ mode \in BOOLEAN
    BY ConstantsAssumption
  <2>3. pc' \in [Writers -> Stage] /\ pc'[r] = "list"
    BY <1>1, <1>r DEF Start, Goto, TypeOK, Stage
  <2>4. overlapped' \in [Writers -> BOOLEAN] /\ disturbed' \in BOOLEAN
    BY <1>1 DEF Start, Arrive, TypeOK, Busy
  <2>5. TypeOK'
    BY <1>1, <2>1, <2>2, <2>3, <2>4 DEF Start, TypeOK, stores
  <2>6. Progress'
    BY <1>1, <1>r, <2>1, <2>3 DEF Start, Goto, TypeOK, Progress, Parsed, FileStage
  <2> QED
    BY <2>5, <2>6
<1>2. CASE ListUnits(r)
  <2>1. \A v \in Versions \union {None} : ShaOf(v) \in Shas \union {None}
    BY ConstantsAssumption DEF ShaOf
  <2>2. File(r) \in Files
    BY <1>2, FileInTodo DEF ListUnits
  <2>3. \A n \in Names : ShaOf(rows[<<File(r), n>>]) \in Shas \union {None}
    BY <2>1, <2>2 DEF TypeOK, UnitId
  <2>4. TypeOK'
    BY <1>2, <1>r, <2>3 DEF ListUnits, Goto, TypeOK, Stage, stores
  <2>5. Progress'
    BY <1>2, <1>r DEF ListUnits, Goto, TypeOK, Progress, Parsed, FileStage
  <2> QED
    BY <2>4, <2>5
<1>3. CASE DeleteUnits(r)
  <2>1. TypeOK'
    BY <1>3, <1>r DEF DeleteUnits, Goto, TypeOK, Stage, locals
  <2>2. Progress'
    BY <1>3, <1>r DEF DeleteUnits, Goto, TypeOK, Progress, Parsed, FileStage, locals
  <2> QED
    BY <2>1, <2>2
<1>4. CASE DeleteGraph(r)
  <2>1. TypeOK'
    BY <1>4, <1>r DEF DeleteGraph, Wipe, Goto, TypeOK, Stage, locals
  <2>2. Progress'
    BY <1>4, <1>r DEF DeleteGraph, Goto, TypeOK, Progress, Parsed, FileStage, locals
  <2> QED
    BY <2>1, <2>2
<1>15. CASE LookGraph(r)
  <2>1. TypeOK'
    BY <1>15, <1>r DEF LookGraph, Stored, Goto, TypeOK, Stage, stores, locals
  <2>2. Progress'
    BY <1>15, <1>r DEF LookGraph, Goto, TypeOK, Progress, Parsed, FileStage, locals
  <2> QED
    BY <2>1, <2>2
<1>16. CASE WipeGraph(r)
  <2>1. TypeOK'
    BY <1>16, <1>r DEF WipeGraph, Wipe, Goto, TypeOK, Stage, locals
  <2>2. Progress'
    BY <1>16, <1>r DEF WipeGraph, Goto, TypeOK, Progress, Parsed, FileStage, locals
  <2> QED
    BY <2>1, <2>2
<1>5. CASE DeletePoints(r)
  <2>1. TypeOK'
    BY <1>5, <1>r DEF DeletePoints, Goto, TypeOK, Stage, locals
  <2>2. Progress'
    BY <1>5, <1>r DEF DeletePoints, Goto, TypeOK, Progress, Parsed, FileStage, locals
  <2> QED
    BY <2>1, <2>2
<1>6. CASE UpsertUnits(r)
  <2>1. \A n \in Names : parsed[r][File(r)][n] \in Versions \union {None}
    BY <1>6, <1>f DEF UpsertUnits, FileStage, Content
  <2>2. rows' \in [UnitId -> Versions \union {None}]
    BY <1>6, <2>1 DEF UpsertUnits, TypeOK, Defines
  <2>3. TypeOK'
    BY <1>6, <1>r, <2>2 DEF UpsertUnits, Goto, TypeOK, Stage, locals
  <2>4. Progress'
    BY <1>6, <1>r DEF UpsertUnits, Goto, TypeOK, Progress, Parsed, FileStage, locals
  <2> QED
    BY <2>3, <2>4
<1>7. CASE UpsertNodes(r)
  <2>1. \A n \in Names : parsed[r][File(r)][n] \in Versions \union {None}
    BY <1>7, <1>f DEF UpsertNodes, FileStage, Content
  <2>2. nodes' \in [UnitId -> Versions \union {None}]
    BY <1>7, <2>1 DEF UpsertNodes, TypeOK, Defines
  <2>3. externals' \subseteq UnitId
    BY <1>7, <1>f, BuildTyped DEF UpsertNodes, TypeOK, FileStage
  <2>4. CASE Placeholders(r) # {}
    <3>1. TypeOK'
      BY <1>7, <1>r, <2>2, <2>3, <2>4 DEF UpsertNodes, Goto, TypeOK, Stage
    <3>2. Progress'
      BY <1>7, <1>r, <2>4
      DEF UpsertNodes, Goto, TypeOK, Progress, Parsed, FileStage
    <3> QED
      BY <3>1, <3>2
  <2>5. CASE ~(Placeholders(r) # {})
    <3>0. FinishFile(r) /\ pc[r] \in FileStage
      BY <1>7, <2>5 DEF UpsertNodes, FileStage
    <3>1. TypeOK'
      BY <1>7, <2>2, <2>3, <3>0, FinishType DEF UpsertNodes, TypeOK
    <3>2. Progress'
      BY <1>7, <3>0, FinishType DEF UpsertNodes, Progress, Parsed
    <3> QED
      BY <3>1, <3>2
  <2> QED
    BY <2>4, <2>5
<1>8. CASE UpsertPlaceholders(r)
  <2>1. \A n \in Defines(r, File(r)) : parsed[r][File(r)][n] \in Versions
    BY <1>8, <1>f DEF UpsertPlaceholders, FileStage, Content, Defines
  <2>2. Placeholders(r) \subseteq Defines(r, File(r))
    BY DEF Placeholders, Changed
  <2>3. \A n \in Placeholders(r) :
           [ver |-> parsed[r][File(r)][n], vec |-> NoVector] \in Point
    BY <2>1, <2>2 DEF Point
  <2>4. points' \in [UnitId -> Point \union {None}]
    BY <1>8, <2>3 DEF UpsertPlaceholders, TypeOK
  <2>5. CASE embeds[r] /\ Changed(r) # {}
    <3>1. TypeOK'
      BY <1>8, <1>r, <2>4, <2>5 DEF UpsertPlaceholders, Goto, TypeOK, Stage
    <3>2. Progress'
      BY <1>8, <1>r, <2>5
      DEF UpsertPlaceholders, Goto, TypeOK, Progress, Parsed, FileStage
    <3> QED
      BY <3>1, <3>2
  <2>6. CASE ~(embeds[r] /\ Changed(r) # {})
    <3>0. FinishFile(r) /\ pc[r] \in FileStage
      BY <1>8, <2>6 DEF UpsertPlaceholders, FileStage
    <3>1. TypeOK'
      BY <1>8, <2>4, <3>0, FinishType DEF UpsertPlaceholders, TypeOK
    <3>2. Progress'
      BY <1>8, <3>0, FinishType DEF UpsertPlaceholders, Progress, Parsed
    <3> QED
      BY <3>1, <3>2
  <2> QED
    BY <2>5, <2>6
<1>9. CASE EmbedUnits(r)
  <2>0. FinishFile(r) /\ pc[r] \in FileStage
    BY <1>9 DEF EmbedUnits, FileStage
  <2>1. \A n \in Defines(r, File(r)) : parsed[r][File(r)][n] \in Versions
    BY <2>0, <1>f DEF Content, Defines
  <2>2. Changed(r) \subseteq Defines(r, File(r))
    BY DEF Changed
  <2>3. \A v \in Versions : [ver |-> v, vec |-> VectorOf(Sha[v])] \in Point
    BY ConstantsAssumption DEF Point, VectorOf
  <2>4. points' \in [UnitId -> Point \union {None}]
    BY <1>9, <2>1, <2>2, <2>3 DEF EmbedUnits, TypeOK
  <2>5. TypeOK'
    BY <1>9, <2>0, <2>4, FinishType DEF EmbedUnits, TypeOK
  <2>6. Progress'
    BY <1>9, <2>0, FinishType DEF EmbedUnits, Progress, Parsed
  <2> QED
    BY <2>5, <2>6
<1>10. CASE EmbedFails(r)
  <2>0. FinishFile(r) /\ pc[r] \in FileStage
    BY <1>10 DEF EmbedFails, FileStage
  <2>1. TypeOK'
    BY <1>10, <2>0, FinishType DEF EmbedFails, TypeOK, stores
  <2>2. Progress'
    BY <1>10, <2>0, FinishType DEF EmbedFails, Progress, Parsed
  <2> QED
    BY <2>1, <2>2
<1>11. CASE FileFails(r)
  <2>1. File(r) \in Files
    BY <1>11, <1>f, FileInTodo DEF FileFails, FileStage
  <2>2. TypeOK'
    BY <1>11, <1>r, <2>1 DEF FileFails, Goto, TypeOK, Stage, stores
  <2>3. Progress'
    BY <1>11, <1>r DEF FileFails, Goto, TypeOK, Progress, Parsed, FileStage
  <2> QED
    BY <2>2, <2>3
<1>12. CASE MergeEdges(r)
  <2>1. PICK batch \in SUBSET collected[r] \ {{}} :
           /\ edges' = edges \union {e \in batch : Lands(e)}
           /\ collected' = [collected EXCEPT ![r] = @ \ batch]
    BY <1>12 DEF MergeEdges
  <2>2. edges' \subseteq Edge /\ collected' \in [Runs -> SUBSET Edge]
    BY <2>1 DEF TypeOK
  <2>3. TypeOK'
    BY <1>12, <2>2 DEF MergeEdges, TypeOK
  <2>4. Progress'
    BY <1>12 DEF MergeEdges, Progress, Parsed
  <2> QED
    BY <2>3, <2>4
<1>17. CASE LookEdges(r)
  <2>1. TypeOK'
    BY <1>17, <1>r DEF LookEdges, Goto, TypeOK, Stage, stores, locals
  <2>2. Progress'
    BY <1>17, <1>r DEF LookEdges, Goto, TypeOK, Progress, Parsed, FileStage, locals
  <2> QED
    BY <2>1, <2>2
<1>18. CASE InsertEdges(r)
  <2>1. TypeOK'
    BY <1>18, <1>r DEF InsertEdges, Goto, TypeOK, Stage
  <2>2. Progress'
    BY <1>18, <1>r DEF InsertEdges, Goto, TypeOK, Progress, Parsed, FileStage
  <2> QED
    BY <2>1, <2>2
<1>19. CASE EdgesDone(r)
  <2>1. TypeOK'
    BY <1>19, <1>r DEF EdgesDone, Goto, TypeOK, Stage, stores, locals
  <2>2. Progress'
    BY <1>19, <1>r DEF EdgesDone, Goto, TypeOK, Progress, Parsed, FileStage, locals
  <2> QED
    BY <2>1, <2>2
<1>13. CASE EdgePassFails(r)
  <2>1. TypeOK'
    BY <1>13, <1>r DEF EdgePassFails, Goto, TypeOK, Stage, stores
  <2>2. Progress'
    BY <1>13, <1>r DEF EdgePassFails, Goto, TypeOK, Progress, Parsed, FileStage
  <2> QED
    BY <2>1, <2>2
<1>14. CASE Return(r)
  <2>1. TypeOK'
    BY <1>14, <1>r DEF Return, Goto, TypeOK, Stage, stores
  <2>2. Progress'
    BY <1>14, <1>r DEF Return, Goto, TypeOK, Progress, Parsed, FileStage
  <2> QED
    BY <2>1, <2>2
<1> QED
  BY <1>1, <1>2, <1>3, <1>4, <1>5, <1>6, <1>7, <1>8, <1>9, <1>10, <1>11,
     <1>12, <1>13, <1>14, <1>15, <1>16, <1>17, <1>18, <1>19
  DEF RunStep, FileStep

\* So does every step of a reembed,
LEMMA ReembedStepType ==
    ASSUME TypeInv, ReembedStep
    PROVE  TypeOK' /\ Progress'
<1> USE DEF TypeInv
<1>r. Runs \subseteq Writers /\ Reembed \notin Runs /\ Reembed \in Writers
  BY ConstantsAssumption DEF Writers
<1>0. UNCHANGED <<todo, parsed>> /\ \A r \in Runs : pc'[r] = pc[r]
  BY <1>r DEF ReembedStep, ReembedStart, ReembedList, ReembedListFails,
       ReembedBatch, ReembedBatchFails, ReembedReturn, ReembedEnd, Goto,
       TypeOK, locals
<1>1. Progress'
  BY <1>0 DEF Progress, Parsed
<1>2. CASE ReembedStart
  <2>1. overlapped' \in [Writers -> BOOLEAN] /\ disturbed' \in BOOLEAN
    BY <1>2 DEF ReembedStart, Arrive, TypeOK, Busy
  <2> QED
    BY <1>1, <1>2, <1>r, <2>1 DEF ReembedStart, Goto, TypeOK, Stage, stores, locals
<1>3. CASE ReembedList
  BY <1>1, <1>3, <1>r DEF ReembedList, ToReembed, Goto, TypeOK, Stage, stores, locals
<1>4. CASE ReembedListFails
  BY <1>1, <1>4, <1>r DEF ReembedListFails, Goto, TypeOK, Stage, stores, locals
<1>5. CASE ReembedBatch
  <2>1. PICK batch \in SUBSET Backlog \ {{}} :
           /\ points' = [u \in UnitId |->
                           IF u \in batch
                           THEN [ver |-> backlog[u], vec |-> VectorOf(Sha[backlog[u]])]
                           ELSE points[u]]
           /\ backlog' = [u \in UnitId |->
                            IF u \in batch THEN None ELSE backlog[u]]
    BY <1>5 DEF ReembedBatch
  <2>2. \A u \in batch : backlog[u] \in Versions
    BY DEF Backlog, TypeOK
  <2>3. \A v \in Versions : [ver |-> v, vec |-> VectorOf(Sha[v])] \in Point
    BY ConstantsAssumption DEF Point, VectorOf
  <2>4. points' \in [UnitId -> Point \union {None}]
    BY <2>1, <2>2, <2>3 DEF TypeOK
  <2>5. backlog' \in [UnitId -> Versions \union {None}]
    BY <2>1 DEF TypeOK
  <2> QED
    BY <1>1, <1>5, <2>4, <2>5 DEF ReembedBatch, TypeOK, locals
<1>6. CASE ReembedBatchFails
  <2>1. backlog' \in [UnitId -> Versions \union {None}]
    BY <1>6 DEF ReembedBatchFails, TypeOK
  <2> QED
    BY <1>1, <1>6, <2>1 DEF ReembedBatchFails, TypeOK, stores, locals
<1>7. CASE ReembedReturn
  BY <1>1, <1>7, <1>r DEF ReembedReturn, Goto, TypeOK, Stage, stores, locals
<1>8. CASE ReembedEnd
  BY <1>1, <1>8, <1>r DEF ReembedEnd, Goto, TypeOK, Stage, stores, locals
<1> QED
  BY <1>2, <1>3, <1>4, <1>5, <1>6, <1>7, <1>8 DEF ReembedStep

\* and a crash,
LEMMA CrashType ==
    ASSUME TypeInv, Crash
    PROVE  TypeOK' /\ Progress'
<1> USE DEF TypeInv
<1>r. Runs \subseteq Writers
  BY DEF Writers
<1>1. TypeOK'
  BY DEF Crash, TypeOK, Stage, stores
<1>2. Progress'
  BY <1>r DEF Crash, Progress, FileStage
<1> QED
  BY <1>1, <1>2

\* Work on one run leaves what the others are about to delete.
LEMMA DoomedKept ==
    ASSUME DoomedHere, NEW r \in Runs,
           pc'[r] = "wipe_graph" => \A u \in doomed'[r] : u[1] = File(r)',
           \A q \in Runs \ {r} : /\ pc'[q] = pc[q] /\ todo'[q] = todo[q]
                               /\ doomed'[q] = doomed[q]
    PROVE  DoomedHere'
<1>1. \A q \in Runs \ {r} : File(q)' = File(q)
  BY DEF File, IsFirst
<1> QED
  BY <1>1 DEF DoomedHere

\* No step makes a wipe delete a node of another file.
LEMMA DoomedStep == TypeInv /\ [Next]_vars => DoomedHere'
<1> SUFFICES ASSUME TypeInv, [Next]_vars PROVE DoomedHere'
  OBVIOUS
<1>t. TypeOK /\ DoomedHere /\ Runs \subseteq Writers
  BY DEF TypeInv, Writers
<1>1. ASSUME NEW r \in Runs, RunStep(r) PROVE DoomedHere'
  <2>1. CASE LookGraph(r)
    <3>1. \A q \in Runs \ {r} : /\ pc'[q] = pc[q] /\ todo'[q] = todo[q]
                              /\ doomed'[q] = doomed[q]
      BY <1>t, <2>1 DEF LookGraph, Goto, TypeOK, locals
    <3>2. \A u \in doomed'[r] : u[1] = File(r)
      BY <1>t, <2>1 DEF LookGraph, TypeOK, Stored
    <3>3. File(r)' = File(r)
      BY <2>1 DEF LookGraph, locals, File, IsFirst
    <3> QED
      BY <1>t, <3>1, <3>2, <3>3, DoomedKept
  <2>2. CASE ~LookGraph(r)
    <3>1. \A q \in Runs \ {r} : /\ pc'[q] = pc[q] /\ todo'[q] = todo[q]
                              /\ doomed'[q] = doomed[q]
      BY <1>1, <1>t, <2>2
      DEF RunStep, FileStep, Start, ListUnits, DeleteUnits, DeleteGraph,
          WipeGraph, DeletePoints, UpsertUnits, UpsertNodes,
          UpsertPlaceholders, EmbedUnits, EmbedFails, FileFails, MergeEdges,
          LookEdges, InsertEdges, EdgesDone, EdgePassFails, Return,
          FinishFile, Goto, TypeOK, locals
    <3>2. pc'[r] # "wipe_graph"
      BY <1>1, <1>t, <2>2
      DEF RunStep, FileStep, Start, ListUnits, DeleteUnits, DeleteGraph,
          WipeGraph, DeletePoints, UpsertUnits, UpsertNodes,
          UpsertPlaceholders, EmbedUnits, EmbedFails, FileFails, MergeEdges,
          LookEdges, InsertEdges, EdgesDone, EdgePassFails, Return,
          FinishFile, Goto, TypeOK
    <3> QED
      BY <1>t, <3>1, <3>2, DoomedKept
  <2> QED
    BY <2>1, <2>2
<1>2. CASE ReembedStep \/ UNCHANGED vars
  <2>1. UNCHANGED <<todo, doomed>> /\ \A r \in Runs : pc'[r] = pc[r]
    BY <1>2, <1>t, ConstantsAssumption
    DEF ReembedStep, ReembedStart, ReembedList, ReembedListFails,
        ReembedBatch, ReembedBatchFails, ReembedReturn, ReembedEnd, Goto,
        TypeOK, vars, locals
  <2>2. \A r \in Runs : File(r)' = File(r)
    BY <2>1 DEF File, IsFirst
  <2> QED
    BY <1>t, <2>1, <2>2 DEF DoomedHere
<1>3. CASE Crash
  BY <1>3, <1>t DEF Crash, DoomedHere
<1> QED
  BY <1>1, <1>2, <1>3 DEF Next

\* and so every step.
LEMMA TypeStep == TypeInv /\ [Next]_vars => TypeInv'
<1> SUFFICES ASSUME TypeInv, [Next]_vars PROVE TypeOK' /\ Progress'
  BY DoomedStep DEF TypeInv
<1>1. ASSUME NEW r \in Runs, RunStep(r) PROVE TypeOK' /\ Progress'
  BY <1>1, RunStepType
<1>2. CASE ReembedStep
  BY <1>2, ReembedStepType
<1>3. CASE Crash
  BY <1>3, CrashType
<1>4. CASE UNCHANGED vars
  BY <1>4 DEF vars, stores, locals, TypeInv, TypeOK, Progress, Parsed
<1> QED
  BY <1>1, <1>2, <1>3, <1>4 DEF Next

\* In every state of every behaviour.
LEMMA TypesAlways == Spec => []TypeInv
<1>1. Init => TypeInv
  BY InitType
<1>2. TypeInv /\ [Next]_vars => TypeInv'
  BY TypeStep
<1> QED
  BY <1>1, <1>2, PTL DEF Spec

\* The stores and the state of every request keep their types, and every run
\* works on files it parsed, in any interleaving and across any failure.
THEOREM TypeCorrect == Spec => [](TypeOK /\ Progress)
<1>1. TypeInv => TypeOK /\ Progress
  BY DEF TypeInv
<1> QED
  BY <1>1, TypesAlways, PTL

---------------------------------------------------------------------------
(* No dangling edges.                                                      *)

\* An edge that may be stored: its ends are there, or, on SQLite, one of them
\* went while the edge was in flight.
Sound(e) == Lands(e) \/ (Tier = "lite" /\ e \in raced)

\* What is stored, and what a run is about to insert, is sound.
EdgeInv ==
    /\ \A e \in edges : Sound(e)
    /\ \A r \in Runs : \A e \in landing[r] : Tier = "lite" /\ Sound(e)

\* Steps that add nothing to the edges and take nothing from the nodes.
LEMMA EdgesUntouched ==
    ASSUME TypeOK, EdgeInv, edges' \subseteq edges, raced' = raced,
           \A u \in UnitId : nodes[u] # None => nodes'[u] # None,
           externals \subseteq externals',
           \A r \in Runs : landing'[r] \subseteq landing[r]
    PROVE  EdgeInv'
<1>1. \A e \in Edge : e[1] \in UnitId /\ e[2][2] \in UnitId
  BY DEF Edge, Target
<1>2. \A e \in Edge : Lands(e) => Lands(e)'
  BY <1>1 DEF Lands, HasNode
<1>3. \A e \in Edge : Sound(e) => Sound(e)'
  BY <1>2 DEF Sound
<1> QED
  BY <1>3 DEF EdgeInv, TypeOK

\* A wipe takes the edges of the nodes it removes, and those in flight are
\* noted.
LEMMA WipeKeepsEndpoints ==
    ASSUME TypeOK, EdgeInv, NEW ids, Wipe(ids), UNCHANGED <<externals, landing>>
    PROVE  EdgeInv'
<1>1. \A e \in Edge : e[1] \in UnitId /\ e[2][2] \in UnitId
  BY DEF Edge, Target
<1>2. ASSUME NEW e \in Edge, ~Incident(e, ids), Lands(e)
      PROVE  Lands(e)'
  BY <1>1, <1>2 DEF Wipe, Incident, Lands, HasNode
<1>3. ASSUME NEW e \in Edge, ~Incident(e, ids), Sound(e)
      PROVE  Sound(e)'
  BY <1>2, <1>3 DEF Sound, Wipe
<1>4. \A e \in edges' : Sound(e)'
  BY <1>3 DEF Wipe, EdgeInv, TypeOK
<1>5. ASSUME NEW r \in Runs, NEW e \in landing[r]
      PROVE  Tier = "lite" /\ Sound(e)'
  <2>1. e \in Edge /\ Tier = "lite" /\ Sound(e)
    BY DEF EdgeInv, TypeOK
  <2>2. CASE Incident(e, ids)
    <3>1. e \in UNION {landing[x] : x \in Runs}
      OBVIOUS
    <3> QED
      BY <2>1, <2>2, <3>1 DEF Wipe, Sound
  <2> QED
    BY <1>3, <2>1, <2>2
<1> QED
  BY <1>4, <1>5 DEF EdgeInv

\* The final pass writes an edge only between nodes that it found.
LEMMA PassKeepsEndpoints ==
    ASSUME TypeOK, EdgeInv, NEW r \in Runs,
           MergeEdges(r) \/ LookEdges(r) \/ InsertEdges(r)
    PROVE  EdgeInv'
<1>0. UNCHANGED <<nodes, externals, raced>>
  BY DEF MergeEdges, LookEdges, InsertEdges, stores
<1>1. \A e : Lands(e)' <=> Lands(e)
  BY <1>0 DEF Lands, HasNode
<1>2. \A e : Sound(e)' <=> Sound(e)
  BY <1>0, <1>1 DEF Sound
<1>3. CASE MergeEdges(r)
  <2>1. PICK batch \in SUBSET collected[r] \ {{}} :
           edges' = edges \union {e \in batch : Lands(e)}
    BY <1>3 DEF MergeEdges
  <2>2. landing' = landing
    BY <1>3 DEF MergeEdges
  <2> QED
    BY <1>2, <2>1, <2>2 DEF EdgeInv, Sound
<1>4. CASE LookEdges(r)
  <2>1. Tier = "lite" /\ edges' = edges
    BY <1>4 DEF LookEdges, stores
  <2>2. \A q \in Runs : \A e \in landing'[q] : e \in landing[q] \/ Lands(e)
    BY <1>4 DEF LookEdges, TypeOK
  <2> QED
    BY <1>2, <2>1, <2>2 DEF EdgeInv, Sound
<1>5. CASE InsertEdges(r)
  <2>1. edges' = edges \union landing[r]
    BY <1>5 DEF InsertEdges
  <2>2. \A q \in Runs : landing'[q] \subseteq landing[q]
    BY <1>5 DEF InsertEdges, TypeOK
  <2> QED
    BY <1>2, <2>1, <2>2 DEF EdgeInv
<1> QED
  BY <1>3, <1>4, <1>5

\* Every step keeps it.
LEMMA EdgeStep == TypeOK /\ EdgeInv /\ [Next]_vars => EdgeInv'
<1> SUFFICES ASSUME TypeOK, EdgeInv, [Next]_vars
             PROVE  EdgeInv'
  OBVIOUS
<1>1. ASSUME NEW r \in Runs, RunStep(r) PROVE EdgeInv'
  <2>1. CASE DeleteGraph(r) \/ WipeGraph(r)
    BY <2>1, WipeKeepsEndpoints DEF DeleteGraph, WipeGraph
  <2>2. CASE UpsertNodes(r)
    <3>1. \A u \in UnitId : nodes[u] # None => nodes'[u] # None
      BY <2>2 DEF UpsertNodes, Defines
    <3>2. /\ UNCHANGED <<edges, raced, landing>>
          /\ externals \subseteq externals'
      BY <2>2 DEF UpsertNodes
    <3> QED
      BY <3>1, <3>2, EdgesUntouched
  <2>3. CASE MergeEdges(r) \/ LookEdges(r) \/ InsertEdges(r)
    BY <2>3, PassKeepsEndpoints
  <2>4. CASE \/ Start(r) \/ ListUnits(r) \/ DeleteUnits(r) \/ LookGraph(r)
             \/ DeletePoints(r) \/ UpsertUnits(r) \/ UpsertPlaceholders(r)
             \/ EmbedUnits(r) \/ EmbedFails(r) \/ FileFails(r)
             \/ EdgesDone(r) \/ EdgePassFails(r) \/ Return(r)
    <3>1. UNCHANGED <<nodes, externals, edges, raced>>
      BY <2>4 DEF Start, ListUnits, DeleteUnits, LookGraph, DeletePoints,
           UpsertUnits, UpsertPlaceholders, EmbedUnits, EmbedFails,
           FileFails, EdgesDone, EdgePassFails, Return, stores
    <3>2. \A q \in Runs : landing'[q] \subseteq landing[q]
      BY <2>4 DEF Start, ListUnits, DeleteUnits, LookGraph, DeletePoints,
           UpsertUnits, UpsertPlaceholders, EmbedUnits, EmbedFails,
           FileFails, EdgesDone, EdgePassFails, Return, TypeOK
    <3> QED
      BY <3>1, <3>2, EdgesUntouched
  <2> QED
    BY <1>1, <2>1, <2>2, <2>3, <2>4 DEF RunStep, FileStep
<1>2. CASE ReembedStep \/ UNCHANGED vars
  <2>1. UNCHANGED <<nodes, externals, edges, raced, landing>>
    BY <1>2 DEF ReembedStep, ReembedStart, ReembedList, ReembedListFails,
         ReembedBatch, ReembedBatchFails, ReembedReturn, ReembedEnd, stores,
         vars
  <2> QED
    BY <2>1, EdgesUntouched
<1>3. CASE Crash
  <2>1. \A e : Lands(e)' <=> Lands(e)
    BY <1>3 DEF Crash, stores, Lands, HasNode
  <2> QED
    BY <1>3, <2>1 DEF Crash, stores, EdgeInv, Sound
<1> QED
  BY <1>1, <1>2, <1>3 DEF Next

\* No run, however it interleaves with others and wherever it fails or is
\* killed, ever leaves an edge without one of its endpoints; on SQLite, none
\* whose endpoint was not wiped between upsert_edges' SELECT and its INSERT.
THEOREM NoDanglingEdges == Spec => []EdgeEndpointsExist
<1>1. Init => EdgeInv
  BY DEF Init, EdgeInv
<1>2. TypeOK /\ EdgeInv /\ [Next]_vars => EdgeInv'
  BY EdgeStep
<1>3. Spec => []TypeOK
  BY TypeCorrect, PTL
<1>4. EdgeInv => EdgeEndpointsExist
  BY DEF EdgeInv, Sound, Lands, EdgeEndpointsExist
<1> QED
  BY <1>1, <1>2, <1>3, <1>4, PTL DEF Spec

---------------------------------------------------------------------------
(* A run that nobody overlapped leaves the unit table and the graph as the *)
(* tree it parsed, with the edges of every file, whatever failed, killed   *)
(* or interleaved runs left before.                                        *)

\* The tables and the graph show file f as run r parsed it.
RowsMirror(r, f) ==
    \A n \in Names : ShaOf(rows[<<f, n>>]) = ShaOf(parsed[r][f][n])

NodesMirror(r, f) ==
    \A n \in Names : parsed[r][f][n] # None => nodes[<<f, n>>] = parsed[r][f][n]

\* A run that is under way and that no other request has overlapped so far...
Solo(r) == Busy(r) /\ ~overlapped[r]

\* ...is the only request there is,
Alone(r) == \A w \in Writers \ {r} : ~Busy(w)

\* has mirrored every file it is done with and did not give up on,
DoneMirrored(r) ==
    \A f \in Parsed(r) \ (todo[r] \union failed[r]) :
        RowsMirror(r, f) /\ NodesMirror(r, f)

\* and has brought the current file as far as its stage says.
CurrentMirrored(r) ==
    LET f == File(r) IN
    /\ pc[r] \in {"delete_graph", "wipe_graph", "delete_points"} =>
          \A n \in Names : rows[<<f, n>>] = None
    /\ pc[r] = "upsert_units" =>
          \A n \in Names : rows[<<f, n>>] # None => n \in Defines(r, f)
    /\ pc[r] \in {"upsert_nodes", "placeholders", "embed"} => RowsMirror(r, f)
    /\ pc[r] \in {"placeholders", "embed"} => NodesMirror(r, f)

MirrorInv ==
    \A r \in Runs :
        Solo(r) => Alone(r) /\ DoneMirrored(r) /\ CurrentMirrored(r)

\* A unit has a sha, and only a unit has one.
LEMMA ShaPresent ==
    ASSUME NEW v \in Versions \union {None}
    PROVE  ShaOf(v) = None <=> v = None
BY ConstantsAssumption DEF ShaOf

\* The steps of the final pass.
EdgePass(r) ==
    \/ MergeEdges(r) \/ LookEdges(r) \/ InsertEdges(r) \/ EdgesDone(r)
    \/ EdgePassFails(r)

\* The steps of a run change neither what it parsed nor who else is active.
FileActions(r) ==
    \/ ListUnits(r) \/ DeleteUnits(r) \/ DeleteGraph(r) \/ LookGraph(r)
    \/ WipeGraph(r) \/ DeletePoints(r) \/ UpsertUnits(r) \/ UpsertNodes(r)
    \/ UpsertPlaceholders(r) \/ EmbedUnits(r) \/ EmbedFails(r)
    \/ FileFails(r) \/ EdgePass(r)

\* Such a step leaves the other requests where they are.
LEMMA FileActionsFrame ==
    ASSUME TypeOK, NEW r \in Runs, FileActions(r)
    PROVE  /\ UNCHANGED <<parsed, overlapped>>
           /\ Busy(r) /\ Busy(r)'
           /\ \A w \in Writers \ {r} : pc'[w] = pc[w]
<1>1. r \in Writers
  BY DEF Writers
<1> QED
  BY <1>1 DEF FileActions, ListUnits, DeleteUnits, DeleteGraph, LookGraph,
       WipeGraph, DeletePoints, UpsertUnits, UpsertNodes, UpsertPlaceholders,
       EmbedUnits, EmbedFails, FileFails, EdgePass, MergeEdges, LookEdges,
       InsertEdges, EdgesDone, EdgePassFails, FinishFile, Goto, TypeOK, Busy,
       locals

\* A step of one run that keeps `MirrorInv' for that run keeps it for all: no
\* other run is solo while this one is under way.
LEMMA OthersNotSolo ==
    ASSUME TypeOK, MirrorInv, NEW r \in Runs, FileActions(r),
           Solo(r) => DoneMirrored(r)' /\ CurrentMirrored(r)'
    PROVE  MirrorInv'
<1>1. /\ UNCHANGED <<parsed, overlapped>>
      /\ Busy(r) /\ Busy(r)'
      /\ \A w \in Writers \ {r} : pc'[w] = pc[w]
  BY FileActionsFrame
<1>2. Solo(r)' => Solo(r)
  BY <1>1 DEF Solo
<1>3. Solo(r) => Alone(r)'
  BY <1>1 DEF MirrorInv, Alone, Busy
<1>4. ASSUME NEW q \in Runs \ {r} PROVE ~Solo(q)'
  <2>1. Solo(q)' => Solo(q)
    BY <1>1 DEF Solo, Busy, Writers
  <2>2. Solo(q) => ~Busy(r)
    BY DEF MirrorInv, Alone, Writers
  <2> QED
    BY <1>1, <2>1, <2>2
<1> QED
  BY <1>2, <1>3, <1>4 DEF MirrorInv

\* Writes to the current file leave the files that are done as they were.
LEMMA DoneKept ==
    ASSUME NEW r \in Runs, DoneMirrored(r), UNCHANGED parsed,
           File(r) \in todo[r], todo'[r] = todo[r], failed'[r] = failed[r],
           \A u \in UnitId : u[1] # File(r) => /\ rows'[u] = rows[u]
                                             /\ nodes'[u] = nodes[u]
    PROVE  DoneMirrored(r)'
<1> SUFFICES ASSUME NEW f \in Parsed(r) \ (todo[r] \union failed[r])
             PROVE  RowsMirror(r, f)' /\ NodesMirror(r, f)'
  BY DEF DoneMirrored, Parsed
<1>1. f \in Files /\ f # File(r)
  BY DEF Parsed
<1>2. \A n \in Names : /\ rows'[<<f, n>>] = rows[<<f, n>>]
                       /\ nodes'[<<f, n>>] = nodes[<<f, n>>]
  BY <1>1 DEF UnitId
<1>3. RowsMirror(r, f) /\ NodesMirror(r, f)
  BY DEF DoneMirrored
<1> QED
  BY <1>2, <1>3 DEF RowsMirror, NodesMirror, ShaOf

\* A file that is finished joins the files that are done.
LEMMA DoneGrows ==
    ASSUME NEW r \in Runs, DoneMirrored(r), UNCHANGED <<parsed, rows>>,
           File(r) \in todo[r], todo'[r] = todo[r] \ {File(r)},
           failed'[r] = failed[r],
           \A u \in UnitId : u[1] # File(r) => nodes'[u] = nodes[u],
           RowsMirror(r, File(r)),
           \A n \in Names : parsed[r][File(r)][n] # None =>
                nodes'[<<File(r), n>>] = parsed[r][File(r)][n]
    PROVE  DoneMirrored(r)'
<1> SUFFICES ASSUME NEW f \in Parsed(r), f \notin todo'[r], f \notin failed[r]
             PROVE  RowsMirror(r, f)' /\ NodesMirror(r, f)'
  BY DEF DoneMirrored, Parsed
<1>1. f \in Files
  BY DEF Parsed
<1>2. CASE f = File(r)
  BY <1>2 DEF RowsMirror, NodesMirror, ShaOf
<1>3. CASE f # File(r)
  <2>1. RowsMirror(r, f) /\ NodesMirror(r, f)
    BY <1>3 DEF DoneMirrored
  <2>2. \A n \in Names : nodes'[<<f, n>>] = nodes[<<f, n>>]
    BY <1>1, <1>3 DEF UnitId
  <2> QED
    BY <2>1, <2>2 DEF RowsMirror, NodesMirror, ShaOf
<1> QED
  BY <1>2, <1>3

\* Every step of a solo run that works on a file.
LEMMA SoloFileStep ==
    ASSUME TypeInv, MirrorInv, NEW r \in Runs, Solo(r), FileActions(r)
    PROVE  DoneMirrored(r)' /\ CurrentMirrored(r)'
<1>r. r \in Writers
  BY DEF Writers
<1>p. UNCHANGED parsed
  BY FileActionsFrame DEF TypeInv
<1>i. DoneMirrored(r) /\ CurrentMirrored(r)
  BY DEF MirrorInv
<1>f. pc[r] \in FileStage \/ todo[r] # {} =>
        File(r) \in todo[r] /\ File(r) \in Files /\ parsed[r][File(r)] \in Content
  BY FileParsed
<1>d. pc[r] = "wipe_graph" => \A u \in doomed[r] : u[1] = File(r)
  BY DEF TypeInv, DoomedHere
<1>t. TypeOK
  BY DEF TypeInv
<1>1. CASE ListUnits(r)
  <2>1. UNCHANGED <<rows, nodes, todo, failed>> /\ File(r) \in todo[r]
        /\ File(r) \in Files
    BY <1>1, <1>f DEF ListUnits, stores
  <2>2. DoneMirrored(r)'
    BY <2>1, <1>i, <1>p, DoneKept
  <2>3. File(r)' = File(r) /\ Defines(r, File(r))' = Defines(r, File(r))
    BY <2>1, <1>p DEF File, IsFirst, Defines
  <2>4. pc'[r] \in {"delete_units", "upsert_units"}
    BY <1>1, <1>r, <1>t DEF ListUnits, Goto, TypeOK
  <2>5. ASSUME pc'[r] = "upsert_units", NEW n \in Names, rows[<<File(r), n>>] # None
        PROVE  n \in Defines(r, File(r))
    <3>1. Obsolete(r, [m \in Names |-> ShaOf(rows[<<File(r), m>>])]) = {}
      BY <1>1, <1>r, <1>t, <2>5 DEF ListUnits, Goto, TypeOK
    <3>2. rows[<<File(r), n>>] \in Versions
      BY <1>t, <2>1, <2>5 DEF TypeOK, UnitId
    <3>3. ShaOf(rows[<<File(r), n>>]) # None
      BY <3>2, <2>5, ShaPresent
    <3> QED
      BY <3>1, <3>3 DEF Obsolete
  <2>6. CurrentMirrored(r)'
    BY <2>1, <2>3, <2>4, <2>5 DEF CurrentMirrored
  <2> QED
    BY <2>2, <2>6
<1>2. CASE DeleteUnits(r)
  <2>1. /\ UNCHANGED <<nodes, todo, failed>>
        /\ File(r) \in todo[r] /\ File(r) \in Files
        /\ \A u \in UnitId : u[1] # File(r) => rows'[u] = rows[u]
        /\ \A n \in Names : rows'[<<File(r), n>>] = None
        /\ pc'[r] = "delete_graph"
    BY <1>2, <1>r, <1>f, <1>t
    DEF DeleteUnits, locals, FileStage, UnitId, Goto, TypeOK
  <2>2. DoneMirrored(r)'
    BY <2>1, <1>i, <1>p, DoneKept
  <2>3. File(r)' = File(r)
    BY <2>1 DEF File, IsFirst
  <2>4. CurrentMirrored(r)'
    BY <2>1, <2>3 DEF CurrentMirrored
  <2> QED
    BY <2>2, <2>4
<1>3. CASE DeleteGraph(r) \/ LookGraph(r) \/ WipeGraph(r)
  <2>1. /\ UNCHANGED <<rows, todo, failed>>
        /\ File(r) \in todo[r] /\ File(r) \in Files
        /\ \A n \in Names : rows[<<File(r), n>>] = None
        /\ pc'[r] \in {"wipe_graph", "delete_points"}
    BY <1>3, <1>r, <1>f, <1>t, <1>i
    DEF DeleteGraph, LookGraph, WipeGraph, locals, stores, FileStage, Goto,
        TypeOK, CurrentMirrored
  <2>5. \A u \in UnitId : u[1] # File(r) => nodes'[u] = nodes[u]
    BY <1>3, <1>d DEF DeleteGraph, LookGraph, WipeGraph, Wipe, Stored, stores
  <2>2. DoneMirrored(r)'
    BY <2>1, <2>5, <1>i, <1>p, DoneKept
  <2>3. File(r)' = File(r)
    BY <2>1 DEF File, IsFirst
  <2>4. CurrentMirrored(r)'
    BY <2>1, <2>3 DEF CurrentMirrored
  <2> QED
    BY <2>2, <2>4
<1>4. CASE DeletePoints(r)
  <2>1. /\ UNCHANGED <<rows, nodes, todo, failed>>
        /\ File(r) \in todo[r] /\ File(r) \in Files
        /\ \A n \in Names : rows[<<File(r), n>>] = None
        /\ pc'[r] = "upsert_units"
    BY <1>4, <1>r, <1>f, <1>t, <1>i
    DEF DeletePoints, locals, FileStage, Goto, TypeOK, CurrentMirrored
  <2>2. DoneMirrored(r)'
    BY <2>1, <1>i, <1>p, DoneKept
  <2>3. File(r)' = File(r)
    BY <2>1 DEF File, IsFirst
  <2>4. CurrentMirrored(r)'
    BY <2>1, <2>3 DEF CurrentMirrored
  <2> QED
    BY <2>2, <2>4
<1>5. CASE UpsertUnits(r)
  <2>1. /\ UNCHANGED <<nodes, todo, failed>>
        /\ File(r) \in todo[r] /\ File(r) \in Files
        /\ \A u \in UnitId : u[1] # File(r) => rows'[u] = rows[u]
        /\ \A n \in Names : rows[<<File(r), n>>] # None => n \in Defines(r, File(r))
        /\ pc'[r] = "upsert_nodes"
    BY <1>5, <1>r, <1>f, <1>t, <1>i
    DEF UpsertUnits, locals, FileStage, Goto, TypeOK, CurrentMirrored
  <2>2. DoneMirrored(r)'
    BY <2>1, <1>i, <1>p, DoneKept
  <2>3. File(r)' = File(r)
    BY <2>1 DEF File, IsFirst
  <2>4. ASSUME NEW n \in Names
        PROVE  ShaOf(rows'[<<File(r), n>>]) = ShaOf(parsed[r][File(r)][n])
    <3>1. <<File(r), n>> \in UnitId
      BY <2>1 DEF UnitId
    <3>2. CASE n \in Defines(r, File(r))
      <4>1. ShaOf(parsed[r][File(r)][n]) = Sha[parsed[r][File(r)][n]]
        BY <3>2 DEF Defines, ShaOf
      <4> QED
        BY <1>5, <3>1, <3>2, <4>1 DEF UpsertUnits, Differs
    <3>3. CASE n \notin Defines(r, File(r))
      <4>1. parsed[r][File(r)][n] = None
        BY <3>3 DEF Defines
      <4>2. rows[<<File(r), n>>] = None
        BY <2>1, <3>3
      <4>3. rows'[<<File(r), n>>] = None
        BY <1>5, <3>1, <3>3, <4>2 DEF UpsertUnits
      <4> QED
        BY <4>1, <4>3 DEF ShaOf
    <3> QED
      BY <3>2, <3>3
  <2>5. RowsMirror(r, File(r))'
    BY <1>p, <2>3, <2>4 DEF RowsMirror, ShaOf
  <2>6. CurrentMirrored(r)'
    BY <2>1, <2>5 DEF CurrentMirrored
  <2> QED
    BY <2>2, <2>6
<1>6. CASE UpsertNodes(r)
  <2>1. /\ UNCHANGED <<rows, failed>>
        /\ File(r) \in todo[r] /\ File(r) \in Files
        /\ \A u \in UnitId : u[1] # File(r) => nodes'[u] = nodes[u]
        /\ RowsMirror(r, File(r))
    BY <1>6, <1>f, <1>i DEF UpsertNodes, FileStage, CurrentMirrored
  <2>2. \A n \in Names : parsed[r][File(r)][n] # None =>
           nodes'[<<File(r), n>>] = parsed[r][File(r)][n]
    BY <1>6, <2>1 DEF UpsertNodes, UnitId, Defines
  <2>3. CASE Placeholders(r) # {}
    <3>1. todo' = todo /\ pc'[r] = "placeholders"
      BY <1>6, <1>r, <1>t, <2>3 DEF UpsertNodes, Goto, TypeOK
    <3>2. DoneMirrored(r)'
      BY <2>1, <3>1, <1>i, <1>p, DoneKept
    <3>3. File(r)' = File(r)
      BY <3>1 DEF File, IsFirst
    <3>4. RowsMirror(r, File(r))' /\ NodesMirror(r, File(r))'
      BY <1>p, <2>1, <2>2, <3>3 DEF RowsMirror, NodesMirror, ShaOf
    <3> QED
      BY <3>1, <3>2, <3>4 DEF CurrentMirrored
  <2>4. CASE ~(Placeholders(r) # {})
    <3>1. todo'[r] = todo[r] \ {File(r)} /\ pc'[r] = "list"
      BY <1>6, <1>r, <1>t, <2>4 DEF UpsertNodes, FinishFile, Goto, TypeOK
    <3>2. DoneMirrored(r)'
      BY <2>1, <2>2, <3>1, <1>i, <1>p, DoneGrows
    <3> QED
      BY <3>1, <3>2 DEF CurrentMirrored
  <2> QED
    BY <2>3, <2>4
<1>7. CASE UpsertPlaceholders(r) \/ EmbedUnits(r) \/ EmbedFails(r)
  <2>1. /\ UNCHANGED <<rows, nodes, failed>>
        /\ File(r) \in todo[r] /\ File(r) \in Files
        /\ RowsMirror(r, File(r)) /\ NodesMirror(r, File(r))
    BY <1>7, <1>f, <1>i
    DEF UpsertPlaceholders, EmbedUnits, EmbedFails, FileStage, CurrentMirrored,
        stores
  <2>2. CASE FinishFile(r)
    <3>1. todo'[r] = todo[r] \ {File(r)} /\ pc'[r] = "list"
      BY <1>r, <1>t, <2>2 DEF FinishFile, Goto, TypeOK
    <3>2. DoneMirrored(r)'
      BY <2>1, <3>1, <1>i, <1>p, DoneGrows DEF NodesMirror
    <3> QED
      BY <3>1, <3>2 DEF CurrentMirrored
  <2>3. CASE UpsertPlaceholders(r) /\ ~FinishFile(r)
    <3>1. todo' = todo /\ pc'[r] = "embed"
      BY <1>r, <1>t, <2>3 DEF UpsertPlaceholders, Goto, TypeOK
    <3>2. DoneMirrored(r)'
      BY <2>1, <3>1, <1>i, <1>p, DoneKept
    <3>3. File(r)' = File(r)
      BY <3>1 DEF File, IsFirst
    <3>4. RowsMirror(r, File(r))' /\ NodesMirror(r, File(r))'
      BY <1>p, <2>1, <3>3 DEF RowsMirror, NodesMirror, ShaOf
    <3> QED
      BY <3>1, <3>2, <3>4 DEF CurrentMirrored
  <2> QED
    BY <1>7, <2>2, <2>3 DEF EmbedUnits, EmbedFails
<1>8. CASE FileFails(r)
  <2>1. /\ UNCHANGED <<rows, nodes>>
        /\ pc'[r] = "list"
        /\ todo'[r] = todo[r] \ {File(r)}
        /\ failed'[r] = failed[r] \union {File(r)}
    BY <1>8, <1>r, <1>t DEF FileFails, Goto, TypeOK, stores
  <2>2. DoneMirrored(r)'
    BY <2>1, <1>p, <1>i DEF DoneMirrored, Parsed, RowsMirror, NodesMirror, ShaOf
  <2> QED
    BY <2>1, <2>2 DEF CurrentMirrored
<1>9. CASE EdgePass(r)
  <2>1. /\ UNCHANGED <<rows, nodes, todo, failed>>
        /\ pc'[r] \in {"list", "insert_edges", "returned"}
    BY <1>9, <1>r, <1>t
    DEF EdgePass, MergeEdges, LookEdges, InsertEdges, EdgesDone, EdgePassFails,
        Goto, TypeOK, stores, locals
  <2>2. DoneMirrored(r)'
    BY <2>1, <1>p, <1>i DEF DoneMirrored, Parsed, RowsMirror, NodesMirror, ShaOf
  <2> QED
    BY <2>1, <2>2 DEF CurrentMirrored
<1> QED
  BY <1>1, <1>2, <1>3, <1>4, <1>5, <1>6, <1>7, <1>8, <1>9 DEF FileActions

\* A request that arrives makes every request under way an overlapped one.
LEMMA ArrivalEndsSolo ==
    ASSUME TypeOK, NEW w \in Writers, Arrive(w), NEW q \in Runs, q # w,
           Busy(q)' => Busy(q)
    PROVE  ~Solo(q)'
BY DEF Arrive, Solo, Writers, TypeOK

\* A run that starts is solo only if nobody else is active.
LEMMA SoloStart ==
    ASSUME TypeInv, MirrorInv, NEW r \in Runs, Start(r)
    PROVE  MirrorInv'
<1>r. r \in Writers
  BY DEF Writers
<1>t. TypeOK
  BY DEF TypeInv
<1>1. pc' = [pc EXCEPT ![r] = "list"] /\ Arrive(r)
  BY DEF Start, Goto
<1>2. ASSUME NEW q \in Runs, q # r PROVE ~Solo(q)'
  <2>1. Busy(q)' => Busy(q)
    BY <1>1, <1>2, <1>t DEF Busy, TypeOK, Writers
  <2> QED
    BY <1>1, <1>2, <1>r, <1>t, <2>1, ArrivalEndsSolo
<1>3. Solo(r)' => Alone(r)'
  <2>1. \A w \in Writers \ {r} : pc'[w] = pc[w]
    BY <1>1, <1>t DEF TypeOK
  <2>2. ~overlapped'[r] => {w \in Writers \ {r} : Busy(w)} = {}
    BY <1>1, <1>r DEF Arrive
  <2> QED
    BY <2>1, <2>2 DEF Solo, Alone, Busy
<1>4. DoneMirrored(r)'
  <2>1. Parsed(r)' = todo'[r]
    BY <1>t DEF Start, TypeOK, Parsed
  <2> QED
    BY <2>1 DEF DoneMirrored
<1>5. CurrentMirrored(r)'
  BY <1>1, <1>r, <1>t DEF CurrentMirrored, TypeOK
<1> QED
  BY <1>2, <1>3, <1>4, <1>5 DEF MirrorInv

\* A run that returns leaves no solo run behind.
LEMMA SoloReturn ==
    ASSUME TypeInv, MirrorInv, NEW r \in Runs, Return(r)
    PROVE  MirrorInv'
<1> SUFFICES ASSUME NEW q \in Runs PROVE ~Solo(q)'
  BY DEF MirrorInv
<1>1. pc' = [pc EXCEPT ![r] = "idle"] /\ r \in Writers /\ Busy(r)
  BY DEF Return, Goto, Writers, Busy
<1>2. CASE q = r
  BY <1>1, <1>2 DEF Solo, Busy, TypeInv, TypeOK
<1>3. CASE q # r
  <2>1. Solo(q)' => Solo(q)
    BY <1>1, <1>3 DEF Return, Solo, Busy, TypeInv, TypeOK, Writers
  <2>2. ~Solo(q)
    BY <1>1, <1>3 DEF MirrorInv, Alone
  <2> QED
    BY <2>1, <2>2
<1> QED
  BY <1>2, <1>3

\* A reembed is never under way beside a solo run.
LEMMA SoloReembed ==
    ASSUME TypeInv, MirrorInv, ReembedStep
    PROVE  MirrorInv'
<1> SUFFICES ASSUME NEW q \in Runs PROVE ~Solo(q)'
  BY DEF MirrorInv
<1>t. TypeOK
  BY DEF TypeInv
<1>r. q # Reembed /\ q \in Writers /\ Reembed \in Writers
  BY ConstantsAssumption DEF Writers
<1>1. CASE ReembedStart
  <2>1. Arrive(Reembed) /\ (Busy(q)' => Busy(q))
    BY <1>1, <1>r, <1>t DEF ReembedStart, Goto, Busy, TypeOK
  <2> QED
    BY <1>r, <1>t, <2>1, ArrivalEndsSolo
<1>2. CASE ~ReembedStart
  <2>1. /\ Busy(Reembed)
        /\ pc'[q] = pc[q] /\ overlapped'[q] = overlapped[q]
    BY <1>2, <1>r, <1>t
    DEF ReembedStep, ReembedList, ReembedListFails, ReembedBatch,
        ReembedBatchFails, ReembedReturn, ReembedEnd, Goto, Busy, TypeOK
  <2>2. ~Solo(q)
    BY <1>r, <2>1 DEF MirrorInv, Alone
  <2> QED
    BY <2>1, <2>2 DEF Solo, Busy
<1> QED
  BY <1>1, <1>2

\* Every step keeps what the solo run has mirrored.
LEMMA MirrorStep == TypeInv /\ MirrorInv /\ [Next]_vars => MirrorInv'
<1> SUFFICES ASSUME TypeInv, MirrorInv, [Next]_vars PROVE MirrorInv'
  OBVIOUS
<1>1. ASSUME NEW r \in Runs, RunStep(r) PROVE MirrorInv'
  <2>1. CASE Start(r)
    BY <2>1, SoloStart
  <2>2. CASE FileActions(r)
    <3>1. Solo(r) => DoneMirrored(r)' /\ CurrentMirrored(r)'
      BY <2>2, SoloFileStep
    <3> QED
      BY <2>2, <3>1, OthersNotSolo DEF TypeInv
  <2>3. CASE Return(r)
    BY <2>3, SoloReturn
  <2> QED
    BY <1>1, <2>1, <2>2, <2>3 DEF RunStep, FileStep, FileActions, EdgePass
<1>2. CASE ReembedStep
  BY <1>2, SoloReembed
<1>3. CASE Crash
  BY <1>3 DEF Crash, MirrorInv, Solo, Busy, Writers
<1>4. CASE UNCHANGED vars
  <2>0. UNCHANGED <<rows, nodes, pc, parsed, todo, failed, overlapped>>
    BY <1>4 DEF vars, stores, locals
  <2> SUFFICES ASSUME NEW r \in Runs, Solo(r)'
               PROVE  Alone(r)' /\ DoneMirrored(r)' /\ CurrentMirrored(r)'
    BY DEF MirrorInv
  <2>1. Alone(r) /\ DoneMirrored(r) /\ CurrentMirrored(r)
    BY <2>0 DEF MirrorInv, Solo, Busy
  <2>2. Alone(r)'
    BY <2>0, <2>1 DEF Alone, Busy
  <2>3. DoneMirrored(r)'
    BY <2>0, <2>1 DEF DoneMirrored, Parsed, RowsMirror, NodesMirror, ShaOf
  <2>4. File(r)' = File(r) /\ \A f : Defines(r, f)' = Defines(r, f)
    BY <2>0 DEF File, IsFirst, Defines
  <2>5. CurrentMirrored(r)'
    BY <2>0, <2>1, <2>4 DEF CurrentMirrored, RowsMirror, NodesMirror, ShaOf
  <2> QED
    BY <2>2, <2>3, <2>5
<1> QED
  BY <1>1, <1>2, <1>3, <1>4 DEF Next

\* A run that no other request overlapped returns with the unit table and the
\* graph as the tree it parsed, for every file it did not report as failed:
\* whatever earlier runs did to the stores, however they interleaved, and
\* wherever they or the process died.
THEOREM RunRepairs == Spec => []CleanRunMirrors
<1>1. Init => MirrorInv
  BY DEF Init, MirrorInv, Solo, Busy, Writers
<1>2. TypeInv /\ MirrorInv /\ [Next]_vars => MirrorInv'
  BY MirrorStep
<1>3. Spec => []TypeInv
  BY TypesAlways
<1>4. TypeInv /\ MirrorInv => CleanRunMirrors
  <2> SUFFICES ASSUME TypeInv, MirrorInv, NEW r \in Runs, pc[r] = "returned",
                      ~overlapped[r], NEW f \in Parsed(r) \ failed[r]
               PROVE  RowsMirror(r, f) /\ NodesMirror(r, f)
    BY DEF CleanRunMirrors, RowsMirror, NodesMirror
  <2>1. todo[r] = {}
    BY DEF TypeInv, Progress
  <2>2. DoneMirrored(r)
    BY DEF MirrorInv, Solo, Busy
  <2> QED
    BY <2>1, <2>2 DEF DoneMirrored
<1> QED
  BY <1>1, <1>2, <1>3, <1>4, PTL DEF Spec

---------------------------------------------------------------------------
(* The edges of a run.                                                     *)

\* The External nodes a run made are what its parse says, file by file.
CollectOK(r) ==
    /\ \A f \in Parsed(r) \ (todo[r] \union failed[r]) :
          BuildExternals(r, f) \subseteq externals
    /\ pc[r] \in {"placeholders", "embed"} =>
          BuildExternals(r, File(r)) \subseteq externals

CollectInv == \A r \in Runs : CollectOK(r)

\* What a run makes of a file depends on its parse alone.
LEMMA ParseSame ==
    ASSUME NEW r \in Runs, parsed'[r] = parsed[r]
    PROVE  /\ Parsed(r)' = Parsed(r)
           /\ \A f \in Files : /\ Defines(r, f)' = Defines(r, f)
                               /\ BuildEdges(r, f)' = BuildEdges(r, f)
                               /\ BuildExternals(r, f)' = BuildExternals(r, f)
<1>1. Parsed(r)' = Parsed(r)
  BY DEF Parsed
<1>2. \A f : Defines(r, f)' = Defines(r, f)
  BY DEF Defines
<1>3. \A u : TargetOf(r, u)' = TargetOf(r, u)
  BY <1>1, <1>2 DEF TargetOf, Resolves
<1>4. \A f : References(r, f)' = References(r, f)
  BY <1>2 DEF References
<1>5. \A f : BuildEdges(r, f)' = BuildEdges(r, f)
  BY <1>3, <1>4 DEF BuildEdges
<1>6. \A f : BuildExternals(r, f)' = BuildExternals(r, f)
  BY <1>5 DEF BuildExternals
<1> QED
  BY <1>1, <1>2, <1>5, <1>6

\* A step that finishes no file keeps what was made; one that does must have
\* made the file's External nodes.
LEMMA CollectKept ==
    ASSUME NEW r \in Runs, CollectOK(r), TypeOK,
           parsed'[r] = parsed[r], externals \subseteq externals',
           \A f \in Parsed(r) \ (todo'[r] \union failed'[r]) :
              \/ f \notin todo[r] \union failed[r]
              \/ BuildExternals(r, f) \subseteq externals',
           pc'[r] \in {"placeholders", "embed"} =>
              /\ File(r)' = File(r) /\ File(r) \in Files
              /\ BuildExternals(r, File(r)) \subseteq externals'
    PROVE  CollectOK(r)'
<1>1. ASSUME NEW f \in Parsed(r), f \notin todo'[r], f \notin failed'[r]
      PROVE  BuildExternals(r, f)' \subseteq externals'
  <2>1. f \in Files
    BY DEF Parsed
  <2>2. BuildExternals(r, f) \subseteq externals'
    BY <1>1 DEF CollectOK
  <2> QED
    BY <2>1, <2>2, ParseSame
<1>2. ASSUME pc'[r] \in {"placeholders", "embed"}
      PROVE  BuildExternals(r, File(r))' \subseteq externals'
  <2>1. File(r)' = File(r) /\ File(r) \in Files
    BY <1>2
  <2>2. BuildExternals(r, File(r))' = BuildExternals(r, File(r))
    BY <2>1, ParseSame
  <2> QED
    BY <1>2, <2>2
<1>3. Parsed(r)' = Parsed(r)
  BY ParseSame
<1> QED
  BY <1>1, <1>2, <1>3 DEF CollectOK

\* Everything a run does to a file, from the one that acts.
LEMMA CollectActs ==
    ASSUME TypeInv, NEW r \in Runs, CollectOK(r), FileActions(r)
    PROVE  CollectOK(r)'
<1>r. r \in Writers
  BY DEF Writers
<1>t. TypeOK
  BY DEF TypeInv
<1>p. parsed'[r] = parsed[r]
  BY FileActionsFrame DEF TypeInv
<1>f. pc[r] \in FileStage \/ todo[r] # {} =>
        File(r) \in todo[r] /\ File(r) \in Files /\ parsed[r][File(r)] \in Content
  BY FileParsed
<1>1. CASE \/ ListUnits(r) \/ DeleteUnits(r) \/ DeleteGraph(r) \/ LookGraph(r)
           \/ WipeGraph(r) \/ DeletePoints(r) \/ UpsertUnits(r) \/ EdgePass(r)
  <2>1. /\ UNCHANGED <<externals, todo, failed>>
        /\ pc'[r] \notin {"placeholders", "embed"}
    BY <1>1, <1>r, <1>t
    DEF ListUnits, DeleteUnits, DeleteGraph, LookGraph, WipeGraph,
        DeletePoints, UpsertUnits, EdgePass, MergeEdges, LookEdges,
        InsertEdges, EdgesDone, EdgePassFails, Goto, TypeOK, stores, locals
  <2> QED
    BY <2>1, <1>p, <1>t, CollectKept
<1>2. CASE UpsertNodes(r)
  <2>1. /\ externals' = externals \union BuildExternals(r, File(r))
        /\ failed' = failed
        /\ File(r) \in Files
    BY <1>2, <1>f DEF UpsertNodes, FileStage
  <2>2. CASE Placeholders(r) # {}
    <3>1. todo' = todo
      BY <1>2, <2>2 DEF UpsertNodes
    <3>2. File(r)' = File(r)
      BY <3>1 DEF File, IsFirst
    <3> QED
      BY <1>p, <1>t, <2>1, <3>1, <3>2, CollectKept
  <2>3. CASE ~(Placeholders(r) # {})
    <3>1. todo'[r] = todo[r] \ {File(r)} /\ pc'[r] = "list"
      BY <1>2, <1>r, <1>t, <2>3 DEF UpsertNodes, FinishFile, Goto, TypeOK
    <3> QED
      BY <1>p, <1>t, <2>1, <3>1, CollectKept
  <2> QED
    BY <2>2, <2>3
<1>3. CASE UpsertPlaceholders(r) \/ EmbedUnits(r) \/ EmbedFails(r)
  <2>1. /\ UNCHANGED <<externals, failed>>
        /\ File(r) \in Files
        /\ BuildExternals(r, File(r)) \subseteq externals
    BY <1>3, <1>f
    DEF UpsertPlaceholders, EmbedUnits, EmbedFails, FileStage, CollectOK, stores
  <2>2. CASE FinishFile(r)
    <3>1. todo'[r] = todo[r] \ {File(r)} /\ pc'[r] = "list"
      BY <1>r, <1>t, <2>2 DEF FinishFile, Goto, TypeOK
    <3> QED
      BY <1>p, <1>t, <2>1, <3>1, CollectKept
  <2>3. CASE UpsertPlaceholders(r) /\ ~FinishFile(r)
    <3>1. todo' = todo
      BY <2>3 DEF UpsertPlaceholders
    <3>2. File(r)' = File(r)
      BY <3>1 DEF File, IsFirst
    <3> QED
      BY <1>p, <1>t, <2>1, <3>1, <3>2, CollectKept
  <2> QED
    BY <1>3, <2>2, <2>3 DEF EmbedUnits, EmbedFails
<1>4. CASE FileFails(r)
  <2>1. /\ UNCHANGED externals
        /\ pc'[r] = "list"
        /\ todo'[r] = todo[r] \ {File(r)}
        /\ failed'[r] = failed[r] \union {File(r)}
    BY <1>4, <1>r, <1>t DEF FileFails, Goto, TypeOK, stores
  <2> QED
    BY <1>p, <1>t, <2>1, CollectKept
<1> QED
  BY <1>1, <1>2, <1>3, <1>4 DEF FileActions

\* Nobody else takes anything away from a run.
LEMMA CollectStep == TypeInv /\ CollectInv /\ [Next]_vars => CollectInv'
<1> SUFFICES ASSUME TypeInv, CollectInv, [Next]_vars, NEW q \in Runs
             PROVE  CollectOK(q)'
  BY DEF CollectInv
<1>t. TypeOK /\ q \in Writers /\ CollectOK(q)
  BY DEF TypeInv, Writers, CollectInv
<1>s. ASSUME parsed'[q] = parsed[q], todo'[q] = todo[q], failed'[q] = failed[q],
             pc'[q] = pc[q], externals \subseteq externals'
      PROVE  CollectOK(q)'
  <2>1. File(q)' = File(q)
    BY <1>s DEF File, IsFirst
  <2>2. pc[q] \in {"placeholders", "embed"} => File(q) \in Files
    BY FileParsed DEF FileStage
  <2>3. pc[q] \in {"placeholders", "embed"} =>
          BuildExternals(q, File(q)) \subseteq externals'
    BY <1>s, <1>t DEF CollectOK
  <2> QED
    BY <1>s, <1>t, <2>1, <2>2, <2>3, CollectKept
<1>1. ASSUME NEW r \in Runs, RunStep(r), r # q
      PROVE  CollectOK(q)'
  <2>1. /\ parsed'[q] = parsed[q] /\ todo'[q] = todo[q] /\ failed'[q] = failed[q]
        /\ pc'[q] = pc[q] /\ externals \subseteq externals'
    BY <1>1, <1>t
    DEF RunStep, Start, FileStep, ListUnits, DeleteUnits, DeleteGraph, LookGraph,
        WipeGraph, DeletePoints, UpsertUnits, UpsertNodes, UpsertPlaceholders,
        EmbedUnits, EmbedFails, FileFails, MergeEdges, LookEdges, InsertEdges,
        EdgesDone, EdgePassFails, Return, FinishFile, Goto, TypeOK, stores,
        locals
  <2> QED
    BY <2>1, <1>s
<1>2. CASE Start(q)
  <2>1. Parsed(q)' \subseteq todo'[q] /\ pc'[q] = "list"
    BY <1>2, <1>t DEF Start, Goto, TypeOK, Parsed
  <2> QED
    BY <2>1 DEF CollectOK
<1>3. CASE FileActions(q)
  BY <1>3, <1>t, CollectActs
<1>4. CASE Return(q) \/ Crash
  <2>1. /\ \A f \in Files : parsed'[q][f] = Absent
        /\ pc'[q] = "idle"
    BY <1>4, <1>t DEF Return, Crash, Goto, TypeOK
  <2>2. Parsed(q)' = {}
    BY <2>1, ConstantsAssumption DEF Parsed
  <2> QED
    BY <2>1, <2>2 DEF CollectOK
<1>5. CASE ReembedStep \/ UNCHANGED vars
  <2>1. pc'[q] = pc[q] /\ UNCHANGED <<externals, locals>>
    BY <1>5, <1>t, ConstantsAssumption
    DEF ReembedStep, ReembedStart, ReembedList, ReembedListFails,
        ReembedBatch, ReembedBatchFails, ReembedReturn, ReembedEnd, Goto,
        TypeOK, stores, vars, locals
  <2> QED
    BY <2>1, <1>s DEF locals
<1> QED
  BY <1>1, <1>2, <1>3, <1>4, <1>5
  DEF Next, RunStep, FileStep, FileActions, EdgePass

\* While a run is solo, before a step and after it, the step is its own.
LEMMA SoloMover ==
    ASSUME TypeInv, MirrorInv, [Next]_vars, NEW r \in Runs, Solo(r), Solo(r)'
    PROVE  FileActions(r) \/ UNCHANGED vars
<1>r. r \in Writers /\ Reembed \in Writers /\ r # Reembed
  BY ConstantsAssumption DEF Writers
<1>t. TypeOK /\ Busy(r) /\ Busy(r)' /\ ~overlapped'[r] /\ Alone(r)
  BY DEF TypeInv, MirrorInv, Solo
<1>1. ASSUME NEW q \in Runs, RunStep(q), q # r
      PROVE  FALSE
  <2>1. ~Busy(q)
    BY <1>1, <1>t DEF Alone, Writers
  <2>2. Start(q)
    BY <1>1, <2>1
    DEF RunStep, FileStep, ListUnits, DeleteUnits, DeleteGraph, LookGraph,
        WipeGraph, DeletePoints, UpsertUnits, UpsertNodes, UpsertPlaceholders,
        EmbedUnits, EmbedFails, FileFails, MergeEdges, LookEdges, InsertEdges,
        EdgesDone, EdgePassFails, Return, Busy
  <2> QED
    BY <1>1, <1>r, <1>t, <2>2 DEF Start, Arrive
<1>2. CASE ReembedStep
  <2>1. ~Busy(Reembed)
    BY <1>r, <1>t DEF Alone
  <2>2. ReembedStart
    BY <1>2, <2>1
    DEF ReembedStep, ReembedList, ReembedListFails, ReembedBatch,
        ReembedBatchFails, ReembedReturn, ReembedEnd, Busy
  <2> QED
    BY <1>r, <1>t, <2>2 DEF ReembedStart, Arrive
<1>3. CASE Crash \/ Return(r) \/ Start(r)
  BY <1>3, <1>r, <1>t DEF Crash, Return, Start, Goto, Busy, TypeOK
<1> QED
  BY <1>1, <1>2, <1>3 DEF Next, RunStep, FileStep, FileActions, EdgePass

\* All that a complete run has to write lands: both endpoints of every edge are
\* nodes this run merged, or External nodes it made.
LEMMA AllLand ==
    ASSUME TypeInv, MirrorInv, CollectInv, NEW r \in Runs, Solo(r),
           todo[r] = {}, failed[r] = {}, NEW f \in Parsed(r),
           NEW e \in BuildEdges(r, f)
    PROVE  Lands(e)
<1>1. BuildExternals(r, f) \subseteq externals
  BY DEF CollectInv, CollectOK
<1>2. \A g \in Parsed(r) : NodesMirror(r, g)
  BY DEF MirrorInv, DoneMirrored
<1>3. PICK ref \in References(r, f) : e = <<<<f, ref[1]>>, TargetOf(r, ref[2])>>
  BY DEF BuildEdges
<1>4. ref[1] \in Defines(r, f) /\ ref[2] \in UnitId
  BY <1>3 DEF References
<1>5. nodes[e[1]] # None
  BY <1>2, <1>3, <1>4 DEF NodesMirror, Defines
<1>6. HasNode(e[2])
  <2>1. CASE Resolves(r, ref[2])
    <3>1. e[2] = <<"unit", ref[2]>>
      BY <1>3, <2>1 DEF TargetOf
    <3>2. ref[2][1] \in Parsed(r) /\ ref[2][2] \in Defines(r, ref[2][1])
      BY <2>1 DEF Resolves
    <3>3. nodes[<<ref[2][1], ref[2][2]>>] # None
      BY <1>2, <3>2 DEF NodesMirror, Defines
    <3>4. ref[2] = <<ref[2][1], ref[2][2]>>
      BY <1>4 DEF UnitId
    <3> QED
      BY <3>1, <3>3, <3>4 DEF HasNode
  <2>2. CASE ~Resolves(r, ref[2])
    <3>1. e[2] = <<"external", ref[2]>>
      BY <1>3, <2>2 DEF TargetOf
    <3>2. e[2][2] \in BuildExternals(r, f)
      BY <3>1 DEF BuildExternals
    <3> QED
      BY <1>1, <3>1, <3>2 DEF HasNode
  <2> QED
    BY <2>1, <2>2
<1> QED
  BY <1>1, <1>5, <1>6 DEF Lands

\* Where the edges of the files a run is done with are: still to be written,
\* in flight or in the store.
Handed(r) ==
    CASE pc[r] = "insert_edges" -> landing[r] \union edges
      [] pc[r] = "returned"     -> edges
      [] OTHER -> collected[r] \union (IF todo[r] = {} THEN edges ELSE {})

LinkOK(r) ==
    Solo(r) /\ failed[r] = {} /\ edgePass[r] =>
        \A f \in Parsed(r) \ todo[r] : BuildEdges(r, f) \subseteq Handed(r)

LinkInv == \A r \in Runs : LinkOK(r)

\* A step that keeps the parse need only hand on what was handed, and the
\* edges of the file it finishes.
LEMMA LinkKept ==
    ASSUME NEW r \in Runs, LinkOK(r), Solo(r), parsed'[r] = parsed[r],
           failed'[r] = {} => failed[r] = {}, edgePass'[r] => edgePass[r],
           failed'[r] = {} /\ edgePass'[r] =>
              \A f \in Parsed(r) \ todo'[r] :
                 IF f \in todo[r] THEN BuildEdges(r, f) \subseteq Handed(r)'
                 ELSE BuildEdges(r, f) \subseteq Handed(r) =>
                      BuildEdges(r, f) \subseteq Handed(r)'
    PROVE  LinkOK(r)'
<1> SUFFICES ASSUME failed'[r] = {}, edgePass'[r], NEW f \in Parsed(r)',
                    f \notin todo'[r]
             PROVE  BuildEdges(r, f)' \subseteq Handed(r)'
  BY DEF LinkOK
<1>1. f \in Parsed(r) /\ f \in Files /\ BuildEdges(r, f)' = BuildEdges(r, f)
  BY ParseSame DEF Parsed
<1>2. f \notin todo[r] => BuildEdges(r, f) \subseteq Handed(r)
  BY <1>1 DEF LinkOK
<1> QED
  BY <1>1, <1>2

\* The steps of a solo run pass its edges on.
LEMMA LinkActs ==
    ASSUME TypeInv, MirrorInv, CollectInv, NEW r \in Runs, LinkOK(r), Solo(r),
           FileActions(r)
    PROVE  LinkOK(r)'
<1>t. TypeOK /\ r \in Writers
  BY DEF TypeInv, Writers
<1>p. parsed'[r] = parsed[r]
  BY FileActionsFrame DEF TypeInv
<1>f. pc[r] \in FileStage \/ todo[r] # {} => File(r) \in todo[r]
  BY FileParsed
<1>l. todo[r] = {} /\ failed[r] = {} =>
        \A f \in Parsed(r) : \A e \in BuildEdges(r, f) : Lands(e)
  BY AllLand
<1>1. CASE \/ ListUnits(r) \/ DeleteUnits(r) \/ DeleteGraph(r) \/ LookGraph(r)
           \/ WipeGraph(r) \/ DeletePoints(r) \/ UpsertUnits(r)
  <2>1. /\ UNCHANGED <<collected, todo, failed, edgePass>>
        /\ pc[r] \notin {"insert_edges", "returned"}
        /\ pc'[r] \notin {"insert_edges", "returned"}
        /\ todo[r] # {}
    BY <1>1, <1>t, <1>f
    DEF ListUnits, DeleteUnits, DeleteGraph, LookGraph, WipeGraph,
        DeletePoints, UpsertUnits, Goto, TypeOK, locals, FileStage
  <2>2. Handed(r)' = Handed(r)
    BY <2>1 DEF Handed
  <2> QED
    BY <2>1, <2>2, <1>p, LinkKept
<1>2. CASE UpsertNodes(r) \/ UpsertPlaceholders(r) \/ EmbedUnits(r) \/ EmbedFails(r)
  <2>0. /\ pc[r] \notin {"insert_edges", "returned"}
        /\ todo[r] # {} /\ File(r) \in todo[r]
        /\ UNCHANGED <<failed, edgePass>>
    BY <1>2, <1>f
    DEF UpsertNodes, UpsertPlaceholders, EmbedUnits, EmbedFails, FileStage
  <2>1. CASE FinishFile(r)
    <3>1. /\ collected'[r] = collected[r] \union BuildEdges(r, File(r))
          /\ todo'[r] = todo[r] \ {File(r)}
          /\ pc'[r] = "list"
      BY <1>t, <2>1 DEF FinishFile, Goto, TypeOK
    <3>2. Handed(r) = collected[r]
      BY <2>0 DEF Handed
    <3>3. collected'[r] \subseteq Handed(r)'
      BY <3>1 DEF Handed
    <3> QED
      BY <1>p, <2>0, <3>1, <3>2, <3>3, LinkKept
  <2>2. CASE ~FinishFile(r)
    <3>1. /\ collected' = collected /\ todo' = todo
          /\ pc'[r] \notin {"insert_edges", "returned"}
      BY <1>2, <1>t, <2>2
      DEF UpsertNodes, UpsertPlaceholders, EmbedUnits, EmbedFails, Goto, TypeOK
    <3>2. Handed(r)' = Handed(r)
      BY <2>0, <3>1 DEF Handed
    <3> QED
      BY <1>p, <2>0, <3>1, <3>2, LinkKept
  <2> QED
    BY <2>1, <2>2
<1>3. CASE FileFails(r)
  <2>1. failed'[r] # {}
    BY <1>3, <1>t DEF FileFails, TypeOK
  <2> QED
    BY <2>1 DEF LinkOK
<1>4. CASE EdgePassFails(r)
  <2>1. ~edgePass'[r]
    BY <1>4, <1>t DEF EdgePassFails, TypeOK
  <2> QED
    BY <2>1 DEF LinkOK
<1>5. CASE MergeEdges(r)
  <2>1. PICK batch \in SUBSET collected[r] \ {{}} :
           /\ edges' = edges \union {e \in batch : Lands(e)}
           /\ collected' = [collected EXCEPT ![r] = @ \ batch]
    BY <1>5 DEF MergeEdges
  <2>2. /\ UNCHANGED <<pc, todo, failed, edgePass>>
        /\ pc[r] = "list" /\ todo[r] = {}
    BY <1>5 DEF MergeEdges
  <2>3. Handed(r) = collected[r] \union edges
    BY <2>2 DEF Handed
  <2>4. Handed(r)' = (collected[r] \ batch) \union edges'
    BY <1>t, <2>1, <2>2 DEF Handed, TypeOK
  <2>5. ASSUME NEW S, S \subseteq Handed(r), \A e \in S : Lands(e)
        PROVE  S \subseteq Handed(r)'
    BY <2>1, <2>3, <2>4, <2>5
  <2>6. failed[r] = {} =>
          \A f \in Parsed(r) : BuildEdges(r, f) \subseteq Handed(r) =>
                              BuildEdges(r, f) \subseteq Handed(r)'
    BY <1>l, <2>2, <2>5
  <2> QED
    BY <1>p, <2>2, <2>6, LinkKept
<1>6. CASE LookEdges(r)
  <2>1. /\ UNCHANGED <<edges, todo, failed, edgePass>>
        /\ pc[r] = "list" /\ todo[r] = {} /\ pc'[r] = "insert_edges"
        /\ landing'[r] = {e \in collected[r] : Lands(e)}
    BY <1>6, <1>t DEF LookEdges, Goto, TypeOK, locals, stores
  <2>2. Handed(r) = collected[r] \union edges
    BY <2>1 DEF Handed
  <2>3. Handed(r)' = landing'[r] \union edges
    BY <2>1 DEF Handed
  <2>4. ASSUME NEW S, S \subseteq Handed(r), \A e \in S : Lands(e)
        PROVE  S \subseteq Handed(r)'
    BY <2>1, <2>2, <2>3, <2>4
  <2>5. failed[r] = {} =>
          \A f \in Parsed(r) : BuildEdges(r, f) \subseteq Handed(r) =>
                              BuildEdges(r, f) \subseteq Handed(r)'
    BY <1>l, <2>1, <2>4
  <2> QED
    BY <1>p, <2>1, <2>5, LinkKept
<1>7. CASE InsertEdges(r)
  <2>1. /\ UNCHANGED <<todo, failed, edgePass>>
        /\ pc[r] = "insert_edges" /\ pc'[r] = "returned"
        /\ edges' = edges \union landing[r]
    BY <1>7, <1>t DEF InsertEdges, Goto, TypeOK
  <2>2. Handed(r)' = Handed(r)
    BY <2>1 DEF Handed
  <2> QED
    BY <1>p, <2>1, <2>2, LinkKept
<1>8. CASE EdgesDone(r)
  <2>1. /\ UNCHANGED <<edges, todo, failed, edgePass>>
        /\ pc[r] = "list" /\ todo[r] = {} /\ pc'[r] = "returned"
        /\ collected[r] = {}
    BY <1>8, <1>t DEF EdgesDone, Goto, TypeOK, locals, stores
  <2>2. Handed(r)' = Handed(r)
    BY <2>1 DEF Handed
  <2> QED
    BY <1>p, <2>1, <2>2, LinkKept
<1> QED
  BY <1>1, <1>2, <1>3, <1>4, <1>5, <1>6, <1>7, <1>8 DEF FileActions, EdgePass

\* A run that is solo after a step and was not before it has just started.
LEMMA SoloBegins ==
    ASSUME TypeInv, [Next]_vars, NEW r \in Runs, ~Solo(r), Solo(r)'
    PROVE  Start(r)
<1>t. TypeOK /\ r \in Writers /\ r # Reembed /\ Runs \subseteq Writers
  BY ConstantsAssumption DEF TypeInv, Writers
<1>1. Busy(r) => overlapped[r] /\ ~overlapped'[r]
  BY <1>t DEF Solo, TypeOK
<1>2. ASSUME NEW q \in Runs, FileActions(q)
      PROVE  FALSE
  BY <1>1, <1>2, <1>t, FileActionsFrame DEF Solo, Busy
<1>3. ASSUME NEW q \in Runs, Start(q), q # r
      PROVE  FALSE
  <2>1. Busy(r) /\ overlapped'[r] = (overlapped[r] \/ Busy(r))
    BY <1>3, <1>t DEF Start, Arrive, Goto, Solo, Busy, TypeOK
  <2> QED
    BY <2>1 DEF Solo
<1>4. ASSUME NEW q \in Runs, Return(q)
      PROVE  FALSE
  <2>1. CASE q = r
    BY <1>4, <1>t, <2>1 DEF Return, Goto, Solo, Busy, TypeOK
  <2>2. CASE q # r
    BY <1>1, <1>4, <1>t, <2>2 DEF Return, Goto, Solo, Busy, TypeOK
  <2> QED
    BY <2>1, <2>2
<1>5. ReembedStart => FALSE
  BY <1>1, <1>t DEF ReembedStart, Arrive, Goto, Solo, Busy, TypeOK
<1>6. ASSUME ReembedStep, ~ReembedStart
      PROVE  FALSE
  BY <1>1, <1>6, <1>t
  DEF ReembedStep, ReembedList, ReembedListFails, ReembedBatch,
      ReembedBatchFails, ReembedReturn, ReembedEnd, Goto, Solo, Busy, TypeOK
<1>7. Crash \/ UNCHANGED vars => FALSE
  BY <1>1, <1>t DEF Crash, vars, Solo, Busy
<1> QED
  BY <1>2, <1>3, <1>4, <1>5, <1>6, <1>7
  DEF Next, RunStep, FileStep, FileActions, EdgePass

\* No step loses an edge of a solo run.
LEMMA LinkStep ==
    TypeInv /\ MirrorInv /\ CollectInv /\ LinkInv /\ [Next]_vars => LinkInv'
<1> SUFFICES ASSUME TypeInv, MirrorInv, CollectInv, LinkInv, [Next]_vars,
                    NEW r \in Runs, Solo(r)'
             PROVE  LinkOK(r)'
  BY DEF LinkInv, LinkOK
<1>1. CASE ~Solo(r)
  <2>1. Start(r)
    BY <1>1, SoloBegins
  <2>2. Parsed(r)' \subseteq todo'[r]
    BY <2>1 DEF Start, TypeInv, TypeOK, Parsed
  <2> QED
    BY <2>2 DEF LinkOK
<1>2. CASE Solo(r) /\ FileActions(r)
  BY <1>2, LinkActs DEF LinkInv
<1>3. CASE Solo(r) /\ UNCHANGED vars
  <2>1. UNCHANGED <<pc, parsed, todo, failed, edgePass, collected, landing, edges>>
    BY <1>3 DEF vars, stores, locals
  <2>2. Handed(r)' = Handed(r)
    BY <2>1 DEF Handed
  <2> QED
    BY <1>3, <2>1, <2>2, LinkKept DEF LinkInv
<1> QED
  BY <1>1, <1>2, <1>3, SoloMover

\* A run that nobody overlapped, that gave up on no file and whose edge pass
\* went through, leaves every edge of the tree it parsed.
THEOREM RunLinks == Spec => []CleanRunLinks
<1>1. Init => MirrorInv /\ CollectInv /\ LinkInv
  <2> SUFFICES ASSUME Init, NEW r \in Runs
               PROVE  ~Solo(r) /\ CollectOK(r)
    BY DEF MirrorInv, CollectInv, LinkInv, LinkOK
  <2>1. pc[r] = "idle" /\ Parsed(r) = {}
    BY ConstantsAssumption DEF Init, Writers, Parsed
  <2> QED
    BY <2>1 DEF Solo, Busy, CollectOK
<1>2. Spec => []TypeInv
  BY TypesAlways
<1>3. TypeInv /\ LinkInv => CleanRunLinks
  <2> SUFFICES ASSUME TypeInv, LinkInv, NEW r \in Runs, pc[r] = "returned",
                      ~overlapped[r], failed[r] = {}, edgePass[r],
                      NEW f \in Parsed(r)
               PROVE  BuildEdges(r, f) \subseteq edges
    BY DEF CleanRunLinks
  <2>1. todo[r] = {} /\ Solo(r)
    BY DEF TypeInv, Progress, Solo, Busy
  <2>2. Handed(r) = edges
    BY DEF Handed
  <2> QED
    BY <2>1, <2>2 DEF LinkInv, LinkOK
<1> QED
  BY <1>1, <1>2, <1>3, MirrorStep, CollectStep, LinkStep, PTL DEF Spec

---------------------------------------------------------------------------
(* What readers of the unit table see.                                     *)

\* Runs follow each other: no request arrives while another is in run_ingest.
OneRun == \A q, r \in Runs : Busy(q) /\ Busy(r) => q = r

\* Before the upsert the table holds none of the units it must not keep.
ReadyToUpsert(r) ==
    /\ pc[r] \in {"delete_graph", "wipe_graph", "delete_points"} =>
          \A n \in Names : rows[<<File(r), n>>] = None
    /\ pc[r] = "upsert_units" =>
          \A n \in Names : rows[<<File(r), n>>] # None => n \in Defines(r, File(r))

\* What the table shows, and what runs in progress will write to it.
VersionInv ==
    /\ \A r \in Runs : Busy(r) => parsed[r] \in Trees
    /\ \A r \in Runs : ReadyToUpsert(r)
    /\ RowsAreOneVersion

\* The table shows file f empty or as some tree has it.
OneVersion(f) ==
    \/ \A n \in Names : ShaOf(rows[<<f, n>>]) = None
    \/ \E tree \in Trees : /\ tree[f] \in Content
                           /\ \A n \in Names : ShaOf(rows[<<f, n>>]) = ShaOf(tree[f][n])

\* The property, file by file.
LEMMA OneVersionEach == RowsAreOneVersion <=> \A f \in Files : OneVersion(f)
BY DEF RowsAreOneVersion, OneVersion

\* Files whose rows a step leaves alone stay at their version.
LEMMA VersionKept ==
    ASSUME RowsAreOneVersion, NEW g,
           \A u \in UnitId : u[1] # g => rows'[u] = rows[u],
           g \in Files => OneVersion(g)'
    PROVE  RowsAreOneVersion'
<1> SUFFICES ASSUME NEW f \in Files PROVE OneVersion(f)'
  BY OneVersionEach DEF RowsAreOneVersion, OneVersion
<1>1. CASE f # g
  <2>1. \A n \in Names : rows'[<<f, n>>] = rows[<<f, n>>]
    BY <1>1 DEF UnitId
  <2>2. OneVersion(f)
    BY OneVersionEach
  <2> QED
    BY <2>1, <2>2 DEF OneVersion, ShaOf
<1> QED
  BY <1>1

\* A step of run r that works on a file.
LEMMA VersionActs ==
    ASSUME TypeInv, VersionInv, NEW r \in Runs, FileActions(r)
    PROVE  ReadyToUpsert(r)' /\ RowsAreOneVersion'
<1>r. r \in Writers
  BY DEF Writers
<1>t. TypeOK
  BY DEF TypeInv
<1>p. parsed' = parsed /\ Busy(r)
  BY FileActionsFrame DEF TypeInv
<1>i. ReadyToUpsert(r) /\ RowsAreOneVersion /\ parsed[r] \in Trees
  BY <1>p DEF VersionInv
<1>f. pc[r] \in FileStage \/ todo[r] # {} =>
        File(r) \in todo[r] /\ File(r) \in Files /\ parsed[r][File(r)] \in Content
  BY FileParsed
<1>s. ASSUME todo'[r] = todo[r]
      PROVE  File(r)' = File(r) /\ Defines(r, File(r))' = Defines(r, File(r))
  BY <1>s, <1>p DEF File, IsFirst, Defines
<1>1. CASE ListUnits(r)
  <2>1. UNCHANGED <<rows, todo>> /\ File(r) \in Files
    BY <1>1, <1>f DEF ListUnits, stores
  <2>2. pc'[r] \in {"delete_units", "upsert_units"}
    BY <1>1, <1>r, <1>t DEF ListUnits, Goto, TypeOK
  <2>3. ASSUME pc'[r] = "upsert_units", NEW n \in Names, rows[<<File(r), n>>] # None
        PROVE  n \in Defines(r, File(r))
    <3>1. Obsolete(r, [m \in Names |-> ShaOf(rows[<<File(r), m>>])]) = {}
      BY <1>1, <1>r, <1>t, <2>3 DEF ListUnits, Goto, TypeOK
    <3>2. rows[<<File(r), n>>] \in Versions
      BY <1>t, <2>1, <2>3 DEF TypeOK, UnitId
    <3>3. ShaOf(rows[<<File(r), n>>]) # None
      BY <3>2, <2>3, ShaPresent
    <3> QED
      BY <3>1, <3>3 DEF Obsolete
  <2>4. ReadyToUpsert(r)'
    BY <1>s, <2>1, <2>2, <2>3 DEF ReadyToUpsert
  <2>5. RowsAreOneVersion'
    BY <1>i, <2>1 DEF RowsAreOneVersion, ShaOf
  <2> QED
    BY <2>4, <2>5
<1>2. CASE DeleteUnits(r)
  <2>1. /\ todo' = todo /\ File(r) \in Files
        /\ \A u \in UnitId : u[1] # File(r) => rows'[u] = rows[u]
        /\ \A n \in Names : rows'[<<File(r), n>>] = None
        /\ pc'[r] = "delete_graph"
    BY <1>2, <1>r, <1>f, <1>t
    DEF DeleteUnits, locals, FileStage, UnitId, Goto, TypeOK
  <2>2. ReadyToUpsert(r)'
    BY <1>s, <2>1 DEF ReadyToUpsert
  <2>4. RowsAreOneVersion'
    <3>0. PICK g \in Files : g = File(r)
      BY <2>1
    <3>1. \A u \in UnitId : u[1] # g => rows'[u] = rows[u]
      BY <2>1, <3>0
    <3>2. OneVersion(g)'
      BY <2>1, <3>0 DEF OneVersion, ShaOf
    <3> QED
      BY <1>i, <3>1, <3>2, VersionKept
  <2> QED
    BY <2>2, <2>4
<1>3. CASE DeleteGraph(r) \/ LookGraph(r) \/ WipeGraph(r) \/ DeletePoints(r)
  <2>1. /\ UNCHANGED <<rows, todo>> /\ File(r) \in Files
        /\ \A n \in Names : rows[<<File(r), n>>] = None
        /\ pc'[r] \in {"wipe_graph", "delete_points", "upsert_units"}
        /\ pc'[r] = "upsert_units" =>
              \A n \in Names : rows[<<File(r), n>>] # None => n \in Defines(r, File(r))
    BY <1>3, <1>r, <1>f, <1>t, <1>i
    DEF DeleteGraph, LookGraph, WipeGraph, DeletePoints, locals, stores,
        FileStage, Goto, TypeOK, ReadyToUpsert
  <2>2. ReadyToUpsert(r)'
    BY <1>s, <2>1 DEF ReadyToUpsert
  <2>3. RowsAreOneVersion'
    BY <1>i, <2>1 DEF RowsAreOneVersion, ShaOf
  <2> QED
    BY <2>2, <2>3
<1>4. CASE UpsertUnits(r)
  <2>1. /\ todo' = todo /\ File(r) \in Files /\ parsed[r][File(r)] \in Content
        /\ \A u \in UnitId : u[1] # File(r) => rows'[u] = rows[u]
        /\ \A n \in Names : rows[<<File(r), n>>] # None => n \in Defines(r, File(r))
        /\ pc'[r] = "upsert_nodes"
    BY <1>4, <1>r, <1>f, <1>t, <1>i
    DEF UpsertUnits, locals, FileStage, Goto, TypeOK, ReadyToUpsert
  <2>2. ReadyToUpsert(r)'
    BY <2>1 DEF ReadyToUpsert
  <2>3. ASSUME NEW n \in Names
        PROVE  ShaOf(rows'[<<File(r), n>>]) = ShaOf(parsed[r][File(r)][n])
    <3>1. <<File(r), n>> \in UnitId
      BY <2>1 DEF UnitId
    <3>2. CASE n \in Defines(r, File(r))
      <4>1. ShaOf(parsed[r][File(r)][n]) = Sha[parsed[r][File(r)][n]]
        BY <3>2 DEF Defines, ShaOf
      <4> QED
        BY <1>4, <3>1, <3>2, <4>1 DEF UpsertUnits, Differs
    <3>3. CASE n \notin Defines(r, File(r))
      <4>1. parsed[r][File(r)][n] = None
        BY <3>3 DEF Defines
      <4>2. rows[<<File(r), n>>] = None
        BY <2>1, <3>3
      <4>3. rows'[<<File(r), n>>] = None
        BY <1>4, <3>1, <3>3, <4>2 DEF UpsertUnits
      <4> QED
        BY <4>1, <4>3 DEF ShaOf
    <3> QED
      BY <3>2, <3>3
  <2>4. RowsAreOneVersion'
    <3>0. PICK g \in Files : g = File(r)
      BY <2>1
    <3>1. \A u \in UnitId : u[1] # g => rows'[u] = rows[u]
      BY <2>1, <3>0
    <3>2. OneVersion(g)'
      BY <1>i, <2>1, <2>3, <3>0 DEF OneVersion, ShaOf
    <3> QED
      BY <1>i, <3>1, <3>2, VersionKept
  <2> QED
    BY <2>2, <2>4
<1>5. CASE \/ UpsertNodes(r) \/ UpsertPlaceholders(r) \/ EmbedUnits(r)
           \/ EmbedFails(r) \/ FileFails(r) \/ EdgePass(r)
  <2>1. /\ rows' = rows
        /\ pc'[r] \in {"placeholders", "embed", "list", "insert_edges", "returned"}
    BY <1>5, <1>r, <1>t
    DEF UpsertNodes, UpsertPlaceholders, EmbedUnits, EmbedFails, FileFails,
        EdgePass, MergeEdges, LookEdges, InsertEdges, EdgesDone,
        EdgePassFails, FinishFile, Goto, TypeOK, stores, locals
  <2> QED
    BY <1>i, <2>1 DEF ReadyToUpsert, RowsAreOneVersion, ShaOf
<1> QED
  BY <1>1, <1>2, <1>3, <1>4, <1>5 DEF FileActions

\* Every step keeps it, as long as no two runs are in progress.
LEMMA VersionStep ==
    TypeInv /\ VersionInv /\ [Next]_vars /\ OneRun /\ OneRun' => VersionInv'
<1> SUFFICES ASSUME TypeInv, VersionInv, [Next]_vars, OneRun, OneRun'
             PROVE  VersionInv'
  OBVIOUS
<1>t. TypeOK /\ Runs \subseteq Writers /\ Reembed \notin Runs
  BY ConstantsAssumption DEF TypeInv, Writers
<1>s. ASSUME UNCHANGED <<rows, todo, parsed>>, \A r \in Runs : pc'[r] = pc[r]
      PROVE  VersionInv'
  <2>1. \A r \in Runs : /\ File(r)' = File(r) /\ (Busy(r)' <=> Busy(r))
                        /\ Defines(r, File(r))' = Defines(r, File(r))
    BY <1>s DEF File, IsFirst, Defines, Busy
  <2> QED
    BY <1>s, <2>1 DEF VersionInv, ReadyToUpsert, RowsAreOneVersion, ShaOf
<1>1. ASSUME NEW r \in Runs, FileActions(r)
      PROVE  VersionInv'
  <2>1. ReadyToUpsert(r)' /\ RowsAreOneVersion'
    BY <1>1, VersionActs
  <2>2. parsed' = parsed /\ Busy(r) /\ \A w \in Writers \ {r} : pc'[w] = pc[w]
    BY <1>1, <1>t, FileActionsFrame
  <2>3. \A q \in Runs \ {r} : pc'[q] = "idle"
    BY <1>t, <2>2 DEF OneRun, Busy
  <2> QED
    BY <2>1, <2>2, <2>3 DEF VersionInv, ReadyToUpsert, Busy
<1>2. ASSUME NEW r \in Runs, Start(r) \/ Return(r)
      PROVE  VersionInv'
  <2>1. rows' = rows /\ pc'[r] \in {"list", "idle"}
    BY <1>2, <1>t DEF Start, Return, Goto, TypeOK, stores
  <2>2. pc'[r] = "list" => parsed'[r] \in Trees
    BY <1>2, <1>t DEF Start, Return, Goto, TypeOK
  <2>3. \A q \in Runs \ {r} : ~Busy(q)'
    BY <1>2, <1>t DEF Start, Return, Goto, OneRun, Busy, TypeOK
  <2>4. \A q \in Runs : pc'[q] \in {"list", "idle"}
    BY <2>1, <2>3 DEF Busy
  <2>5. RowsAreOneVersion'
    BY <2>1 DEF VersionInv, RowsAreOneVersion, ShaOf
  <2>6. \A q \in Runs : Busy(q)' => parsed'[q] \in Trees
    BY <2>1, <2>2, <2>3 DEF Busy
  <2> QED
    BY <2>4, <2>5, <2>6 DEF VersionInv, ReadyToUpsert
<1>3. CASE Crash
  <2>1. rows' = rows /\ \A r \in Runs : pc'[r] = "idle"
    BY <1>3, <1>t DEF Crash, stores
  <2>2. RowsAreOneVersion'
    BY <2>1 DEF VersionInv, RowsAreOneVersion, ShaOf
  <2> QED
    BY <2>1, <2>2 DEF VersionInv, ReadyToUpsert, Busy
<1>4. CASE ReembedStep \/ UNCHANGED vars
  <2>1. UNCHANGED <<rows, todo, parsed>> /\ \A r \in Runs : pc'[r] = pc[r]
    BY <1>4, <1>t
    DEF ReembedStep, ReembedStart, ReembedList, ReembedListFails,
        ReembedBatch, ReembedBatchFails, ReembedReturn, ReembedEnd, Goto,
        TypeOK, stores, vars, locals
  <2> QED
    BY <2>1, <1>s
<1> QED
  BY <1>1, <1>2, <1>3, <1>4
  DEF Next, RunStep, FileStep, FileActions, EdgePass

\* While runs follow each other, readers of the unit table see every file
\* empty or at one version of its text, also between two store calls of a run
\* and after one failed or died.  (Two runs that overlap can mix versions.)
THEOREM TableShowsOneVersion == Spec /\ []OneRun => []RowsAreOneVersion
<1>1. Init => VersionInv
  BY ConstantsAssumption
  DEF Init, Writers, VersionInv, ReadyToUpsert, RowsAreOneVersion, ShaOf, Busy, UnitId
<1>2. VersionInv => RowsAreOneVersion
  BY DEF VersionInv
<1>3. Spec => []TypeInv
  BY TypesAlways
<1> QED
  BY <1>1, <1>2, <1>3, VersionStep, PTL DEF Spec

---------------------------------------------------------------------------
(* The three stores against each other.                                    *)

\* The stores hold the same units of file f, at the same texts.
Agree(f) ==
    \A n \in Names :
        LET u == <<f, n>> IN
        /\ nodes[u] = None <=> rows[u] = None
        /\ IF rows[u] = None
           THEN points[u] = None
           ELSE points[u] # None /\ Sha[points[u].ver] = Sha[rows[u]]

\* The points of the current file are those of the units the run read...
PointsAsRead(r, f) ==
    \A n \in Names :
        IF existing[r][n] = None \/ Obsolete(r, existing[r]) # {}
        THEN points[<<f, n>>] = None
        ELSE /\ points[<<f, n>>] # None
             /\ Sha[points[<<f, n>>].ver] = existing[r][n]

\* ...and later those of the units it parsed, as are the nodes.
PointsDone(r, f) ==
    \A n \in Names :
        IF n \in Defines(r, f)
        THEN /\ points[<<f, n>>] # None
             /\ Sha[points[<<f, n>>].ver] = Sha[parsed[r][f][n]]
        ELSE points[<<f, n>>] = None

NodesDone(r, f) == \A n \in Names : nodes[<<f, n>>] = None <=> n \notin Defines(r, f)

\* The table holds no unit of f, or none that run r does not define.
Gone(table, f) == \A n \in Names : table[<<f, n>>] = None

Within(table, r, f) ==
    \A n \in Names : table[<<f, n>>] # None => n \in Defines(r, f)

\* How far the current file of a run has come, at each stage.
StageAgrees(r, f) ==
    /\ pc[r] \in {"delete_units", "delete_graph", "wipe_graph", "delete_points"} =>
          Obsolete(r, existing[r]) # {}
    /\ pc[r] \in {"delete_graph", "wipe_graph", "delete_points"} => Gone(rows, f)
    /\ pc[r] = "wipe_graph" =>
          \A n \in Names : nodes[<<f, n>>] # None => <<f, n>> \in doomed[r]
    /\ pc[r] = "delete_points" => Gone(nodes, f)
    /\ pc[r] = "upsert_units" => Agree(f) /\ Within(rows, r, f)
    /\ pc[r] \in {"upsert_units", "upsert_nodes", "placeholders"} =>
          PointsAsRead(r, f)
    /\ pc[r] \in {"upsert_nodes", "placeholders", "embed"} => RowsMirror(r, f)
    /\ pc[r] = "upsert_nodes" => Within(nodes, r, f)
    /\ pc[r] \in {"placeholders", "embed"} => NodesDone(r, f)
    /\ pc[r] = "embed" => PointsDone(r, f)

\* No run is in the middle of file f.
Settled(f) == \A r \in Runs : pc[r] \in FileStage => f # File(r)

\* As long as no request failed, overlapped or was killed.
CalmInv ==
    ~disturbed =>
        /\ \A w, x \in Writers : Busy(w) /\ Busy(x) => w = x
        /\ \A f \in Files : Settled(f) => Agree(f)
        /\ \A r \in Runs : pc[r] \in FileStage => StageAgrees(r, File(r))
        /\ pc[Reembed] = "embed" => \A u \in UnitId : backlog[u] \in {None, rows[u]}

\* What was read says of the points the run will not write: the units that
\* did not change have theirs, the names it does not define have none.
LEMMA PointsLeft ==
    ASSUME NEW r \in Runs, PointsAsRead(r, File(r)),
           parsed[r][File(r)] \in Content
    PROVE  \A n \in Names \ Changed(r) :
             IF n \in Defines(r, File(r))
             THEN /\ points[<<File(r), n>>] # None
                  /\ Sha[points[<<File(r), n>>].ver] = Sha[parsed[r][File(r)][n]]
             ELSE points[<<File(r), n>>] = None
<1> SUFFICES ASSUME NEW n \in Names \ Changed(r)
             PROVE  IF n \in Defines(r, File(r))
                    THEN /\ points[<<File(r), n>>] # None
                         /\ Sha[points[<<File(r), n>>].ver] = Sha[parsed[r][File(r)][n]]
                    ELSE points[<<File(r), n>>] = None
  OBVIOUS
<1>1. CASE n \in Defines(r, File(r))
  <2>1. Obsolete(r, existing[r]) = {} /\ existing[r][n] = Sha[parsed[r][File(r)][n]]
    BY <1>1 DEF Changed
  <2>2. existing[r][n] # None
    BY ConstantsAssumption, <2>1, <1>1 DEF Defines, Content
  <2> QED
    BY <1>1, <2>1, <2>2 DEF PointsAsRead
<1>2. CASE n \notin Defines(r, File(r))
  BY <1>2 DEF PointsAsRead, Obsolete
<1> QED
  BY <1>1, <1>2

\* A file at which the three stores show what run r parsed is in agreement.
LEMMA AgreeBuilt ==
    ASSUME NEW r \in Runs, NEW f \in Files, TypeOK, parsed[r][f] \in Content,
           \A n \in Names : /\ ShaOf(rows'[<<f, n>>]) = ShaOf(parsed[r][f][n])
                            /\ nodes'[<<f, n>>] = None <=> n \notin Defines(r, f)
                            /\ rows'[<<f, n>>] \in Versions \union {None}
                            /\ IF n \in Defines(r, f)
                               THEN /\ points'[<<f, n>>] # None
                                    /\ Sha[points'[<<f, n>>].ver] = Sha[parsed[r][f][n]]
                               ELSE points'[<<f, n>>] = None
    PROVE  Agree(f)'
<1> SUFFICES ASSUME NEW n \in Names
             PROVE  /\ nodes'[<<f, n>>] = None <=> rows'[<<f, n>>] = None
                    /\ IF rows'[<<f, n>>] = None
                       THEN points'[<<f, n>>] = None
                       ELSE /\ points'[<<f, n>>] # None
                            /\ Sha[points'[<<f, n>>].ver] = Sha[rows'[<<f, n>>]]
  BY DEF Agree
<1>1. parsed[r][f][n] \in Versions \union {None}
  BY DEF Content
<1>2. rows'[<<f, n>>] = None <=> n \notin Defines(r, f)
  <2>1. ShaOf(rows'[<<f, n>>]) = None <=> rows'[<<f, n>>] = None
    BY ConstantsAssumption DEF ShaOf
  <2>2. ShaOf(parsed[r][f][n]) = None <=> parsed[r][f][n] = None
    BY <1>1, ShaPresent
  <2> QED
    BY <2>1, <2>2 DEF Defines
<1>3. n \in Defines(r, f) => Sha[rows'[<<f, n>>]] = Sha[parsed[r][f][n]]
  BY <1>1, <1>2 DEF ShaOf, Defines
<1> QED
  BY <1>2, <1>3

\* Whatever is written as a point is one.
LEMMA PointPresent ==
    \A v \in Versions, x \in Shas \union {NoVector} : [ver |-> v, vec |-> x] # None
BY ConstantsAssumption

\* An embedded text has a vector or, when there is nothing to embed, none.
LEMMA VectorTyped == \A s \in Shas : VectorOf(s) \in Shas \union {NoVector}
BY DEF VectorOf

\* Where the stores are as they were, so is their agreement.
LEMMA AgreeElsewhere ==
    ASSUME NEW f \in Files, Agree(f),
           \A n \in Names : /\ rows'[<<f, n>>] = rows[<<f, n>>]
                            /\ nodes'[<<f, n>>] = nodes[<<f, n>>]
                            /\ points'[<<f, n>>] = points[<<f, n>>]
    PROVE  Agree(f)'
BY DEF Agree

\* Every step of a run that works on a file, as long as nothing went wrong.
LEMMA CalmActs ==
    ASSUME TypeInv, CalmInv, ~disturbed, ~disturbed',
           NEW r \in Runs, FileActions(r), NEW g \in Files, g = File(r),
           pc[r] \in FileStage \/ todo[r] # {}
    PROVE  /\ \A f \in Files \ {g} : Agree(f)'
           /\ pc'[r] \in FileStage => File(r)' = g /\ StageAgrees(r, g)'
           /\ pc'[r] \notin FileStage => Agree(g)'
<1>r. r \in Writers
  BY DEF Writers
<1>t. TypeOK
  BY DEF TypeInv
<1>p. parsed' = parsed /\ Busy(r) /\ \A w \in Writers \ {r} : pc'[w] = pc[w]
  BY FileActionsFrame DEF TypeInv
<1>q. \A q \in Runs \ {r} : pc[q] \notin FileStage
  BY <1>p DEF CalmInv, Busy, Writers, FileStage
<1>o. \A f \in Files \ {g} : Agree(f)
  BY <1>q DEF CalmInv, Settled
<1>c. pc[r] \notin FileStage => Agree(g)
  BY <1>q DEF CalmInv, Settled
<1>i. pc[r] \in FileStage => StageAgrees(r, g)
  BY DEF CalmInv
<1>f. g \in todo[r] /\ parsed[r][g] \in Content
  BY FileParsed
<1>g. \A n \in Names : <<g, n>> \in UnitId
  BY DEF UnitId
<1>s. ASSUME todo'[r] = todo[r]
      PROVE  File(r)' = g /\ \A f : Defines(r, f)' = Defines(r, f)
  BY <1>s, <1>p DEF File, IsFirst, Defines
<1>e. ASSUME \A u \in UnitId : u[1] # g => /\ rows'[u] = rows[u]
                                          /\ nodes'[u] = nodes[u]
                                          /\ points'[u] = points[u]
      PROVE  \A f \in Files \ {g} : Agree(f)'
  BY <1>e, <1>o, AgreeElsewhere DEF UnitId
<1>1. CASE ListUnits(r)
  <2>1. /\ UNCHANGED <<rows, nodes, points, todo>>
        /\ existing'[r] = [n \in Names |-> ShaOf(rows[<<g, n>>])]
        /\ pc'[r] = IF Obsolete(r, existing'[r]) # {} THEN "delete_units"
                                                     ELSE "upsert_units"
        /\ Agree(g)
    BY <1>1, <1>r, <1>t, <1>c DEF ListUnits, stores, Goto, TypeOK, FileStage
  <2>2. \A n \in Names : rows[<<g, n>>] \in Versions \union {None}
    BY <1>t, <1>g DEF TypeOK
  <2>3. \A n \in Names : existing'[r][n] = None <=> rows[<<g, n>>] = None
    BY <2>1, <2>2, ShaPresent
  <2>4. Obsolete(r, existing[r])' = Obsolete(r, existing'[r])
    BY <1>s, <2>1 DEF Obsolete
  <2>5. CASE pc'[r] = "delete_units"
    BY <1>e, <1>s, <2>1, <2>4, <2>5 DEF StageAgrees, FileStage
  <2>6. CASE pc'[r] = "upsert_units"
    <3>1. Obsolete(r, existing'[r]) = {}
      BY <2>1, <2>6
    <3>2. Agree(g)'
      BY <2>1, AgreeElsewhere
    <3>3. Within(rows, r, g)'
      BY <1>s, <2>1, <2>3, <3>1 DEF Within, Obsolete
    <3>4. \A n \in Names : rows[<<g, n>>] # None =>
             existing'[r][n] = Sha[rows[<<g, n>>]]
      BY <2>1 DEF ShaOf
    <3>5. PointsAsRead(r, g)'
      BY <2>1, <2>3, <2>4, <3>1, <3>4 DEF PointsAsRead, Agree
    <3> QED
      BY <1>e, <1>s, <2>1, <2>6, <3>2, <3>3, <3>5 DEF StageAgrees, FileStage
  <2> QED
    BY <2>1, <2>5, <2>6
<1>2. CASE DeleteUnits(r)
  <2>1. /\ UNCHANGED <<nodes, points, todo, existing>>
        /\ \A u \in UnitId : u[1] # g => rows'[u] = rows[u]
        /\ Gone(rows, g)'
        /\ pc'[r] = "delete_graph"
        /\ Obsolete(r, existing[r]) # {}
    BY <1>2, <1>r, <1>t, <1>i, <1>g
    DEF DeleteUnits, locals, Goto, TypeOK, FileStage, StageAgrees, Gone
  <2>2. Obsolete(r, existing[r])' = Obsolete(r, existing[r])
    BY <1>s, <2>1 DEF Obsolete
  <2> QED
    BY <1>e, <1>s, <2>1, <2>2 DEF StageAgrees, FileStage
<1>10. CASE LookGraph(r)
  <2>1. /\ UNCHANGED <<rows, nodes, points, todo, existing>>
        /\ Gone(rows, g)
        /\ doomed'[r] = Stored(g)
        /\ pc'[r] = "wipe_graph"
        /\ Obsolete(r, existing[r]) # {}
    BY <1>10, <1>r, <1>t, <1>i
    DEF LookGraph, locals, stores, Goto, TypeOK, FileStage, StageAgrees
  <2>2. Obsolete(r, existing[r])' = Obsolete(r, existing[r]) /\ Gone(rows, g)'
    BY <1>s, <2>1 DEF Obsolete, Gone
  <2>3. \A n \in Names : nodes[<<g, n>>] # None => <<g, n>> \in doomed'[r]
    BY <1>g, <2>1 DEF Stored
  <2> QED
    BY <1>e, <1>s, <2>1, <2>2, <2>3 DEF StageAgrees, FileStage
<1>11. CASE WipeGraph(r)
  <2>0. \A u \in doomed[r] : u[1] = g
    BY <1>11 DEF WipeGraph, TypeInv, DoomedHere
  <2>1. /\ UNCHANGED <<rows, points, todo, existing>>
        /\ \A u \in UnitId : u[1] # g => nodes'[u] = nodes[u]
        /\ Gone(rows, g)
        /\ pc'[r] = "delete_points"
        /\ Obsolete(r, existing[r]) # {}
    BY <1>11, <1>r, <1>t, <1>i, <2>0
    DEF WipeGraph, Wipe, locals, Goto, TypeOK, FileStage, StageAgrees
  <2>2. Gone(nodes, g)'
    BY <1>11, <1>i, <1>g DEF WipeGraph, Wipe, FileStage, StageAgrees, Gone
  <2>3. Obsolete(r, existing[r])' = Obsolete(r, existing[r]) /\ Gone(rows, g)'
    BY <1>s, <2>1 DEF Obsolete, Gone
  <2> QED
    BY <1>e, <1>s, <2>1, <2>2, <2>3 DEF StageAgrees, FileStage
<1>3. CASE DeleteGraph(r)
  <2>1. /\ UNCHANGED <<rows, points, todo, existing>>
        /\ \A u \in UnitId : u[1] # g => nodes'[u] = nodes[u]
        /\ Gone(rows, g) /\ Gone(nodes, g)'
        /\ pc'[r] = "delete_points"
        /\ Obsolete(r, existing[r]) # {}
    BY <1>3, <1>r, <1>t, <1>i, <1>g
    DEF DeleteGraph, Wipe, Stored, locals, Goto, TypeOK, FileStage,
        StageAgrees, Gone
  <2>2. Obsolete(r, existing[r])' = Obsolete(r, existing[r]) /\ Gone(rows, g)'
    BY <1>s, <2>1 DEF Obsolete, Gone
  <2> QED
    BY <1>e, <1>s, <2>1, <2>2 DEF StageAgrees, FileStage
<1>4. CASE DeletePoints(r)
  <2>1. /\ UNCHANGED <<rows, nodes, todo, existing>>
        /\ \A u \in UnitId : u[1] # g => points'[u] = points[u]
        /\ Gone(rows, g) /\ Gone(nodes, g) /\ Gone(points, g)'
        /\ pc'[r] = "upsert_units"
        /\ Obsolete(r, existing[r]) # {}
    BY <1>4, <1>r, <1>t, <1>i, <1>g
    DEF DeletePoints, locals, Goto, TypeOK, FileStage, StageAgrees, Gone
  <2>2. Obsolete(r, existing[r])' = Obsolete(r, existing[r])
    BY <1>s, <2>1 DEF Obsolete
  <2>3. Agree(g)' /\ Within(rows, r, g)' /\ PointsAsRead(r, g)'
    BY <2>1, <2>2 DEF Agree, Within, PointsAsRead, Gone
  <2> QED
    BY <1>e, <1>s, <2>1, <2>3 DEF StageAgrees, FileStage
<1>5. CASE UpsertUnits(r)
  <2>1. /\ UNCHANGED <<nodes, points, todo, existing>>
        /\ \A u \in UnitId : u[1] # g => rows'[u] = rows[u]
        /\ Agree(g) /\ Within(rows, r, g) /\ PointsAsRead(r, g)
        /\ pc'[r] = "upsert_nodes"
    BY <1>5, <1>r, <1>t, <1>i
    DEF UpsertUnits, locals, Goto, TypeOK, FileStage, StageAgrees
  <2>2. ASSUME NEW n \in Names
        PROVE  ShaOf(rows'[<<g, n>>]) = ShaOf(parsed[r][g][n])
    <3>1. CASE n \in Defines(r, g)
      <4>1. ShaOf(parsed[r][g][n]) = Sha[parsed[r][g][n]]
        BY <3>1 DEF Defines, ShaOf
      <4> QED
        BY <1>5, <1>g, <3>1, <4>1 DEF UpsertUnits, Differs
    <3>2. CASE n \notin Defines(r, g)
      <4>1. parsed[r][g][n] = None /\ rows[<<g, n>>] = None
        BY <2>1, <3>2 DEF Defines, Within
      <4>2. rows'[<<g, n>>] = None
        BY <1>5, <1>g, <3>2, <4>1 DEF UpsertUnits
      <4> QED
        BY <4>1, <4>2 DEF ShaOf
    <3> QED
      BY <3>1, <3>2
  <2>3. RowsMirror(r, g)'
    BY <1>p, <2>2 DEF RowsMirror, ShaOf
  <2>4. Within(nodes, r, g)'
    BY <1>s, <2>1 DEF Within, Agree
  <2>5. PointsAsRead(r, g)'
    BY <1>s, <2>1 DEF PointsAsRead, Obsolete
  <2> QED
    BY <1>e, <1>s, <2>1, <2>3, <2>4, <2>5 DEF StageAgrees, FileStage
<1>6. CASE UpsertNodes(r)
  <2>1. /\ UNCHANGED <<rows, points>>
        /\ \A u \in UnitId : u[1] # g => nodes'[u] = nodes[u]
        /\ RowsMirror(r, g) /\ Within(nodes, r, g) /\ PointsAsRead(r, g)
    BY <1>6, <1>i DEF UpsertNodes, FileStage, StageAgrees
  <2>2. \A n \in Names : nodes'[<<g, n>>] = None <=> n \notin Defines(r, g)
    BY <1>6, <1>g, <2>1 DEF UpsertNodes, Within, Defines
  <2>3. CASE Placeholders(r) # {}
    <3>1. UNCHANGED <<todo, existing>> /\ pc'[r] = "placeholders"
      BY <1>6, <1>r, <1>t, <2>3 DEF UpsertNodes, Goto, TypeOK
    <3>2. RowsMirror(r, g)' /\ NodesDone(r, g)' /\ PointsAsRead(r, g)'
      BY <1>p, <1>s, <2>1, <2>2, <3>1
      DEF RowsMirror, ShaOf, NodesDone, PointsAsRead, Obsolete
    <3> QED
      BY <1>e, <1>s, <2>1, <3>1, <3>2 DEF StageAgrees, FileStage
  <2>4. CASE ~(Placeholders(r) # {})
    <3>1. pc'[r] = "list"
      BY <1>6, <1>r, <1>t, <2>4 DEF UpsertNodes, FinishFile, Goto, TypeOK
    <3>2. \A n \in Names : n \in Defines(r, g) => n \notin Changed(r)
      BY <2>4 DEF Placeholders, Changed
    <3>3. \A n \in Names \ Defines(r, g) : n \notin Changed(r)
      BY DEF Changed
    <3>4. Agree(g)'
      <4>1. \A n \in Names : rows'[<<g, n>>] \in Versions \union {None}
        BY <1>g, <1>t, <2>1 DEF TypeOK
      <4> QED
        BY <1>f, <1>t, <2>1, <2>2, <3>2, <3>3, <4>1, PointsLeft, AgreeBuilt
        DEF RowsMirror
    <3> QED
      BY <1>e, <2>1, <3>1, <3>4 DEF FileStage
  <2> QED
    BY <2>3, <2>4
<1>7. CASE UpsertPlaceholders(r)
  <2>1. /\ UNCHANGED <<rows, nodes>>
        /\ \A u \in UnitId : u[1] # g => points'[u] = points[u]
        /\ RowsMirror(r, g) /\ NodesDone(r, g) /\ PointsAsRead(r, g)
    BY <1>7, <1>i DEF UpsertPlaceholders, FileStage, StageAgrees
  <2>2. ASSUME NEW n \in Names
        PROVE  IF n \in Defines(r, g)
               THEN /\ points'[<<g, n>>] # None
                    /\ Sha[points'[<<g, n>>].ver] = Sha[parsed[r][g][n]]
               ELSE points'[<<g, n>>] = None
    <3>1. CASE n \in Placeholders(r)
      <4>1. n \in Defines(r, g)
        BY <3>1 DEF Placeholders, Changed
      <4>2. points'[<<g, n>>] = [ver |-> parsed[r][g][n], vec |-> NoVector]
        BY <1>7, <1>g, <3>1 DEF UpsertPlaceholders
      <4>3. points'[<<g, n>>] # None
        BY <1>f, <4>1, <4>2, PointPresent DEF Defines, Content
      <4> QED
        BY <4>1, <4>2, <4>3
    <3>2. CASE n \notin Placeholders(r)
      <4>1. points'[<<g, n>>] = points[<<g, n>>]
        BY <1>7, <1>g, <3>2 DEF UpsertPlaceholders
      <4>2. n \notin Changed(r)
        BY <3>2 DEF Placeholders, Changed
      <4> QED
        BY <1>f, <2>1, <4>1, <4>2, PointsLeft
    <3> QED
      BY <3>1, <3>2
  <2>3. CASE embeds[r] /\ Changed(r) # {}
    <3>1. UNCHANGED <<todo, existing>> /\ pc'[r] = "embed"
      BY <1>7, <1>r, <1>t, <2>3 DEF UpsertPlaceholders, Goto, TypeOK
    <3>2. RowsMirror(r, g)' /\ NodesDone(r, g)' /\ PointsDone(r, g)'
      BY <1>p, <1>s, <2>1, <2>2, <3>1 DEF RowsMirror, ShaOf, NodesDone, PointsDone
    <3> QED
      BY <1>e, <1>s, <2>1, <3>1, <3>2 DEF StageAgrees, FileStage
  <2>4. CASE ~(embeds[r] /\ Changed(r) # {})
    <3>1. pc'[r] = "list"
      BY <1>7, <1>r, <1>t, <2>4 DEF UpsertPlaceholders, FinishFile, Goto, TypeOK
    <3>2. Agree(g)'
      <4>1. \A n \in Names : rows'[<<g, n>>] \in Versions \union {None}
        BY <1>g, <1>t, <2>1 DEF TypeOK
      <4> QED
        BY <1>f, <1>t, <2>1, <2>2, <4>1, AgreeBuilt DEF RowsMirror, NodesDone
    <3> QED
      BY <1>e, <2>1, <3>1, <3>2 DEF FileStage
  <2> QED
    BY <2>3, <2>4
<1>8. CASE EmbedUnits(r)
  <2>1. /\ UNCHANGED <<rows, nodes>>
        /\ \A u \in UnitId : u[1] # g => points'[u] = points[u]
        /\ RowsMirror(r, g) /\ NodesDone(r, g) /\ PointsDone(r, g)
    BY <1>8, <1>i DEF EmbedUnits, FileStage, StageAgrees
  <2>2. ASSUME NEW n \in Names
        PROVE  IF n \in Defines(r, g)
               THEN /\ points'[<<g, n>>] # None
                    /\ Sha[points'[<<g, n>>].ver] = Sha[parsed[r][g][n]]
               ELSE points'[<<g, n>>] = None
    <3>1. CASE n \in Changed(r)
      <4>1. n \in Defines(r, g)
        BY <3>1 DEF Changed
      <4>2. points'[<<g, n>>] =
               [ver |-> parsed[r][g][n], vec |-> VectorOf(Sha[parsed[r][g][n]])]
        BY <1>8, <1>g, <3>1 DEF EmbedUnits
      <4>3. points'[<<g, n>>] # None
        BY <1>f, <4>1, <4>2, PointPresent, VectorTyped, ConstantsAssumption
        DEF Defines, Content
      <4> QED
        BY <4>1, <4>2, <4>3
    <3>2. CASE n \notin Changed(r)
      <4>1. points'[<<g, n>>] = points[<<g, n>>]
        BY <1>8, <1>g, <3>2 DEF EmbedUnits
      <4> QED
        BY <2>1, <4>1 DEF PointsDone
    <3> QED
      BY <3>1, <3>2
  <2>3. pc'[r] = "list"
    BY <1>8, <1>r, <1>t DEF EmbedUnits, FinishFile, Goto, TypeOK
  <2>4. Agree(g)'
    <3>1. \A n \in Names : rows'[<<g, n>>] \in Versions \union {None}
      BY <1>g, <1>t, <2>1 DEF TypeOK
    <3> QED
      BY <1>f, <1>t, <2>1, <2>2, <3>1, AgreeBuilt DEF RowsMirror, NodesDone
  <2> QED
    BY <1>e, <2>1, <2>3, <2>4 DEF FileStage
<1>9. CASE EmbedFails(r) \/ FileFails(r) \/ EdgePass(r)
  BY <1>9, <1>f, FileParsed
  DEF EmbedFails, FileFails, EdgePass, MergeEdges, LookEdges, InsertEdges,
      EdgesDone, EdgePassFails, TypeInv, Progress, FileStage
<1> QED
  BY <1>1, <1>2, <1>3, <1>4, <1>5, <1>6, <1>7, <1>8, <1>9,
     <1>10, <1>11 DEF FileActions

\* Requests that only arrive, return or pass over files.
LEMMA CalmQuiet ==
    ASSUME CalmInv, ~disturbed, UNCHANGED <<rows, nodes, points>>,
           \A r \in Runs : pc[r] \notin FileStage /\ pc'[r] \notin FileStage
    PROVE  /\ \A f \in Files : Agree(f)'
           /\ \A r \in Runs : pc'[r] \in FileStage => StageAgrees(r, File(r))'
<1>1. \A f \in Files : Agree(f)
  BY DEF CalmInv, Settled
<1> QED
  BY <1>1 DEF Agree

\* A batch of the reembed writes points of units as the table has them.
LEMMA CalmBatch ==
    ASSUME TypeOK, NEW f \in Files, Agree(f), ReembedBatch,
           \A u \in UnitId : backlog[u] \in {None, rows[u]}
    PROVE  Agree(f)'
<1> SUFFICES ASSUME NEW n \in Names
             PROVE  /\ nodes'[<<f, n>>] = None <=> rows'[<<f, n>>] = None
                    /\ IF rows'[<<f, n>>] = None
                       THEN points'[<<f, n>>] = None
                       ELSE /\ points'[<<f, n>>] # None
                            /\ Sha[points'[<<f, n>>].ver] = Sha[rows'[<<f, n>>]]
  BY DEF Agree
<1>1. <<f, n>> \in UnitId /\ UNCHANGED <<rows, nodes>>
  BY DEF UnitId, ReembedBatch
<1>2. PICK batch \in SUBSET Backlog :
         points' = [u \in UnitId |->
                      IF u \in batch
                      THEN [ver |-> backlog[u], vec |-> VectorOf(Sha[backlog[u]])]
                      ELSE points[u]]
  BY DEF ReembedBatch
<1>3. CASE <<f, n>> \in batch
  <2>1. /\ backlog[<<f, n>>] = rows[<<f, n>>] /\ rows[<<f, n>>] # None
        /\ rows[<<f, n>>] \in Versions
    BY <1>1, <1>3 DEF Backlog, TypeOK
  <2>2. /\ points'[<<f, n>>] =
             [ver |-> rows[<<f, n>>], vec |-> VectorOf(Sha[rows[<<f, n>>]])]
        /\ points'[<<f, n>>] # None
    BY <1>1, <1>2, <1>3, <2>1, PointPresent, VectorTyped, ConstantsAssumption
  <2> QED
    BY <1>1, <2>1, <2>2 DEF Agree
<1>4. CASE <<f, n>> \notin batch
  BY <1>1, <1>2, <1>4 DEF Agree
<1> QED
  BY <1>3, <1>4

\* A reembed that nothing disturbs.
LEMMA CalmReembed ==
    ASSUME TypeInv, CalmInv, ~disturbed, ~disturbed', ReembedStep
    PROVE  CalmInv'
<1>t. TypeOK /\ Reembed \in Writers /\ Reembed \notin Runs /\ Runs \subseteq Writers
  BY ConstantsAssumption DEF TypeInv, Writers
<1>1. \A r \in Runs : pc[r] = "idle" /\ pc'[r] = "idle"
  <2>1. \A r \in Runs : pc'[r] = pc[r]
    BY <1>t DEF ReembedStep, ReembedStart, ReembedList, ReembedListFails,
      ReembedBatch, ReembedBatchFails, ReembedReturn, ReembedEnd, Goto, TypeOK
  <2>2. CASE ReembedStart
    BY <1>t, <2>1, <2>2 DEF ReembedStart, Arrive, Busy
  <2>3. CASE ~ReembedStart
    <3>1. Busy(Reembed)
      BY <2>3 DEF ReembedStep, ReembedList, ReembedListFails, ReembedBatch,
        ReembedBatchFails, ReembedReturn, ReembedEnd, Busy
    <3> QED
      BY <1>t, <2>1, <3>1 DEF CalmInv, Busy
  <2> QED
    BY <2>2, <2>3
<1>2. \A w, x \in Writers : Busy(w)' /\ Busy(x)' => w = x
  BY <1>1 DEF Busy, Writers
<1>3. pc'[Reembed] = "embed" => \A u \in UnitId : backlog'[u] \in {None, rows'[u]}
  BY <1>t DEF ReembedStep, ReembedStart, ReembedList, ReembedListFails,
    ReembedBatch, ReembedBatchFails, ReembedReturn, ReembedEnd, ToReembed, Goto,
    CalmInv, TypeOK, stores
<1>4. CASE ReembedBatch
  <2>1. \A f \in Files : Agree(f)
    BY <1>1 DEF CalmInv, Settled, FileStage
  <2>2. \A u \in UnitId : backlog[u] \in {None, rows[u]}
    BY <1>4 DEF ReembedBatch, CalmInv
  <2>3. \A f \in Files : Agree(f)'
    BY <1>4, <1>t, <2>1, <2>2, CalmBatch
  <2> QED
    BY <1>1, <1>2, <1>3, <2>3 DEF CalmInv, FileStage
<1>5. CASE ~ReembedBatch
  <2>1. UNCHANGED <<rows, nodes, points>>
    BY <1>5 DEF ReembedStep, ReembedStart, ReembedList, ReembedListFails,
      ReembedBatchFails, ReembedReturn, ReembedEnd, stores
  <2>2. \A f \in Files : Agree(f)'
    BY <1>1, <2>1, CalmQuiet DEF FileStage
  <2> QED
    BY <1>1, <1>2, <1>3, <2>2 DEF CalmInv, FileStage
<1> QED
  BY <1>4, <1>5

\* A run that nothing disturbs.
LEMMA CalmRun ==
    ASSUME TypeInv, CalmInv, ~disturbed, ~disturbed', NEW r \in Runs, RunStep(r)
    PROVE  CalmInv'
<1>t. TypeOK /\ r \in Writers /\ r # Reembed /\ Reembed \in Writers /\ Runs \subseteq Writers
  BY ConstantsAssumption DEF TypeInv, Writers
<1>1. /\ \A w \in Writers \ {r} : pc[w] = "idle" /\ pc'[w] = "idle"
      /\ \A w, x \in Writers : Busy(w)' /\ Busy(x)' => w = x
  <2>1. \A w \in Writers \ {r} : pc'[w] = pc[w]
    BY <1>t DEF RunStep, FileStep, Start, ListUnits, DeleteUnits, DeleteGraph,
        LookGraph, WipeGraph, DeletePoints, UpsertUnits, UpsertNodes,
        UpsertPlaceholders, EmbedUnits, EmbedFails, FileFails, MergeEdges,
        LookEdges, InsertEdges, EdgesDone, EdgePassFails, Return, FinishFile,
        Goto, TypeOK
  <2>2. CASE Start(r)
    BY <1>t, <2>1, <2>2 DEF Start, Arrive, Busy
  <2>3. CASE ~Start(r)
    <3>1. Busy(r)
      BY <2>3 DEF RunStep, FileStep, ListUnits, DeleteUnits, DeleteGraph,
          LookGraph, WipeGraph, DeletePoints, UpsertUnits, UpsertNodes,
          UpsertPlaceholders, EmbedUnits, EmbedFails, FileFails, MergeEdges,
          LookEdges, InsertEdges, EdgesDone, EdgePassFails, Return, Busy
    <3> QED
      BY <1>t, <2>1, <3>1 DEF CalmInv, Busy
  <2> QED
    BY <2>2, <2>3
<1>2. \A q \in Runs \ {r} : pc[q] \notin FileStage /\ pc'[q] \notin FileStage
  BY <1>1, <1>t DEF FileStage
<1>3. pc'[Reembed] # "embed"
  BY <1>1, <1>t
<1>4. CASE \/ Start(r) \/ Return(r) \/ EdgePass(r)
  <2>1. UNCHANGED <<rows, nodes, points>> /\ pc[r] \notin FileStage /\ pc'[r] \notin FileStage
    BY <1>4, <1>t DEF Start, Return, EdgePass, MergeEdges, LookEdges,
       InsertEdges, EdgesDone, EdgePassFails, Goto, TypeOK, FileStage, stores
  <2>2. \A q \in Runs : pc[q] \notin FileStage /\ pc'[q] \notin FileStage
    BY <1>2, <2>1
  <2>3. \A f \in Files : Agree(f)'
    BY <2>1, <2>2, CalmQuiet
  <2> QED
    BY <1>1, <1>3, <2>2, <2>3 DEF CalmInv
<1>5. CASE FileActions(r) /\ ~EdgePass(r)
  <2>1. pc[r] \in FileStage \/ todo[r] # {}
    BY <1>5 DEF FileActions, ListUnits, DeleteUnits, DeleteGraph, LookGraph,
      WipeGraph, DeletePoints, UpsertUnits, UpsertNodes, UpsertPlaceholders,
      EmbedUnits, EmbedFails, FileFails, FileStage
  <2>2. PICK g \in Files : g = File(r)
    BY <2>1, FileParsed
  <2>3. /\ \A f \in Files \ {g} : Agree(f)'
        /\ pc'[r] \in FileStage => File(r)' = g /\ StageAgrees(r, g)'
        /\ pc'[r] \notin FileStage => Agree(g)'
    BY <1>5, <2>1, <2>2, CalmActs
  <2>4. \A f \in Files : Settled(f)' => Agree(f)'
    BY <2>3 DEF Settled
  <2> QED
    BY <1>1, <1>2, <1>3, <2>3, <2>4 DEF CalmInv
<1> QED
  BY <1>4, <1>5 DEF RunStep, FileStep, FileActions, EdgePass

\* Every step keeps the stores in agreement until the first disturbance.
LEMMA CalmStep == TypeInv /\ CalmInv /\ [Next]_vars => CalmInv'
<1> SUFFICES ASSUME TypeInv, CalmInv, [Next]_vars, ~disturbed' PROVE CalmInv'
  BY DEF CalmInv
<1>1. ~disturbed
  BY DEF Next, RunStep, FileStep, Start, ListUnits, DeleteUnits, DeleteGraph,
      LookGraph, WipeGraph, DeletePoints, UpsertUnits, UpsertNodes,
      UpsertPlaceholders, EmbedUnits, EmbedFails, FileFails, MergeEdges,
      LookEdges, InsertEdges, EdgesDone, EdgePassFails, Return, Arrive,
      ReembedStep, ReembedStart, ReembedList, ReembedListFails, ReembedBatch,
      ReembedBatchFails, ReembedReturn, ReembedEnd, Crash, vars
<1>2. ASSUME NEW r \in Runs, RunStep(r) PROVE CalmInv'
  BY <1>1, <1>2, CalmRun
<1>3. CASE ReembedStep
  BY <1>1, <1>3, CalmReembed
<1>4. CASE Crash
  BY <1>4 DEF Crash
<1>5. CASE UNCHANGED vars
  <2>1. /\ UNCHANGED <<rows, nodes, points, pc, backlog, existing, todo, parsed,
                      doomed>>
        /\ UNCHANGED disturbed
    BY <1>5 DEF vars, stores, locals
  <2>2. \A r \in Runs : File(r)' = File(r) /\ \A f : Defines(r, f)' = Defines(r, f)
    BY <2>1 DEF File, IsFirst, Defines
  <2>3. \A f \in Files : (Agree(f)' <=> Agree(f)) /\ (Settled(f)' <=> Settled(f))
    BY <2>1, <2>2 DEF Agree, Settled
  <2>4. \A r \in Runs : StageAgrees(r, File(r)) <=> StageAgrees(r, File(r))'
    BY <2>1, <2>2 DEF StageAgrees, Obsolete, Gone, Agree, Within, PointsAsRead,
      RowsMirror, ShaOf, NodesDone, PointsDone
  <2> QED
    BY <1>1, <2>1, <2>3, <2>4 DEF CalmInv, Busy
<1> QED
  BY <1>2, <1>3, <1>4, <1>5 DEF Next

\* Empty stores agree.
LEMMA InitCalm == Init => CalmInv
<1> SUFFICES ASSUME Init PROVE CalmInv
  OBVIOUS
<1>1. \A w \in Writers : pc[w] = "idle"
  BY DEF Init
<1>2. \A f \in Files : Agree(f)
  BY DEF Init, Agree, UnitId
<1> QED
  BY <1>1, <1>2 DEF CalmInv, Busy, FileStage, Writers

\* While nothing ever failed, overlapped or was killed, the three stores hold
\* the same units of a file once its run returned.
THEOREM CalmStoresAgree == Spec => []StoresAgree
<1>1. CalmInv => StoresAgree
  <2> SUFFICES ASSUME CalmInv, ~disturbed, NEW r \in Runs, pc[r] = "returned",
                      NEW f \in Files
               PROVE  Agree(f)
    BY DEF StoresAgree, Parsed, Agree
  <2>1. \A q \in Runs : pc[q] \notin FileStage
    BY DEF CalmInv, Busy, Writers, FileStage
  <2> QED
    BY <2>1 DEF CalmInv, Settled
<1>2. Spec => []TypeInv
  BY TypesAlways
<1> QED
  BY <1>1, <1>2, InitCalm, CalmStep, PTL DEF Spec

\* What a step of one run does to the vector of one unit: it loses it to a
\* placeholder only when its text changed or the run has no pipeline.
LEMMA PlaceholderEarned ==
    ASSUME TypeInv, CalmInv, ~disturbed, NEW r \in Runs, UpsertPlaceholders(r),
           embeds[r], NEW u \in UnitId,
           points[u] # None, points'[u] # points[u]
    PROVE  Sha[points[u].ver] # Sha[points'[u].ver]
<1>1. File(r) \in Files /\ parsed[r][File(r)] \in Content
  BY FileParsed DEF UpsertPlaceholders, FileStage
<1>2. /\ u[1] = File(r) /\ u[2] \in Changed(r)
      /\ points'[u] = [ver |-> parsed[r][File(r)][u[2]], vec |-> NoVector]
  BY DEF UpsertPlaceholders, Placeholders
<1>3. u = <<File(r), u[2]>> /\ u[2] \in Names /\ u[2] \in Defines(r, File(r))
  BY <1>2 DEF UnitId, Changed
<1>4. PointsAsRead(r, File(r))
  BY DEF CalmInv, StageAgrees, UpsertPlaceholders, FileStage
<1>5. /\ Obsolete(r, existing[r]) = {}
      /\ Sha[points[u].ver] = existing[r][u[2]]
  BY <1>3, <1>4 DEF PointsAsRead
<1>6. existing[r][u[2]] # Sha[parsed[r][File(r)][u[2]]]
  BY <1>2, <1>5 DEF Changed
<1> QED
  BY <1>2, <1>5, <1>6

\* A point has no vector or that of the text it describes.
PointsOwn ==
    \A u \in UnitId :
        points[u] # None => points[u].vec \in {NoVector, VectorOf(Sha[points[u].ver])}

LEMMA OwnStep == TypeInv /\ PointsOwn /\ [Next]_vars => PointsOwn'
<1> SUFFICES ASSUME TypeInv, PointsOwn, [Next]_vars, NEW u \in UnitId,
                    points'[u] # None, points'[u] # points[u]
             PROVE  points'[u].vec \in {NoVector, VectorOf(Sha[points'[u].ver])}
  BY DEF PointsOwn
<1>1. CASE ReembedBatch
  <2>1. PICK batch \in SUBSET Backlog :
           points' = [v \in UnitId |->
                        IF v \in batch
                        THEN [ver |-> backlog[v], vec |-> VectorOf(Sha[backlog[v]])]
                        ELSE points[v]]
    BY <1>1 DEF ReembedBatch
  <2> QED
    BY <2>1
<1>2. ASSUME NEW r \in Runs,
             DeletePoints(r) \/ UpsertPlaceholders(r) \/ EmbedUnits(r)
      PROVE  points'[u].vec \in {NoVector, VectorOf(Sha[points'[u].ver])}
  BY <1>2 DEF DeletePoints, UpsertPlaceholders, EmbedUnits
<1> QED
  BY <1>1, <1>2
  DEF Next, RunStep, FileStep, Start, ListUnits, DeleteUnits, DeleteGraph,
      LookGraph, WipeGraph, UpsertUnits, UpsertNodes, EmbedFails, FileFails,
      MergeEdges, LookEdges, InsertEdges, EdgesDone, EdgePassFails, Return,
      ReembedStep, ReembedStart, ReembedList, ReembedListFails,
      ReembedBatchFails, ReembedReturn, ReembedEnd, Crash, stores, vars

\* Re-ingesting never zeroes the vectors of unchanged units, as long as
\* nothing failed or overlapped.
THEOREM UnchangedKeepVectors == Spec => VectorsKept
<1> DEFINE Kept ==
      \A u \in UnitId :
          /\ points[u] # None /\ points'[u] # None
          /\ points[u].vec # NoVector /\ points'[u].vec = NoVector
          => \/ Sha[points[u].ver] # Sha[points'[u].ver]
             \/ \E r \in Runs : pc[r] = "placeholders" /\ ~embeds[r]
             \/ disturbed
<1>1. TypeInv /\ CalmInv /\ PointsOwn /\ [Next]_vars => [Kept]_vars
  <2> SUFFICES ASSUME TypeInv, CalmInv, PointsOwn, Next, ~disturbed, NEW u \in UnitId,
                      points[u] # None, points'[u] # None,
                      points[u].vec # NoVector, points'[u].vec = NoVector
               PROVE  \/ Sha[points[u].ver] # Sha[points'[u].ver]
                      \/ \E r \in Runs : pc[r] = "placeholders" /\ ~embeds[r]
    OBVIOUS
  <2>1. ASSUME NEW r \in Runs, UpsertPlaceholders(r)
        PROVE  \/ Sha[points[u].ver] # Sha[points'[u].ver]
               \/ \E q \in Runs : pc[q] = "placeholders" /\ ~embeds[q]
    BY <2>1, PlaceholderEarned DEF UpsertPlaceholders
  <2>2. ASSUME NEW r \in Runs, DeletePoints(r)
        PROVE  FALSE
    BY <2>2 DEF DeletePoints
  <2>3. ASSUME points'[u].vec = VectorOf(Sha[points'[u].ver])
        PROVE  Sha[points[u].ver] # Sha[points'[u].ver]
    BY <2>3 DEF PointsOwn
  <2>6. ASSUME NEW r \in Runs, EmbedUnits(r), points'[u] # points[u]
        PROVE  points'[u].vec = VectorOf(Sha[points'[u].ver])
    BY <2>6 DEF EmbedUnits
  <2>4. ASSUME ReembedBatch, points'[u] # points[u]
        PROVE  points'[u].vec = VectorOf(Sha[points'[u].ver])
    <3>1. PICK batch \in SUBSET Backlog :
             points' = [v \in UnitId |->
                          IF v \in batch
                          THEN [ver |-> backlog[v], vec |-> VectorOf(Sha[backlog[v]])]
                          ELSE points[v]]
      BY <2>4 DEF ReembedBatch
    <3> QED
      BY <2>4, <3>1
  <2>5. points'[u] # points[u]
    OBVIOUS
  <2> QED
    BY <2>1, <2>2, <2>3, <2>4, <2>5, <2>6
    DEF Next, RunStep, FileStep, Start, ListUnits, DeleteUnits, DeleteGraph,
        LookGraph, WipeGraph, UpsertUnits, UpsertNodes, EmbedFails, FileFails,
        MergeEdges, LookEdges, InsertEdges, EdgesDone, EdgePassFails, Return,
        ReembedStep, ReembedStart, ReembedList, ReembedListFails,
        ReembedBatchFails, ReembedReturn, ReembedEnd, Crash, stores
<1>2. Spec => []TypeInv
  BY TypesAlways
<1>3. Init => PointsOwn
  BY DEF Init, PointsOwn
<1> QED
  BY <1>1, <1>2, <1>3, InitCalm, CalmStep, OwnStep, PTL DEF Spec, VectorsKept

---------------------------------------------------------------------------
(* The backfill.                                                           *)

\* A unit the reembed still has to embed, or has embedded.
Backfilled(u) ==
    \/ pc[Reembed] = "embed" /\ backlog[u] = rows[u]
    \/ /\ points[u] # None
       /\ Sha[points[u].ver] = Sha[rows[u]]
       /\ points[u].vec = VectorOf(Sha[rows[u]])

\* Nobody else is active, and nothing read is forgotten.
BackfillInv ==
    Busy(Reembed) /\ ~overlapped[Reembed] =>
        /\ \A r \in Runs : ~Busy(r)
        /\ pc[Reembed] \in {"embed", "returned"} =>
              \A u \in UnitId :
                 /\ pc[Reembed] = "embed" => backlog[u] \in {None, rows[u]}
                 /\ rows[u] # None /\ ~skipped => Backfilled(u)

\* One batch leaves nothing of itself behind.
LEMMA BackfillBatch ==
    ASSUME TypeOK, BackfillInv, ReembedBatch, Reembed \in Writers,
           ~overlapped[Reembed], NEW u \in UnitId
    PROVE  /\ backlog'[u] \in {None, rows[u]}
           /\ rows[u] # None /\ ~skipped => Backfilled(u)'
<1>1. /\ pc[Reembed] = "embed" /\ pc'[Reembed] = "embed" /\ rows' = rows
      /\ backlog[u] \in {None, rows[u]}
      /\ rows[u] # None /\ ~skipped => Backfilled(u)
  BY DEF ReembedBatch, BackfillInv, Busy
<1>2. PICK batch \in SUBSET Backlog :
         /\ points' = [v \in UnitId |->
                         IF v \in batch
                         THEN [ver |-> backlog[v], vec |-> VectorOf(Sha[backlog[v]])]
                         ELSE points[v]]
         /\ backlog' = [v \in UnitId |-> IF v \in batch THEN None ELSE backlog[v]]
  BY DEF ReembedBatch
<1>3. CASE u \in batch
  <2>1. backlog[u] = rows[u] /\ rows[u] \in Versions
    BY <1>1, <1>3 DEF Backlog, TypeOK
  <2>2. /\ points'[u] = [ver |-> rows[u], vec |-> VectorOf(Sha[rows[u]])]
        /\ points'[u] # None
    BY <1>2, <1>3, <2>1, PointPresent, VectorTyped, ConstantsAssumption
  <2> QED
    BY <1>1, <1>2, <1>3, <2>2 DEF Backfilled
<1>4. CASE u \notin batch
  <2>1. points'[u] = points[u] /\ backlog'[u] = backlog[u]
    BY <1>2, <1>4
  <2> QED
    BY <1>1, <2>1 DEF Backfilled
<1> QED
  BY <1>3, <1>4

\* Every step of any request keeps what the reembed has backfilled, as long
\* as nobody overlaps it.
LEMMA BackfillStep == TypeInv /\ BackfillInv /\ [Next]_vars => BackfillInv'
<1> SUFFICES ASSUME TypeInv, BackfillInv, [Next]_vars,
                    Busy(Reembed)', ~overlapped'[Reembed]
             PROVE  BackfillInv'
  BY DEF BackfillInv
<1>t. TypeOK /\ Reembed \in Writers /\ Reembed \notin Runs /\ Runs \subseteq Writers
  BY ConstantsAssumption DEF TypeInv, Writers
<1>1. CASE ReembedStart
  <2>1. pc'[Reembed] = "list" /\ \A r \in Runs : ~Busy(r) /\ pc'[r] = pc[r]
    BY <1>1, <1>t DEF ReembedStart, Arrive, Goto, Busy, TypeOK
  <2> QED
    BY <2>1 DEF BackfillInv, Busy
<1>2. CASE ReembedStep /\ ~ReembedStart
  <2>1. /\ Busy(Reembed) /\ ~overlapped[Reembed] /\ rows' = rows
        /\ \A r \in Runs : pc'[r] = pc[r]
    BY <1>2, <1>t DEF ReembedStep, ReembedList, ReembedListFails, ReembedBatch,
      ReembedBatchFails, ReembedReturn, ReembedEnd, Goto, Busy, TypeOK, stores
  <2>2. \A r \in Runs : ~Busy(r)'
    BY <2>1 DEF BackfillInv, Busy
  <2>3. CASE ReembedBatch
    <3>1. pc'[Reembed] = "embed" /\ skipped' = skipped
      BY <2>3 DEF ReembedBatch
    <3>2. \A u \in UnitId : /\ backlog'[u] \in {None, rows[u]}
                            /\ rows[u] # None /\ ~skipped => Backfilled(u)'
      BY <1>t, <2>1, <2>3, BackfillBatch
    <3> QED
      BY <2>1, <2>2, <3>1, <3>2 DEF BackfillInv
  <2>4. CASE ReembedList
    BY <1>t, <2>1, <2>2, <2>4
    DEF ReembedList, ToReembed, Goto, TypeOK, BackfillInv, Backfilled
  <2>5. CASE ReembedBatchFails
    <3>1. /\ pc[Reembed] = "embed" /\ pc'[Reembed] = "embed" /\ skipped'
          /\ \A u \in UnitId : backlog'[u] \in {None, backlog[u]}
      BY <2>5 DEF ReembedBatchFails
    <3> QED
      BY <2>1, <2>2, <3>1 DEF BackfillInv
  <2>6. CASE ReembedReturn
    <3>1. /\ pc[Reembed] = "embed" /\ pc'[Reembed] = "returned"
          /\ \A u \in UnitId : backlog[u] = None
          /\ UNCHANGED <<points, skipped>>
      BY <1>t, <2>6 DEF ReembedReturn, Backlog, Goto, TypeOK, stores
    <3> QED
      BY <2>1, <2>2, <3>1 DEF BackfillInv, Backfilled
  <2>7. CASE ReembedListFails \/ ReembedEnd
    BY <1>t, <2>7 DEF ReembedListFails, ReembedEnd, Goto, Busy, TypeOK
  <2> QED
    BY <1>2, <2>3, <2>4, <2>5, <2>6, <2>7 DEF ReembedStep
<1>3. ASSUME NEW r \in Runs, RunStep(r)
      PROVE  BackfillInv'
  <2>1. Busy(Reembed) /\ pc'[Reembed] = pc[Reembed]
    BY <1>3, <1>t DEF RunStep, FileStep, Start, ListUnits, DeleteUnits,
        DeleteGraph, LookGraph, WipeGraph, DeletePoints, UpsertUnits,
        UpsertNodes, UpsertPlaceholders, EmbedUnits, EmbedFails, FileFails,
        MergeEdges, LookEdges, InsertEdges, EdgesDone, EdgePassFails, Return,
        FinishFile, Goto, Busy, TypeOK
  <2>2. CASE Start(r)
    BY <1>t, <2>1, <2>2 DEF Start, Arrive, Busy
  <2>3. CASE ~Start(r)
    <3>1. Busy(r) /\ overlapped'[Reembed] = overlapped[Reembed]
      BY <1>3, <1>t, <2>3 DEF RunStep, FileStep, ListUnits, DeleteUnits,
          DeleteGraph, LookGraph, WipeGraph, DeletePoints, UpsertUnits,
          UpsertNodes, UpsertPlaceholders, EmbedUnits, EmbedFails, FileFails,
          MergeEdges, LookEdges, InsertEdges, EdgesDone, EdgePassFails,
          Return, FinishFile, Busy, TypeOK
    <3> QED
      BY <2>1, <3>1 DEF BackfillInv
  <2> QED
    BY <2>2, <2>3
<1>4. CASE Crash
  BY <1>4, <1>t DEF Crash, Busy
<1>5. CASE UNCHANGED vars
  BY <1>5 DEF vars, stores, locals, BackfillInv, Backfilled, Busy
<1> QED
  BY <1>1, <1>2, <1>3, <1>4, <1>5 DEF Next

\* A reembed that nothing overlapped and that lost no batch leaves every unit
\* of the table with a point of its text, and with the vector of that text if
\* it has a chunk to embed, whatever came before.
THEOREM BackfillComplete == Spec => []ReembedBackfills
<1>1. Init => BackfillInv
  BY DEF Init, Writers, BackfillInv, Busy
<1>2. BackfillInv => ReembedBackfills
  BY DEF BackfillInv, Backfilled, ReembedBackfills, Busy
<1>3. Spec => []TypeInv
  BY TypesAlways
<1> QED
  BY <1>1, <1>2, <1>3, BackfillStep, PTL DEF Spec
=============================================================================
