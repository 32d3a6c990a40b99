--------------------------- MODULE KnowledgeProofs ---------------------------
(***************************************************************************)
(* What TLAPS proves of the memory and of the ways to it: the graph stores *)
(* of both tiers, the keys and tokens that open the gates, what a          *)
(* retrieval finds, ranks and packs, the summaries of a compression run,   *)
(* the unit table with the tools that answer from it, and the names of the *)
(* units of a file.  The parts share no state.                             *)
(***************************************************************************)
EXTENDS GraphStores, Credentials, Retrieval, Compression, UnitTable, UnitNames,
        OrderingProofs, FiniteSetTheorems, SequenceTheorems, TLAPS

---------------------------------------------------------------------------
(* The graph stores.  Every statement of a graph repository is a step of   *)
(* the contract, for any nodes, edges, calls and sessions, on both tiers.  *)
(* The invariant says what a statement may rely on: it carries what        *)
(* callers may write, and a stored node is one written record, whole; on   *)
(* the server tier that rests on every write of an id having the same      *)
(* properties.                                                             *)

NodesStatement == [op : {"nodes"}, nodes : Seq(NodeRecords)]
EdgesStatement == [op : {"edges"}, edges : SUBSET EdgeRecords]
Deletion       == {c \in Calls : c.op = "delete"}
Statement      == NodesStatement \union EdgesStatement \union Deletion

\* A node that is stored has the properties of one record with its id.
NodesWhole ==
    /\ nodes = [i \in DOMAIN nodes |-> nodes[i]]
    /\ \A i \in DOMAIN nodes : \E n \in NodeRecords : n.id = i /\ nodes[i] = n.props

\* What a session of the lite tier has read, with nothing behind it to do.
Insertion == [op : {"insert"}, edges : SUBSET EdgeRecords]
Wipe      == [op : {"wipe"}, ids : SUBSET {n.id : n \in NodeRecords}]
Pending   ==
    Seq(Statement) \union
    {<<r>> : r \in IF tier = "lite" THEN Insertion \union Wipe ELSE {}}

StatementsInv == todo \in [Sessions -> Pending]

\* Finitely many nodes, and edges callers may have written.
StoredBounded == IsFiniteSet(DOMAIN nodes) /\ edges \subseteq EdgeRecords

\* What is raced is stored or in flight, and nothing is on the server tier.
RacedKept == raced \subseteq edges \union InFlight /\ (tier = "server" => raced = {})

StoresInv == NodesWhole /\ StatementsInv /\ StoredBounded /\ RacedKept

TiersInv == tier \in {"lite", "server"}

---------------------------------------------------------------------------

(* A call comes apart into statements a session may run.                   *)
LEMMA StatementsTyped ==
    ASSUME NEW call \in Calls
    PROVE  Statements(call) \in Seq(Statement)
<1>1. call \in Statement
  BY StoresAssumption DEF Statement, NodesStatement, EdgesStatement, Deletion
<1>2. <<call>> \in Seq(Statement)
  BY <1>1
<1>3. CASE call \in NodesStatement
  <2>1. DOMAIN call.nodes = 1..Len(call.nodes) /\ Len(call.nodes) \in Nat
    BY <1>3 DEF NodesStatement
  <2>2. \A i \in 1..Len(call.nodes) : [op |-> "nodes", nodes |-> <<call.nodes[i]>>] \in Statement
    <3> TAKE i \in 1..Len(call.nodes)
    <3>1. <<call.nodes[i]>> \in Seq(NodeRecords)
      BY <1>3 DEF NodesStatement
    <3> QED
      BY <3>1 DEF Statement, NodesStatement
  <2>3. [i \in DOMAIN call.nodes |-> [op |-> "nodes", nodes |-> <<call.nodes[i]>>]]
          \in [1..Len(call.nodes) -> Statement]
    BY <2>1, <2>2
  <2>4. [i \in DOMAIN call.nodes |-> [op |-> "nodes", nodes |-> <<call.nodes[i]>>]]
          \in Seq(Statement)
    BY <2>1, <2>3, SeqDef
  <2> QED
    BY <1>2, <1>3, <2>4 DEF Statements, LiteStatements, ServerStatements, NodesStatement
<1>4. CASE call \in EdgesStatement
  <2> DEFINE kinds == {k \in DOMAIN EdgeKinds : \E e \in call.edges : e.kind = EdgeKinds[k]}
             Nth(n) == CHOOSE k \in kinds : Cardinality({j \in kinds : j <= k}) = n
             Some(n) == {e \in call.edges : e.kind = EdgeKinds[Nth(n)]}
  <2>1. Cardinality(kinds) \in Nat
    <3>1. DOMAIN EdgeKinds = 1..6
      BY DEF EdgeKinds
    <3>2. IsFiniteSet(1..6)
      <4>1. \A a, b \in Int : IsFiniteSet(a..b)
        BY FS_Interval
      <4>2. 1 \in Int /\ 6 \in Int
        OBVIOUS
      <4> QED
        BY <4>1, <4>2, Zenon
    <3>3. IsFiniteSet(kinds)
      BY <3>1, <3>2, FS_Subset
    <3> QED
      BY <3>3, FS_CardinalityType
  <2>2. \A n \in 1..Cardinality(kinds) : [op |-> "edges", edges |-> Some(n)] \in Statement
    BY <1>4 DEF Statement, EdgesStatement
  <2>3. [n \in 1..Cardinality(kinds) |-> [op |-> "edges", edges |-> Some(n)]]
          \in [1..Cardinality(kinds) -> Statement]
    BY <2>2
  <2>4. [n \in 1..Cardinality(kinds) |-> [op |-> "edges", edges |-> Some(n)]] \in Seq(Statement)
    BY <2>1, <2>3, SeqDef
  <2> QED
    BY <1>2, <1>4, <2>4 DEF Statements, LiteStatements, ServerStatements, EdgesStatement
<1>5. CASE call \in Deletion
  BY <1>2, <1>5 DEF Statements, LiteStatements, ServerStatements, Deletion
<1> QED
  BY <1>1, <1>3, <1>4, <1>5 DEF Statement

(* Both tiers replace the properties of a node: the server tier because    *)
(* every write of an id has the same ones.                                 *)
LEMMA MergedWhole ==
    ASSUME NEW m \in NodeRecords, NEW n \in NodeRecords, m.id = n.id
    PROVE  Merged(m.props, n.props) = n.props
<1>1. DOMAIN m.props = DOMAIN n.props /\ n.props = [k \in DOMAIN n.props |-> n.props[k]]
  BY StoresAssumption
<1>2. [k \in DOMAIN m.props \union DOMAIN n.props |->
          IF k \in DOMAIN n.props THEN n.props[k] ELSE m.props[k]]
         = [k \in DOMAIN n.props |-> n.props[k]]
  BY <1>1
<1> QED
  BY <1>1, <1>2 DEF Merged

(* A statement of nodes merges some records.                               *)
LEMMA NodesStep ==
    ASSUME StoresInv, NEW stmt \in NodesStatement, WriteNodes(stmt)
    PROVE  Contract!MergeNodes /\ NodesWhole' /\ StoredBounded'
<1> DEFINE batch == ToSet(stmt.nodes)
           ids == {n.id : n \in batch}
           Given(i) == CHOOSE n \in batch : n.id = i
<1>1. batch \subseteq NodeRecords
  BY DEF ToSet, NodesStatement
<1>2. \A i \in ids : Given(i) \in NodeRecords /\ Given(i).id = i
  BY <1>1
<1> HIDE DEF Given
<1>3. nodes' = [i \in DOMAIN nodes \union ids |->
                   IF i \notin ids THEN nodes[i]
                   ELSE IF i \in DOMAIN nodes THEN Merged(nodes[i], Given(i).props) ELSE Given(i).props]
  BY DEF WriteNodes, Given
<1> HIDE DEF ids
<1>4. DOMAIN nodes' = DOMAIN nodes \union ids
  BY <1>3
<1>5. \A i \in ids : i \in DOMAIN nodes => Merged(nodes[i], Given(i).props) = Given(i).props
  BY <1>2, MergedWhole DEF StoresInv, NodesWhole
<1>6. \A i \in DOMAIN nodes' : nodes'[i] = IF i \in ids THEN Given(i).props ELSE nodes[i]
  BY <1>3, <1>4, <1>5
<1>7. \A i \in DOMAIN nodes' : \/ i \in DOMAIN nodes /\ nodes'[i] = nodes[i]
                               \/ \E n \in NodeRecords : n.id = i /\ nodes'[i] = n.props
  BY <1>2, <1>4, <1>6
<1>8. Contract!MergeNodes
  BY <1>4, <1>7 DEF Contract!MergeNodes, WriteNodes
<1>9. nodes' = [i \in DOMAIN nodes' |-> nodes'[i]]
  BY <1>3
<1>10. NodesWhole'
  BY <1>7, <1>9 DEF NodesWhole, StoresInv
<1>11. IsFiniteSet(ids)
  <2>1. stmt.nodes \in Seq(NodeRecords)  BY DEF NodesStatement
  <2>2. IsFiniteSet(batch)  BY <2>1, ListOfFinite
  <2>3. PICK id : id = [n \in batch |-> n.id]  OBVIOUS
  <2>4. id \in Surjection(batch, ids)  BY <2>3 DEF Surjection, ids
  <2> QED BY <2>2, <2>4, FS_Surjection
<1>12. IsFiniteSet(DOMAIN nodes \union ids)
  BY <1>11, FS_Union DEF StoresInv, StoredBounded
<1>13. StoredBounded'
  BY <1>4, <1>12 DEF StoredBounded, StoresInv, WriteNodes
<1> QED
  BY <1>8, <1>10, <1>13

(* A statement of edges merges those whose two ends are there.             *)
LEMMA EdgesStep ==
    ASSUME StoresInv, NEW stmt \in EdgesStatement, MergeEdges(stmt)
    PROVE  Contract!MergeEdges /\ NodesWhole' /\ StoredBounded'
<1>1. Contract!MergeEdges
  BY DEF MergeEdges, Linked, EdgesStatement, Contract!MergeEdges, Contract!Joined
<1>2. NodesWhole'
  BY DEF MergeEdges, StoresInv, NodesWhole
<1>3. StoredBounded'
  BY DEF MergeEdges, StoresInv, StoredBounded, Linked, EdgesStatement
<1> QED
  BY <1>1, <1>2, <1>3

(* An insertion adds edges in flight.                                      *)
LEMMA InsertStep ==
    ASSUME StoresInv, NEW stmt \in Insertion, stmt.edges \subseteq InFlight, InsertEdges(stmt)
    PROVE  Contract!MergeEdges /\ NodesWhole' /\ StoredBounded'
<1>1. Contract!MergeEdges
  BY DEF InsertEdges, Contract!MergeEdges
<1>2. NodesWhole' /\ StoredBounded'
  BY DEF InsertEdges, StoresInv, NodesWhole, StoredBounded, Insertion
<1> QED
  BY <1>1, <1>2

(* The nodes of a statement's file are those of one file, or none.         *)
LEMMA OfFileWhole ==
    ASSUME NEW stmt, OfFile(stmt) # {}
    PROVE  Contract!OfOneFile(OfFile(stmt))
<1>1. PICK j \in DOMAIN nodes : /\ "file" \in DOMAIN nodes[j]
                                /\ nodes[j].repo = stmt.repo /\ nodes[j].file = stmt.file
  BY DEF OfFile
<1>2. j \in OfFile(stmt)
  BY <1>1 DEF OfFile
<1>3. OfFile(stmt) = {i \in DOMAIN nodes : /\ "file" \in DOMAIN nodes[i]
                                           /\ nodes[i].repo = nodes[j].repo
                                           /\ nodes[i].file = nodes[j].file}
  BY <1>1 DEF OfFile
<1> QED
  BY <1>1, <1>2, <1>3 DEF Contract!OfOneFile

(* A deletion takes the nodes of one file, now or when it looked, with     *)
(* their edges, or nothing.                                                *)
LEMMA DeleteStep ==
    ASSUME StoresInv, NEW gone, Delete(gone),
           gone = {} \/ gone \in Wiping \/ (gone \subseteq DOMAIN nodes /\ Contract!OfOneFile(gone))
    PROVE  (Contract!DeleteFile \/ UNCHANGED <<nodes, edges>>) /\ NodesWhole' /\ StoredBounded'
<1>1. /\ nodes' = [i \in DOMAIN nodes \ gone |-> nodes[i]]
      /\ edges' = {e \in edges : {e.src, e.dst} \intersect gone = {}}
  BY DEF Delete
<1>2. StoredBounded'
  <2>1. DOMAIN nodes' \in SUBSET DOMAIN nodes /\ edges' \subseteq edges  BY <1>1
  <2>2. IsFiniteSet(DOMAIN nodes')  BY <2>1, FS_Subset DEF StoresInv, StoredBounded
  <2> QED BY <2>1, <2>2 DEF StoresInv, StoredBounded
<1>3. NodesWhole'
  BY <1>1 DEF StoresInv, NodesWhole
<1>4. CASE gone = {}
  BY <1>1, <1>2, <1>3, <1>4 DEF StoresInv, NodesWhole
<1>5. CASE gone # {}
  <2>1. edges' = edges \ Contract!At(gone, edges)
    BY <1>1 DEF Contract!At
  <2>2. gone \in (SUBSET DOMAIN nodes) \union Wiping
    BY <1>5
  <2> QED
    BY <1>1, <1>2, <1>3, <1>5, <2>1, <2>2 DEF Contract!DeleteFile
<1> QED
  BY <1>4, <1>5

---------------------------------------------------------------------------
(* What a step does to the edges in flight and to the deletions that have  *)
(* looked.                                                                 *)

(* Only what has been read is in flight.                                   *)
LEMMA HeadsPending ==
    ASSUME StoresInv, NEW s \in Sessions, todo[s] # <<>>
    PROVE  /\ Head(todo[s]) \in Statement \union Insertion \union Wipe
           /\ Head(todo[s]) \in Statement => Tail(todo[s]) \in Seq(Statement)
           /\ Head(todo[s]) \notin Statement => Tail(todo[s]) = <<>> /\ tier = "lite"
<1>1. todo[s] \in Pending
  BY DEF StoresInv, StatementsInv
<1>2. CASE todo[s] \in Seq(Statement)
  BY <1>2
<1>3. ASSUME NEW r \in IF tier = "lite" THEN Insertion \union Wipe ELSE {}, todo[s] = <<r>>
      PROVE  /\ Head(todo[s]) = r /\ Tail(todo[s]) = <<>> /\ tier = "lite"
             /\ r \in Insertion \union Wipe
  BY <1>3
<1>4. \A r \in Insertion \union Wipe : r \notin Statement
  BY StoresAssumption DEF Insertion, Wipe, Statement, NodesStatement, EdgesStatement, Deletion
<1> QED
  BY <1>1, <1>2, <1>3, <1>4 DEF Pending

LEMMA StatementOps ==
    /\ \A r \in Statement : r.op \in {"nodes", "edges", "delete"}
    /\ \A r \in Insertion : r.op = "insert"
    /\ \A r \in Wipe : r.op = "wipe"
  BY DEF Insertion, Wipe, Statement, NodesStatement, EdgesStatement, Deletion

LEMMA PopShrinks ==
    ASSUME StoresInv, NEW s \in Sessions, todo[s] # <<>>,
           todo' = [todo EXCEPT ![s] = Tail(@)]
    PROVE  InFlight' \subseteq InFlight /\ Wiping' \subseteq Wiping /\ (tier' = tier => StatementsInv')
<1>1. \A t \in Sessions : todo'[t] = IF t = s THEN Tail(todo[s]) ELSE todo[t]
  BY DEF StoresInv, StatementsInv
<1>2. Tail(todo[s]) \in Seq(Statement)
  <2>1. CASE Head(todo[s]) \in Statement
    BY <2>1, HeadsPending
  <2>2. CASE Head(todo[s]) \notin Statement
    <3>1. Tail(todo[s]) = <<>>
      BY <2>2, HeadsPending
    <3>2. <<>> \in Seq(Statement)
      OBVIOUS
    <3> QED
      BY <3>1, <3>2
  <2> QED
    BY <2>1, <2>2
<1>3. \A op \in {"insert", "wipe"} : NextUp(op)' \subseteq NextUp(op)
  <2> SUFFICES ASSUME NEW op \in {"insert", "wipe"}, NEW t \in Sessions,
                      todo'[t] # <<>>, Head(todo'[t]).op = op
               PROVE  todo[t] # <<>> /\ todo'[t] = todo[t]
    BY DEF NextUp
  <2>1. t # s
    BY <1>1, <1>2, StatementOps
  <2> QED
    BY <1>1, <2>1
<1>4. tier' = tier => StatementsInv'
  BY <1>2 DEF StoresInv, StatementsInv, Pending
<1> QED
  BY <1>3, <1>4 DEF InFlight, Wiping

(* What is next up of a session is in flight, or still deleted.            *)
LEMMA HeadInFlight ==
    ASSUME NEW s \in Sessions, todo[s] # <<>>
    PROVE  /\ Head(todo[s]).op = "insert" => Head(todo[s]).edges \subseteq InFlight
           /\ Head(todo[s]).op = "wipe" => Head(todo[s]).ids \in Wiping \union {{}}
  BY DEF InFlight, Wiping, NextUp

(* On the server tier nothing is ever in flight.                           *)
LEMMA ServerLands ==
    ASSUME StoresInv, tier = "server"
    PROVE  InFlight = {}
<1>1. \A s \in Sessions : todo[s] # <<>> => Head(todo[s]) \in Statement
  BY HeadsPending
<1> QED
  BY <1>1, StatementOps DEF InFlight, NextUp

(* One statement of a session, on either tier.                             *)
LEMMA StatementStep ==
    ASSUME StoresInv, NEW s \in Sessions, RunStatement(s)
    PROVE  [Contract!Next]_(Contract!contractVars) /\ StoresInv'
<1>1. PICK stmt : stmt = Head(todo[s])
  OBVIOUS
<1>2. stmt \in Statement \union Insertion \union Wipe
  BY <1>1, HeadsPending DEF RunStatement
<1>3. InFlight' \subseteq InFlight /\ Wiping' \subseteq Wiping /\ StatementsInv'
  BY PopShrinks DEF RunStatement
<1>4. /\ stmt.op = "nodes" => stmt \in NodesStatement
      /\ stmt.op = "edges" => stmt \in EdgesStatement
      /\ stmt.op = "insert" => stmt \in Insertion
  BY <1>2 DEF Statement, NodesStatement, EdgesStatement, Deletion, Insertion, Wipe
<1>5. /\ \/ Contract!MergeNodes \/ Contract!MergeEdges \/ Contract!DeleteFile
         \/ UNCHANGED <<nodes, edges>>
      /\ NodesWhole' /\ StoredBounded'
  <2>1. CASE stmt.op = "nodes" /\ WriteNodes(stmt)  BY <1>4, <2>1, NodesStep
  <2>2. CASE stmt.op = "edges" /\ MergeEdges(stmt)  BY <1>4, <2>2, EdgesStep
  <2>3. CASE stmt.op = "delete" /\ Delete(OfFile(stmt))
    <3>1. OfFile(stmt) \subseteq DOMAIN nodes  BY DEF OfFile
    <3> QED BY <2>3, <3>1, OfFileWhole, DeleteStep
  <2>4. CASE stmt.op = "insert" /\ InsertEdges(stmt)
    BY <1>1, <1>4, <2>4, HeadInFlight, InsertStep DEF RunStatement
  <2>5. CASE stmt.op = "wipe" /\ Delete(stmt.ids)
    <3>1. stmt.ids \in Wiping \/ stmt.ids = {}  BY <1>1, <2>5, HeadInFlight DEF RunStatement
    <3> QED BY <2>5, <3>1, DeleteStep
  <2> QED BY <1>1, <2>1, <2>2, <2>3, <2>4, <2>5 DEF RunStatement, DeleteSubgraph, WipeNodes
<1>6. Contract!Races
  BY DEF RunStatement, Race, Contract!Races, Contract!At
<1>7. RacedKept'
  BY ServerLands DEF RunStatement, Race, StoresInv, RacedKept
<1>8. UNCHANGED <<nodes, edges>> => Contract!Looks
  BY <1>3 DEF Contract!Looks
<1>9. Contract!Next
  BY <1>3, <1>5, <1>6, <1>8 DEF Contract!Next
<1> QED
  BY <1>3, <1>5, <1>7, <1>9 DEF StoresInv

(* A session looks for what its call names, and finds what is there.       *)
LEMMA LookStep ==
    ASSUME StoresInv, NEW s \in Sessions, Look(s)
    PROVE  UNCHANGED <<nodes, edges>> /\ Contract!Looks /\ Contract!Races /\ StoresInv'
<1> DEFINE stmt == Head(todo[s])
           read == Resolved(stmt)
<1>1. stmt \in Statement /\ stmt.op \in {"edges", "delete"}
  BY HeadsPending, StatementOps DEF Look
<1>2. \A t \in Sessions : todo'[t] = IF t = s THEN <<read>> ELSE todo[t]
  BY DEF Look, StoresInv, StatementsInv
<1>3. UNCHANGED <<tier, nodes, edges, raced>> /\ tier = "lite" /\ todo[s] # <<>>
  BY DEF Look
<1>4. stmt.op = "edges" => read \in Insertion /\ \A e \in read.edges : e \in EdgeRecords /\ Contract!Joined(e)
  BY <1>1 DEF Resolved, Insertion, Linked, Statement, NodesStatement, EdgesStatement, Deletion,
              Contract!Joined
<1>5. stmt.op = "delete" => read = [op |-> "wipe", ids |-> OfFile(stmt)]
  BY DEF Resolved
<1>6. OfFile(stmt) \in SUBSET {n.id : n \in NodeRecords}
  BY DEF OfFile, StoresInv, NodesWhole
<1>7. read \in Insertion \union Wipe
  BY <1>1, <1>4, <1>5, <1>6 DEF Wipe
<1> HIDE DEF stmt, read
<1>8. StatementsInv'
  <2>1. <<read>> \in Pending  BY <1>3, <1>7 DEF Pending
  <2>2. todo' \in [Sessions -> Pending]  BY <1>2, <2>1 DEF Look, StoresInv, StatementsInv
  <2> QED BY <1>3, <2>2 DEF StatementsInv, Pending
<1>9. \A op \in {"insert", "wipe"} : NextUp(op) \subseteq NextUp(op)'
  <2> SUFFICES ASSUME NEW op \in {"insert", "wipe"}, NEW t \in Sessions,
                      todo[t] # <<>>, Head(todo[t]).op = op
               PROVE  t # s
    BY <1>2 DEF NextUp
  <2> QED BY <1>1 DEF stmt
<1>10. \A op \in {"insert", "wipe"} : \A r \in NextUp(op)' : r \in NextUp(op) \/ (r = read /\ read.op = op)
  BY <1>2 DEF NextUp
<1>11. InFlight \subseteq InFlight'
  BY <1>9 DEF InFlight
<1>12. \A e \in InFlight' \ InFlight : e \in EdgeRecords /\ Contract!Joined(e)
  <2>1. read.op = "insert" => stmt.op = "edges"
    BY <1>1, <1>5
  <2> QED BY <1>4, <1>10, <2>1 DEF InFlight
<1>13. \A ids \in Wiping' \ Wiping : Contract!OfOneFile(ids)
  <2>1. read.op = "wipe" => read.ids = OfFile(stmt)
    BY <1>1, <1>4, <1>5 DEF Insertion
  <2> QED BY <1>10, <2>1, OfFileWhole DEF Wiping
<1>14. Contract!Looks
  BY <1>12, <1>13 DEF Contract!Looks
<1>15. Contract!Races
  BY <1>3, <1>11 DEF Contract!Races, Contract!At, StoresInv, RacedKept
<1>16. NodesWhole' /\ StoredBounded' /\ RacedKept'
  BY <1>3, <1>11 DEF StoresInv, NodesWhole, StoredBounded, RacedKept
<1> QED
  BY <1>3, <1>8, <1>14, <1>15, <1>16 DEF StoresInv

(* A call that begins has read nothing yet.                                *)
LEMMA BeginStep ==
    ASSUME StoresInv, NEW s \in Sessions, NEW call \in Calls, BeginCall(s, call)
    PROVE  UNCHANGED <<nodes, edges>> /\ Contract!Looks /\ Contract!Races /\ StoresInv'
<1>1. UNCHANGED <<tier, nodes, edges, raced>> /\ todo[s] = <<>> /\ Statements(call) \in Seq(Statement)
  BY StatementsTyped DEF BeginCall
<1>2. \A t \in Sessions : todo'[t] = IF t = s THEN Statements(call) ELSE todo[t]
  BY DEF BeginCall, StoresInv, StatementsInv
<1>3. \A op \in {"insert", "wipe"} : NextUp(op)' = NextUp(op)
  <2>1. \A op \in {"insert", "wipe"} :
          ~ (Statements(call) # <<>> /\ Head(Statements(call)).op = op)
    BY <1>1, StatementOps
  <2> QED BY <1>1, <1>2, <2>1 DEF NextUp
<1>4. InFlight' = InFlight /\ Wiping' = Wiping
  BY <1>3 DEF InFlight, Wiping
<1>5. StatementsInv'
  BY <1>1 DEF BeginCall, StoresInv, StatementsInv, Pending
<1> QED
  BY <1>1, <1>4, <1>5
     DEF Contract!Looks, Contract!Races, Contract!At, StoresInv, NodesWhole, StoredBounded, RacedKept

(* A restart drops what is in flight.                                      *)
LEMMA RestartStep ==
    ASSUME StoresInv, Restart
    PROVE  UNCHANGED <<nodes, edges>> /\ Contract!Looks /\ Contract!Races /\ StoresInv'
<1>1. \A t \in Sessions : todo'[t] = <<>>
  BY DEF Restart
<1>2. InFlight' = {} /\ Wiping' = {}
  BY <1>1 DEF InFlight, Wiping, NextUp
<1>3. StatementsInv'
  BY DEF Restart, StatementsInv, Pending
<1> QED
  BY <1>2, <1>3
     DEF Restart, Contract!Looks, Contract!Races, Contract!At, StoresInv, NodesWhole, StoredBounded, RacedKept

(* Every step is one of the contract or leaves the contents alone.         *)
LEMMA StepContract ==
    ASSUME StoresInv, [Next]_storeVars
    PROVE  [Contract!Next]_(Contract!contractVars) /\ StoresInv'
<1>1. ASSUME UNCHANGED <<nodes, edges>>, Contract!Looks, Contract!Races
      PROVE  Contract!Next
  BY <1>1 DEF Contract!Next
<1>2. CASE UNCHANGED storeVars
  <2>1. InFlight' = InFlight /\ Wiping' = Wiping
    BY <1>2 DEF storeVars, InFlight, Wiping, NextUp
  <2> QED
    BY <1>2, <2>1 DEF storeVars, Contract!contractVars, StoresInv, NodesWhole, StatementsInv, Pending,
                      StoredBounded, RacedKept
<1> QED
  BY <1>1, <1>2, BeginStep, LookStep, StatementStep, RestartStep DEF Next

(* Nothing is stored and nothing to do.                                    *)
LEMMA StoresStart == Init => Contract!Init /\ StoresInv
<1> SUFFICES ASSUME Init PROVE Contract!Init /\ StoresInv  OBVIOUS
<1>1. InFlight = {} /\ Wiping = {}
  BY DEF Init, InFlight, Wiping, NextUp
<1>2. Contract!Init /\ NodesWhole /\ StatementsInv
  BY <1>1 DEF Init, Contract!Init, NodesWhole, StatementsInv, Pending
<1>3. DOMAIN nodes = {} /\ edges = {} /\ raced = {}  BY DEF Init
<1>4. StoredBounded /\ RacedKept  BY <1>3, FS_EmptySet DEF StoredBounded, RacedKept
<1> QED BY <1>2, <1>4 DEF StoresInv

(* Both tiers keep the promises of the repository protocol, whatever the   *)
(* sessions interleave and wherever the process dies.                      *)
THEOREM StoresKeepContract == Spec => KeepsContract
  BY StoresStart, StepContract, PTL DEF Spec, KeepsContract, Contract!Spec

(* No stored node mixes two writes, although the server tier merges        *)
(* properties and writes node by node.                                     *)
THEOREM StoredNodesWhole == Spec => []NodesWhole
<1>1. StoresInv => NodesWhole
  BY DEF StoresInv
<1> QED
  BY <1>1, StoresStart, StepContract, PTL DEF Spec

---------------------------------------------------------------------------

\* Every edge, stored or in flight, that lacks an end was overtaken.
ContractDangles == \A e \in edges \union InFlight : Dangles(e) => e \in raced

(* What the contract is worth to its callers: no edge lacks an end unless  *)
(* a deletion came between the look and the write of its writer.           *)
LEMMA ContractRaces == KeepsContract => []ContractDangles
<1>1. Contract!Init => ContractDangles
  BY DEF Contract!Init, ContractDangles
<1>2. ContractDangles /\ [Contract!Next]_(Contract!contractVars) => ContractDangles'
  <2> SUFFICES ASSUME ContractDangles, [Contract!Next]_(Contract!contractVars),
                      NEW e \in edges' \union InFlight', Dangles(e)'
               PROVE  e \in raced'
    BY DEF ContractDangles
  <2> DEFINE gone == DOMAIN nodes \ DOMAIN nodes'
  <2>1. CASE UNCHANGED Contract!contractVars
    BY <2>1 DEF Contract!contractVars, ContractDangles, Dangles
  <2>2. ASSUME Contract!Races, e \in raced \/ e \in Contract!At(gone, InFlight) PROVE e \in raced'
    BY <2>2 DEF Contract!Races
  <2>3. ASSUME ~Dangles(e), e \in InFlight PROVE e \in Contract!At(gone, InFlight)
    BY <2>3 DEF Dangles, Contract!At
  <2>4. ASSUME UNCHANGED <<nodes, edges>>, Contract!Looks, e \notin raced PROVE FALSE
    BY <2>4 DEF Contract!Looks, Contract!Joined, ContractDangles, Dangles
  <2>5. ASSUME Contract!MergeNodes, InFlight' \subseteq InFlight, e \notin raced PROVE FALSE
    BY <2>5 DEF Contract!MergeNodes, ContractDangles, Dangles
  <2>6. ASSUME Contract!MergeEdges, InFlight' \subseteq InFlight, e \notin raced PROVE FALSE
    BY <2>6 DEF Contract!MergeEdges, Contract!Joined, ContractDangles, Dangles
  <2>7. ASSUME Contract!DeleteFile, InFlight' \subseteq InFlight, e \notin raced
        PROVE  e \in InFlight /\ ~Dangles(e)
    <3>1. PICK ids : /\ nodes' = [i \in DOMAIN nodes \ ids |-> nodes[i]]
                     /\ edges' = edges \ Contract!At(ids, edges)
      BY <2>7 DEF Contract!DeleteFile
    <3>2. e \in edges \union InFlight /\ ~Dangles(e)
      BY <2>7, <3>1 DEF ContractDangles
    <3>3. e \notin edges'
      BY <3>1, <3>2 DEF Dangles, Contract!At
    <3> QED BY <2>7, <3>2, <3>3
  <2> QED
    BY <2>1, <2>2, <2>3, <2>4, <2>5, <2>6, <2>7 DEF Contract!Next
<1> QED
  BY <1>1, <1>2, PTL DEF KeepsContract, Contract!Spec

(* And so on both tiers; on the server tier nothing is overtaken.          *)
THEOREM NoDanglingUnlessRaced == Spec => []OnlyRacedDangle
<1>1. StoresInv /\ ContractDangles /\ TiersInv => OnlyRacedDangle
  BY DEF StoresInv, RacedKept, TiersInv, ContractDangles, OnlyRacedDangle
<1>2. Init => TiersInv
  BY DEF Init, TiersInv
<1>3. TiersInv /\ [Next]_storeVars => TiersInv'
  BY DEF TiersInv, Next, storeVars, BeginCall, Look, RunStatement, Restart
<1> QED
  BY <1>1, <1>2, <1>3, StoresStart, StepContract, StoresKeepContract, ContractRaces, PTL DEF Spec

---------------------------------------------------------------------------
(* The reads of the graph.                                                 *)

\* Every stored edge has its two ends among the nodes.
EdgesLinked == \A e \in edges : {e.src, e.dst} \subseteq DOMAIN nodes

(* What a walk in levels is: where it begins, and a level from the last.   *)
Walk(level, seed, steps, depth) ==
    /\ level[0] = {seed}
    /\ \A d \in 1..depth :
          level[d] = level[d - 1] \union {s[2] : s \in {x \in steps : x[1] \in level[d - 1]}}

LEMMA LevelsWalk ==
    ASSUME NEW seed, NEW steps, NEW depth \in Nat
    PROVE  Walk(Levels(seed, steps, depth), seed, steps, depth)
<1> DEFINE Spread(L) == L \union {s[2] : s \in {x \in steps : x[1] \in L}}
           Step(g, d) == IF d = 0 THEN {seed}
                         ELSE LET before == g[d - 1] IN
                              before \union {s[2] : s \in {x \in steps : x[1] \in before}}
<1>1. PICK T : T = {seed} \union {s[2] : s \in steps}  OBVIOUS
<1>2. PICK f : f \in [0..depth -> SUBSET T] /\ f[0] = {seed} /\ \A d \in 1..depth : f[d] = Spread(f[d - 1])
  <2> DEFINE step == [d \in 1..depth |-> [L \in SUBSET T |-> Spread(L)]]
  <2>1. \A L \in SUBSET T : Spread(L) \in SUBSET T  BY <1>1
  <2>2. step \in [1..depth -> [SUBSET T -> SUBSET T]]
    <3> HIDE DEF Spread
    <3> QED BY <2>1
  <2>3. \A d \in 1..depth : \A L \in SUBSET T : step[d][L] = Spread(L)
    <3> HIDE DEF Spread
    <3> QED OBVIOUS
  <2> HIDE DEF step, Spread
  <2>4. {seed} \in SUBSET T  BY <1>1
  <2>5. Recurs(depth, SUBSET T, {seed}, step)  BY <2>2, <2>4, Recursion
  <2>6. PICK f \in [0..depth -> SUBSET T] :
           f[0] = {seed} /\ \A d \in 1..depth : f[d] = step[d][f[d - 1]]
    BY <2>5 DEF Recurs
  <2>7. \A d \in 1..depth : d - 1 \in 0..depth  OBVIOUS
  <2>8. \A d \in 1..depth : f[d] = Spread(f[d - 1])  BY <2>3, <2>6, <2>7
  <2> QED BY <2>6, <2>8
<1>3. \A g : Step(g, 0) = {seed} /\ \A d \in 1..depth : Step(g, d) = Spread(g[d - 1])  OBVIOUS
<1> HIDE DEF Spread
<1>4. f = [d \in 0..depth |-> Step(f, d)]
  <2>1. f = [d \in 0..depth |-> f[d]]  BY <1>2
  <2>2. \A d \in 0..depth : f[d] = Step(f, d)
    <3> SUFFICES ASSUME NEW d \in 0..depth PROVE f[d] = Step(f, d)  OBVIOUS
    <3>1. d = 0 \/ d \in 1..depth  OBVIOUS
    <3> HIDE DEF Step
    <3> QED BY <1>2, <1>3, <3>1
  <2> HIDE DEF Step
  <2> QED BY <2>1, <2>2
<1>5. PICK r : r = Levels(seed, steps, depth)  OBVIOUS
<1>6. r = CHOOSE g : g = [d \in 0..depth |-> Step(g, d)]  BY <1>5 DEF Levels
<1>7. r = [d \in 0..depth |-> Step(r, d)]
  <2> HIDE DEF Step
  <2> QED BY <1>4, <1>6
<1>8. r[0] = {seed}
  <2>1. 0 \in 0..depth  OBVIOUS
  <2> HIDE DEF Step
  <2> QED BY <1>3, <1>7, <2>1
<1>9. \A d \in 1..depth : r[d] = Spread(r[d - 1])
  <2>1. \A d \in 1..depth : d \in 0..depth  OBVIOUS
  <2> HIDE DEF Step
  <2> QED BY <1>3, <1>7, <2>1
<1> QED BY <1>5, <1>8, <1>9 DEF Walk, Spread

(* A level has the one before it, and the seed.                            *)
LEMMA WalkGrows ==
    ASSUME NEW level, NEW seed, NEW steps, NEW depth \in Nat, Walk(level, seed, steps, depth)
    PROVE  /\ \A d \in 0..depth : seed \in level[d]
           /\ \A c, d \in 0..depth : c <= d => level[c] \subseteq level[d]
<1>1. \A d \in 1..depth : level[d - 1] \subseteq level[d]  BY DEF Walk
<1>2. ASSUME NEW c \in 0..depth PROVE \A d \in 0..depth : c <= d => level[c] \subseteq level[d]
  <2>1. PICK C : C = {d \in 0..depth : c <= d => level[c] \subseteq level[d]}  OBVIOUS
  <2>2. 0 \in C
    <3>1. c <= 0 => c = 0  OBVIOUS
    <3> QED BY <2>1, <3>1
  <2>3. \A d \in 1..depth : d - 1 \in C => d \in C
    <3> SUFFICES ASSUME NEW d \in 1..depth, d - 1 \in C, c <= d PROVE level[c] \subseteq level[d]
      BY <2>1
    <3>1. CASE c = d  BY <3>1
    <3>2. CASE c # d
      <4>1. c <= d - 1  BY <3>2
      <4> QED BY <1>1, <2>1, <4>1
    <3> QED BY <3>1, <3>2
  <2>4. \A d \in 0..depth : d \in C  BY <2>2, <2>3, Upward
  <2> QED BY <2>1, <2>4
<1>3. \A d \in 0..depth : seed \in level[d]
  <2>1. seed \in level[0] /\ 0 \in 0..depth  BY DEF Walk
  <2>2. \A d \in 0..depth : level[0] \subseteq level[d]  BY <1>2, <2>1
  <2> QED BY <2>1, <2>2
<1> QED BY <1>2, <1>3

(* The steps along stored edges, and no others, lead from node to node.    *)
LEMMA StepsAre ==
    ASSUME NEW es, NEW direction, NEW a, NEW b
    PROVE  <<a, b>> \in Steps(es, direction) <=> \E e \in es : Follows(e, a, b, direction)
<1> DEFINE ends == UNION {{e.src, e.dst} : e \in es}
<1>1. Steps(es, direction) = {s \in ends \X ends : \E e \in es : Follows(e, s[1], s[2], direction)}
  BY DEF Steps
<1>2. ASSUME NEW e \in es, Follows(e, a, b, direction) PROVE a \in ends /\ b \in ends
  BY <1>2 DEF Follows
<1> HIDE DEF ends
<1> QED BY <1>1, <1>2

LEMMA StepsPairs ==
    ASSUME NEW es, NEW direction, NEW s \in Steps(es, direction)
    PROVE  s = <<s[1], s[2]>>
<1> DEFINE ends == UNION {{e.src, e.dst} : e \in es}
<1>1. s \in ends \X ends  BY DEF Steps
<1> QED BY <1>1

(* Who is in a level: one of the level before, or one a step away from it. *)
LEMMA NextLevel ==
    ASSUME NEW level, NEW seed, NEW es, NEW direction, NEW depth \in Nat,
           Walk(level, seed, Steps(es, direction), depth), NEW d \in 1..depth, NEW b
    PROVE  b \in level[d] <=> \/ b \in level[d - 1]
                              \/ \E a \in level[d - 1], e \in es : Follows(e, a, b, direction)
<1> DEFINE S == Steps(es, direction)
<1>1. level[d] = level[d - 1] \union {s[2] : s \in {x \in S : x[1] \in level[d - 1]}}
  BY DEF Walk
<1>2. ASSUME NEW a \in level[d - 1], NEW e \in es, Follows(e, a, b, direction) PROVE b \in level[d]
  <2>1. <<a, b>> \in S  BY <1>2, StepsAre
  <2> HIDE DEF S
  <2>2. \E s \in {x \in S : x[1] \in level[d - 1]} : s[2] = b
    <3>1. <<a, b>>[1] = a /\ <<a, b>>[2] = b  OBVIOUS
    <3> QED BY <2>1, <3>1
  <2> QED BY <1>1, <2>2
<1>3. ASSUME NEW s \in S, s[1] \in level[d - 1], s[2] = b
      PROVE  \E a \in level[d - 1], e \in es : Follows(e, a, b, direction)
  <2>1. <<s[1], b>> \in S  BY <1>3, StepsPairs
  <2> QED BY <1>3, <2>1, StepsAre
<1> HIDE DEF S
<1>4. b \in level[d] => b \in level[d - 1] \/ \E s \in S : s[1] \in level[d - 1] /\ s[2] = b
  BY <1>1
<1>5. b \in level[d - 1] => b \in level[d]  BY <1>1
<1> QED BY <1>2, <1>3, <1>4, <1>5

(* The reference is a walk over all the edges.                             *)
LEMMA DirectedWalks ==
    ASSUME EdgesLinked, NEW seed \in DOMAIN nodes, NEW direction, NEW depth \in Nat
    PROVE  \A d \in 0..depth :
              Directed(seed, direction, depth)[d] = Levels(seed, Steps(edges, direction), depth)[d]
<1> DEFINE Near(L) == {b \in DOMAIN nodes : \/ b \in L
                                            \/ \E e \in edges, a \in L : Follows(e, a, b, direction)}
           Step(g, d) == IF d = 0 THEN {seed}
                         ELSE LET before == g[d - 1] IN
                              {b \in DOMAIN nodes : \/ b \in before
                                                    \/ \E e \in edges, a \in before :
                                                          Follows(e, a, b, direction)}
<1>1. PICK level : level = Levels(seed, Steps(edges, direction), depth)  OBVIOUS
<1>2. Walk(level, seed, Steps(edges, direction), depth)  BY <1>1, LevelsWalk
<1>3. \A g : Step(g, 0) = {seed} /\ \A d \in 1..depth : Step(g, d) = Near(g[d - 1])  OBVIOUS
<1>4. ASSUME NEW d \in 1..depth, level[d - 1] \subseteq DOMAIN nodes PROVE level[d] = Near(level[d - 1])
  <2>1. ASSUME NEW e \in edges, NEW a, NEW b, Follows(e, a, b, direction) PROVE b \in DOMAIN nodes
    BY <2>1 DEF Follows, EdgesLinked
  <2>2. ASSUME NEW b PROVE b \in level[d] <=> b \in Near(level[d - 1])
    BY <1>2, <1>4, <2>1, NextLevel
  <2> QED BY <2>2
<1>5. \A d \in 0..depth : level[d] \subseteq DOMAIN nodes
  <2>1. PICK C : C = {d \in 0..depth : level[d] \subseteq DOMAIN nodes}  OBVIOUS
  <2>2. 0 \in C  BY <1>2, <2>1 DEF Walk
  <2>3. \A d \in 1..depth : d - 1 \in C => d \in C
    <3> SUFFICES ASSUME NEW d \in 1..depth, d - 1 \in C PROVE d \in C  OBVIOUS
    <3>1. level[d] = Near(level[d - 1])  BY <1>4, <2>1
    <3>2. level[d] \subseteq DOMAIN nodes  BY <3>1
    <3> QED BY <2>1, <3>2
  <2>4. \A d \in 0..depth : d \in C  BY <2>2, <2>3, Upward
  <2> QED BY <2>1, <2>4
<1>6. \A d \in 1..depth : d \in 0..depth /\ d - 1 \in 0..depth  OBVIOUS
<1>7. \A d \in 1..depth : level[d] = Near(level[d - 1])  BY <1>4, <1>5, <1>6
<1> HIDE DEF Near
<1>8. PICK f : f = [d \in 0..depth |-> level[d]]  OBVIOUS
<1>9. f = [d \in 0..depth |-> Step(f, d)]
  <2>1. \A d \in 0..depth : f[d] = Step(f, d)
    <3> SUFFICES ASSUME NEW d \in 0..depth PROVE f[d] = Step(f, d)  OBVIOUS
    <3>1. d = 0 \/ d \in 1..depth  OBVIOUS
    <3>2. level[0] = {seed}  BY <1>2 DEF Walk
    <3> HIDE DEF Step
    <3> QED BY <1>3, <1>6, <1>7, <1>8, <3>1, <3>2
  <2>2. f = [d \in 0..depth |-> f[d]]  BY <1>8
  <2> HIDE DEF Step
  <2> QED BY <2>1, <2>2
<1>10. PICK r : r = Directed(seed, direction, depth)  OBVIOUS
<1>11. r = CHOOSE g : g = [d \in 0..depth |-> Step(g, d)]  BY <1>10 DEF Directed
<1>12. r = [d \in 0..depth |-> Step(r, d)]
  <2> HIDE DEF Step
  <2> QED BY <1>9, <1>11
<1>13. \A d \in 0..depth : r[d] = level[d]
  <2>1. PICK C : C = {d \in 0..depth : r[d] = level[d]}  OBVIOUS
  <2>2. \A d \in 0..depth : r[d] = Step(r, d)
    <3> HIDE DEF Step
    <3> QED BY <1>12
  <2>3. 0 \in C
    <3>1. 0 \in 0..depth  OBVIOUS
    <3> HIDE DEF Step
    <3> QED BY <1>2, <1>3, <2>1, <2>2, <3>1 DEF Walk
  <2>4. \A d \in 1..depth : d - 1 \in C => d \in C
    <3> HIDE DEF Step
    <3> QED BY <1>3, <1>6, <1>7, <2>1, <2>2
  <2>5. \A d \in 0..depth : d \in C  BY <2>3, <2>4, Upward
  <2> QED BY <2>1, <2>5
<1> QED BY <1>1, <1>10, <1>13

(* What is around the seed, in steps of any direction.                     *)
Around(seed, depth) == Levels(seed, Steps(edges, "all"), depth)

LEMMA AroundNodes ==
    ASSUME EdgesLinked, NEW seed \in DOMAIN nodes, NEW depth \in Nat
    PROVE  \A d \in 0..depth : Around(seed, depth)[d] \subseteq DOMAIN nodes
<1>1. PICK level : level = Around(seed, depth)  OBVIOUS
<1>2. Walk(level, seed, Steps(edges, "all"), depth)  BY <1>1, LevelsWalk DEF Around
<1>3. PICK C : C = {d \in 0..depth : level[d] \subseteq DOMAIN nodes}  OBVIOUS
<1>4. 0 \in C  BY <1>2, <1>3 DEF Walk
<1>5. \A d \in 1..depth : d - 1 \in C => d \in C
  <2> SUFFICES ASSUME NEW d \in 1..depth, d - 1 \in C, NEW b \in level[d] PROVE b \in DOMAIN nodes
    BY <1>3
  <2>1. CASE b \in level[d - 1]  BY <1>3, <2>1
  <2>2. ASSUME NEW a \in level[d - 1], NEW e \in edges, Follows(e, a, b, "all") PROVE b \in DOMAIN nodes
    BY <2>2 DEF Follows, EdgesLinked
  <2> QED BY <1>2, <2>1, <2>2, NextLevel
<1>6. \A d \in 0..depth : d \in C  BY <1>4, <1>5, Upward
<1> QED BY <1>1, <1>3, <1>6

(* SQLite's levels.                                                        *)
LEMMA LiteFinds ==
    ASSUME EdgesLinked, NEW seed \in DOMAIN nodes, NEW depth \in Nat, Clamp(depth, 1, MaxDepth) = depth
    PROVE  LiteNeighbors(seed, {}, depth) = Around(seed, depth)[depth] \ {seed}
<1>1. {e \in edges : Matches(e, {})} = edges  BY DEF Matches
<1>2. LiteNeighbors(seed, {}, depth) = (Around(seed, depth)[depth] \ {seed}) \intersect DOMAIN nodes
  BY <1>1 DEF LiteNeighbors, Around
<1>3. Around(seed, depth)[depth] \subseteq DOMAIN nodes
  <2>1. depth \in 0..depth  OBVIOUS
  <2> QED BY <2>1, AroundNodes
<1> QED BY <1>2, <1>3

(* Neo4j's paths.                                                          *)
Other(e, n) == IF e.src = n THEN e.dst ELSE e.src

FirstTrails(i) == {[end |-> Other(e, i), used |-> {e}] : e \in {x \in edges : i \in {x.src, x.dst}}}

Longer(P) ==
    UNION {{[end |-> Other(e, p.end), used |-> p.used \union {e}] :
               e \in {x \in edges \ p.used : p.end \in {x.src, x.dst}}} : p \in P}

Trails(paths, seed, depth) ==
    /\ paths[1] = FirstTrails(seed)
    /\ \A d \in 2..depth : paths[d] = Longer(paths[d - 1])

LEMMA ServerTrails ==
    ASSUME NEW seed, NEW depth \in Nat \ {0}, Clamp(depth, 1, MaxDepth) = depth
    PROVE  \E paths : /\ Trails(paths, seed, depth)
                      /\ ServerNeighbors(seed, {}, depth) = UNION {{p.end : p \in paths[d]} : d \in 1..depth}
<1> DEFINE usable == {e \in edges : Matches(e, {})}
           other(e, n) == IF e.src = n THEN e.dst ELSE e.src
           Step(g, d) ==
              IF d = 1 THEN {[end |-> other(e, seed), used |-> {e}] :
                               e \in {x \in usable : seed \in {x.src, x.dst}}}
              ELSE UNION {{[end |-> other(e, p.end), used |-> p.used \union {e}] :
                             e \in {x \in usable \ p.used : p.end \in {x.src, x.dst}}} :
                           p \in g[d - 1]}
<1>1. usable = edges  BY DEF Matches
<1>2. \A g : Step(g, 1) = FirstTrails(seed) /\ \A d \in 2..depth : Step(g, d) = Longer(g[d - 1])
  BY <1>1 DEF FirstTrails, Longer, Other
<1>3. PICK T : T = [end : UNION {{e.src, e.dst} : e \in edges}, used : SUBSET edges]  OBVIOUS
<1>4. FirstTrails(seed) \in SUBSET T
  <2>1. \A e \in edges : [end |-> Other(e, seed), used |-> {e}] \in T  BY <1>3 DEF Other
  <2> QED BY <2>1 DEF FirstTrails
<1>5. \A P \in SUBSET T : Longer(P) \in SUBSET T
  <2> SUFFICES ASSUME NEW P \in SUBSET T, NEW p \in P, NEW e \in edges
               PROVE  [end |-> Other(e, p.end), used |-> p.used \union {e}] \in T
    BY DEF Longer
  <2>1. p.used \in SUBSET edges  BY <1>3
  <2>2. Other(e, p.end) \in UNION {{x.src, x.dst} : x \in edges}  BY DEF Other
  <2> QED BY <1>3, <2>1, <2>2
<1>6. PICK f : /\ f[1] = FirstTrails(seed) /\ \A d \in 2..depth : f[d] = Longer(f[d - 1])
  <2> DEFINE step == [d \in 1..depth |-> [P \in SUBSET T |-> IF d = 1 THEN FirstTrails(seed) ELSE Longer(P)]]
  <2>1. step \in [1..depth -> [SUBSET T -> SUBSET T]]  BY <1>4, <1>5
  <2>2. \A d \in 1..depth : \A P \in SUBSET T : step[d][P] = IF d = 1 THEN FirstTrails(seed) ELSE Longer(P)
    OBVIOUS
  <2> HIDE DEF step
  <2>3. depth \in Nat /\ {} \in SUBSET T  OBVIOUS
  <2>4. Recurs(depth, SUBSET T, {}, step)  BY <2>1, <2>3, Recursion
  <2>5. PICK f \in [0..depth -> SUBSET T] : \A d \in 1..depth : f[d] = step[d][f[d - 1]]
    BY <2>4 DEF Recurs
  <2>6. \A d \in 1..depth : d - 1 \in 0..depth  OBVIOUS
  <2>7. \A d \in 1..depth : f[d] = IF d = 1 THEN FirstTrails(seed) ELSE Longer(f[d - 1])
    BY <2>2, <2>5, <2>6
  <2>8. 1 \in 1..depth /\ \A d \in 2..depth : d \in 1..depth /\ d # 1  OBVIOUS
  <2> QED BY <2>7, <2>8
<1>7. PICK g : g = [d \in 1..depth |-> f[d]]  OBVIOUS
<1>8. 1 \in 1..depth /\ \A d \in 1..depth : d = 1 \/ (d \in 2..depth /\ d - 1 \in 1..depth)  OBVIOUS
<1>9. g = [d \in 1..depth |-> Step(g, d)]
  <2>1. \A d \in 1..depth : g[d] = Step(g, d)
    <3> HIDE DEF Step
    <3> QED BY <1>2, <1>6, <1>7, <1>8
  <2>2. g = [d \in 1..depth |-> g[d]]  BY <1>7
  <2> HIDE DEF Step
  <2> QED BY <2>1, <2>2
<1>10. PICK r : r = CHOOSE h : h = [d \in 1..depth |-> Step(h, d)]  OBVIOUS
<1>11. r = [d \in 1..depth |-> Step(r, d)]
  <2> HIDE DEF Step
  <2> QED BY <1>9, <1>10
<1>12. ServerNeighbors(seed, {}, depth) = UNION {{p.end : p \in r[d]} : d \in 1..depth}
  BY <1>10 DEF ServerNeighbors
<1>13. Trails(r, seed, depth)
  <2>1. \A d \in 2..depth : d \in 1..depth  OBVIOUS
  <2> HIDE DEF Step
  <2> QED BY <1>2, <1>8, <1>11, <2>1 DEF Trails
<1> QED BY <1>12, <1>13

(* A trail ends in the level of its length.                                *)
LEMMA TrailsStayNear ==
    ASSUME NEW seed, NEW depth \in Nat \ {0}, NEW paths, Trails(paths, seed, depth),
           NEW level, Walk(level, seed, Steps(edges, "all"), depth)
    PROVE  \A d \in 1..depth : \A p \in paths[d] : p.end \in level[d]
<1>1. \A e \in edges : \A n : n \in {e.src, e.dst} => Follows(e, n, Other(e, n), "all")
  BY DEF Follows, Other
<1>2. PICK C : C = {d \in 0..depth : d = 0 \/ \A p \in paths[d] : p.end \in level[d]}  OBVIOUS
<1>3. 0 \in C  BY <1>2
<1>4. ASSUME NEW d \in 1..depth, d - 1 \in C PROVE d \in C
  <2>1. CASE d = 1
    <3>1. 1 \in 1..depth /\ seed \in level[1 - 1]  BY DEF Walk
    <3>2. ASSUME NEW e \in edges, seed \in {e.src, e.dst} PROVE Other(e, seed) \in level[1]
      BY <1>1, <3>1, <3>2, NextLevel
    <3>3. \A p \in paths[1] : p.end \in level[1]  BY <3>2 DEF Trails, FirstTrails
    <3> QED BY <1>2, <2>1, <3>3
  <2>2. CASE d # 1
    <3>1. d \in 2..depth /\ d - 1 # 0  BY <2>2
    <3>2. paths[d] = Longer(paths[d - 1])  BY <3>1 DEF Trails
    <3>3. ASSUME NEW q \in paths[d - 1], NEW e \in edges, q.end \in {e.src, e.dst}
          PROVE  Other(e, q.end) \in level[d]
      <4>1. q.end \in level[d - 1]  BY <1>2, <1>4, <3>1
      <4> QED BY <1>1, <3>3, <4>1, NextLevel
    <3>4. \A p \in paths[d] : p.end \in level[d]  BY <3>2, <3>3 DEF Longer
    <3> QED BY <1>2, <3>4
  <2> QED BY <2>1, <2>2
<1>5. \A d \in 0..depth : d \in C
  <2>1. \A d \in 1..depth : d - 1 \in C => d \in C  BY <1>4
  <2> QED BY <1>3, <2>1, Upward
<1> QED BY <1>2, <1>5

(* A node that a level is the first to have ends a trail of that length    *)
(* within the level: the trail to the node before it does not use the edge *)
(* between them, which leaves the level it is in.                          *)
TrailTo(b, paths, level, d) ==
    \E p \in paths[d] : p.end = b /\ \A e \in p.used : {e.src, e.dst} \subseteq level[d]

LEMMA TrailsReach ==
    ASSUME NEW seed, NEW depth \in Nat \ {0}, NEW paths, Trails(paths, seed, depth),
           NEW level, Walk(level, seed, Steps(edges, "all"), depth)
    PROVE  \A d \in 1..depth : \A b \in level[d] \ level[d - 1] : TrailTo(b, paths, level, d)
<1>1. \A e \in edges : \A a, b : Follows(e, a, b, "all") =>
         a \in {e.src, e.dst} /\ b \in {e.src, e.dst} /\ (a # b => Other(e, a) = b) /\ {e.src, e.dst} = {a, b}
  BY DEF Follows, Other
<1>2. PICK C : C = {d \in 0..depth : d = 0 \/ \A b \in level[d] \ level[d - 1] : TrailTo(b, paths, level, d)}
  OBVIOUS
<1>3. 0 \in C  BY <1>2
<1>4. ASSUME NEW d \in 1..depth, d - 1 \in C PROVE d \in C
  <2> SUFFICES ASSUME NEW b \in level[d] \ level[d - 1] PROVE TrailTo(b, paths, level, d)  BY <1>2
  <2>1. PICK a \in level[d - 1], e \in edges : Follows(e, a, b, "all")  BY NextLevel
  <2>2. a # b /\ a \in {e.src, e.dst} /\ Other(e, a) = b /\ {e.src, e.dst} = {a, b}  BY <1>1, <2>1
  <2>3. level[d - 1] \subseteq level[d]
    <3>1. d - 1 \in 0..depth /\ d \in 0..depth /\ d - 1 <= d /\ depth \in Nat  OBVIOUS
    <3> QED BY <3>1, WalkGrows
  <2>4. CASE d = 1
    <3>1. a = seed  BY <2>4 DEF Walk
    <3>2. paths[1] = FirstTrails(seed)  BY DEF Trails
    <3>3. [end |-> Other(e, seed), used |-> {e}] \in paths[1]  BY <2>2, <3>1, <3>2 DEF FirstTrails
    <3>4. PICK p \in paths[1] : p.end = b /\ p.used = {e}  BY <2>2, <3>1, <3>3
    <3>5. {e.src, e.dst} \subseteq level[d]  BY <2>2, <2>3
    <3> QED BY <2>4, <3>4, <3>5 DEF TrailTo
  <2>5. CASE d # 1
    <3>1. d \in 2..depth /\ d - 1 # 0 /\ d - 1 \in 1..depth  BY <2>5
    <3>2. a \notin level[d - 1 - 1]
      <4>1. ASSUME a \in level[d - 1 - 1] PROVE FALSE
        <5>1. b \in level[d - 1]  BY <2>1, <3>1, <4>1, NextLevel
        <5> QED BY <5>1
      <4> QED BY <4>1
    <3>3. TrailTo(a, paths, level, d - 1)  BY <1>2, <1>4, <3>1, <3>2
    <3>4. PICK p \in paths[d - 1] : p.end = a /\ \A x \in p.used : {x.src, x.dst} \subseteq level[d - 1]
      BY <3>3 DEF TrailTo
    <3>5. e \notin p.used  BY <2>2, <3>4
    <3>6. [end |-> Other(e, p.end), used |-> p.used \union {e}] \in Longer(paths[d - 1])
      <4> DEFINE More(r) == {[end |-> Other(x, r.end), used |-> r.used \union {x}] :
                               x \in {y \in edges \ r.used : r.end \in {y.src, y.dst}}}
      <4>1. e \in {y \in edges \ p.used : p.end \in {y.src, y.dst}}  BY <2>2, <3>4, <3>5
      <4>2. [end |-> Other(e, p.end), used |-> p.used \union {e}] \in More(p)  BY <4>1
      <4>3. Longer(paths[d - 1]) = UNION {More(r) : r \in paths[d - 1]}  BY DEF Longer
      <4> HIDE DEF More
      <4> QED BY <4>2, <4>3
    <3>7. PICK q \in paths[d] : q.end = b /\ q.used = p.used \union {e}
      BY <2>2, <3>1, <3>4, <3>6 DEF Trails
    <3>8. \A x \in q.used : {x.src, x.dst} \subseteq level[d]  BY <2>2, <2>3, <3>4, <3>7
    <3> QED BY <3>7, <3>8 DEF TrailTo
  <2> QED BY <2>4, <2>5
<1>5. \A d \in 0..depth : d \in C
  <2>1. \A d \in 1..depth : d - 1 \in C => d \in C  BY <1>4
  <2> QED BY <1>3, <2>1, Upward
<1> QED BY <1>2, <1>5

(* A node is in some level first.                                          *)
LEMMA FirstLevel ==
    ASSUME NEW level, NEW seed, NEW steps, NEW depth \in Nat, Walk(level, seed, steps, depth),
           NEW d \in 0..depth, NEW b \in level[d], b # seed
    PROVE  \E c \in 1..d : b \in level[c] \ level[c - 1]
<1>1. PICK C : C = {c \in 0..depth : b \in level[c] => \E k \in 1..c : b \in level[k] \ level[k - 1]}
  OBVIOUS
<1>2. 0 \in C  BY <1>1 DEF Walk
<1>3. ASSUME NEW c \in 1..depth, c - 1 \in C PROVE c \in C
  <2>1. CASE b \in level[c - 1]
    <3>1. PICK k \in 1..(c - 1) : b \in level[k] \ level[k - 1]  BY <1>1, <1>3, <2>1
    <3>2. k \in 1..c  OBVIOUS
    <3> QED BY <1>1, <3>1, <3>2
  <2>2. CASE b \notin level[c - 1]
    <3>1. c \in 1..c  OBVIOUS
    <3> QED BY <1>1, <2>2, <3>1
  <2> QED BY <2>1, <2>2
<1>4. \A c \in 0..depth : c \in C
  <2>1. \A c \in 1..depth : c - 1 \in C => c \in C  BY <1>3
  <2> QED BY <1>2, <2>1, Upward
<1> QED BY <1>1, <1>4

(* Both tiers find what is around the seed.                                *)
LEMMA NeighborsAround ==
    ASSUME EdgesLinked, NEW seed \in DOMAIN nodes, NEW depth \in Depths
    PROVE  Neighbors(seed, {}, depth) \union {seed} = Around(seed, depth)[depth]
<1>1. depth \in Nat \ {0} /\ depth \in Nat /\ Clamp(depth, 1, MaxDepth) = depth
  BY StoresAssumption DEF Depths, Clamp
<1>2. PICK level : level = Around(seed, depth)  OBVIOUS
<1>3. Walk(level, seed, Steps(edges, "all"), depth)  BY <1>1, <1>2, LevelsWalk DEF Around
<1>4. depth \in 0..depth /\ seed \in level[depth] /\ \A c, d \in 0..depth : c <= d => level[c] \subseteq level[d]
  BY <1>1, <1>3, WalkGrows
<1>5. CASE tier = "lite"
  <2>1. Neighbors(seed, {}, depth) = level[depth] \ {seed}  BY <1>1, <1>2, <1>5, LiteFinds DEF Neighbors
  <2> QED BY <1>2, <1>4, <2>1
<1>6. CASE tier # "lite"
  <2>1. PICK paths : /\ Trails(paths, seed, depth)
                     /\ ServerNeighbors(seed, {}, depth) = UNION {{p.end : p \in paths[d]} : d \in 1..depth}
    BY <1>1, ServerTrails
  <2>2. Neighbors(seed, {}, depth) = UNION {{p.end : p \in paths[d]} : d \in 1..depth}
    BY <1>6, <2>1 DEF Neighbors
  <2>3. ASSUME NEW d \in 1..depth, NEW p \in paths[d] PROVE p.end \in level[depth]
    <3>1. p.end \in level[d]  BY <1>1, <1>3, <2>1, TrailsStayNear
    <3>2. d \in 0..depth /\ d <= depth  BY <1>1
    <3> QED BY <1>4, <3>1, <3>2
  <2>4. ASSUME NEW b \in level[depth], b # seed PROVE b \in Neighbors(seed, {}, depth)
    <3>1. PICK c \in 1..depth : b \in level[c] \ level[c - 1]  BY <1>1, <1>3, <1>4, <2>4, FirstLevel
    <3>2. TrailTo(b, paths, level, c)  BY <1>1, <1>3, <2>1, <3>1, TrailsReach
    <3> QED BY <2>2, <3>2 DEF TrailTo
  <2>5. Neighbors(seed, {}, depth) \subseteq level[depth]  BY <2>2, <2>3
  <2> QED BY <1>2, <1>4, <2>4, <2>5
<1> QED BY <1>5, <1>6

(* A directed walk does not leave what is around the seed, so the edges    *)
(* among those nodes are all it needs.                                     *)
LEMMA WalkInside ==
    ASSUME NEW seed, NEW depth \in Nat, NEW direction,
           NEW wide, Walk(wide, seed, Steps(edges, "all"), depth),
           NEW outer, Walk(outer, seed, Steps(edges, direction), depth),
           NEW inner, Walk(inner, seed, Steps(EdgesAmong(wide[depth]), direction), depth)
    PROVE  \A d \in 0..depth : inner[d] = outer[d] /\ outer[d] \subseteq wide[d]
<1>1. \A e, a, b : Follows(e, a, b, direction) =>
         Follows(e, a, b, "all") /\ {e.src, e.dst} = {a, b}
  BY DEF Follows
<1>2. \A c, d \in 0..depth : c <= d => wide[c] \subseteq wide[d]  BY WalkGrows
<1>3. PICK C : C = {d \in 0..depth : inner[d] = outer[d] /\ outer[d] \subseteq wide[d]}  OBVIOUS
<1>4. 0 \in C
  <2>1. inner[0] = {seed} /\ outer[0] = {seed} /\ wide[0] = {seed}  BY DEF Walk
  <2>2. 0 \in 0..depth  OBVIOUS
  <2> QED BY <1>3, <2>1, <2>2
<1>5. ASSUME NEW d \in 1..depth, d - 1 \in C PROVE d \in C
  <2>1. d - 1 \in 0..depth /\ d \in 0..depth /\ depth \in 0..depth /\ d - 1 <= depth /\ d <= depth
    OBVIOUS
  <2>2. inner[d - 1] = outer[d - 1] /\ outer[d - 1] \subseteq wide[d - 1]  BY <1>3, <1>5
  <2>3. wide[d - 1] \subseteq wide[depth] /\ wide[d] \subseteq wide[depth]  BY <1>2, <2>1
  <2>4. ASSUME NEW b \in outer[d] PROVE b \in wide[d] /\ b \in inner[d]
    <3>1. CASE b \in outer[d - 1]  BY <2>2, <3>1, NextLevel
    <3>2. CASE b \notin outer[d - 1]
      <4>1. PICK a \in outer[d - 1], e \in edges : Follows(e, a, b, direction)  BY <3>2, NextLevel
      <4>2. a \in wide[d - 1] /\ Follows(e, a, b, "all") /\ {e.src, e.dst} = {a, b}
        BY <1>1, <2>2, <4>1
      <4>3. b \in wide[d]  BY <4>2, NextLevel
      <4>4. e \in EdgesAmong(wide[depth])  BY <2>3, <4>2, <4>3 DEF EdgesAmong
      <4>5. b \in inner[d]  BY <2>2, <4>1, <4>4, NextLevel
      <4> QED BY <4>3, <4>5
    <3> QED BY <3>1, <3>2
  <2>5. ASSUME NEW b \in inner[d] PROVE b \in outer[d]
    <3>1. CASE b \in inner[d - 1]  BY <2>2, <3>1, NextLevel
    <3>2. CASE b \notin inner[d - 1]
      <4>1. PICK a \in inner[d - 1], e \in EdgesAmong(wide[depth]) : Follows(e, a, b, direction)
        BY <3>2, NextLevel
      <4>2. e \in edges  BY DEF EdgesAmong
      <4> QED BY <2>2, <4>1, <4>2, NextLevel
    <3> QED BY <3>1, <3>2
  <2>6. inner[d] = outer[d]  BY <2>4, <2>5
  <2>7. outer[d] \subseteq wide[d]  BY <2>4
  <2> QED BY <1>3, <2>1, <2>6, <2>7
<1>6. \A d \in 0..depth : d \in C
  <2>1. \A d \in 1..depth : d - 1 \in C => d \in C  BY <1>5
  <2> QED BY <1>4, <2>1, Upward
<1> QED BY <1>3, <1>6

(* Without edges a walk stays where it begins.                             *)
LEMMA WalkNowhere ==
    ASSUME NEW seed, NEW depth \in Nat, NEW direction, NEW level,
           Walk(level, seed, Steps({}, direction), depth)
    PROVE  level[depth] = {seed}
<1>1. PICK C : C = {d \in 0..depth : level[d] = {seed}}  OBVIOUS
<1>2. 0 \in C  BY <1>1 DEF Walk
<1>3. \A d \in 1..depth : d - 1 \in C => d \in C
  <2> SUFFICES ASSUME NEW d \in 1..depth, d - 1 \in C PROVE d \in C  OBVIOUS
  <2>1. \A b : b \in level[d] <=> b \in level[d - 1]  BY NextLevel
  <2> QED BY <1>1, <2>1
<1>4. \A d \in 0..depth : d \in C  BY <1>2, <1>3, Upward
<1> QED BY <1>1, <1>4

(* The levels of the whole graph, and what is found with its distances.    *)
Found(reached, far, seed, depth) ==
    /\ DOMAIN reached = far[depth] \ {seed}
    /\ \A b \in DOMAIN reached : reached[b] \in 1..depth /\ b \in far[reached[b]] \ far[reached[b] - 1]

LEMMA ReachedFound ==
    ASSUME EdgesLinked, NEW seed \in DOMAIN nodes, NEW direction, NEW depth \in Depths
    PROVE  Found(Reached(seed, direction, depth), Levels(seed, Steps(edges, direction), depth), seed, depth)
<1>1. depth \in Nat \ {0} /\ depth \in Nat /\ depth \in 0..depth /\ depth \in 1..depth  BY DEF Depths
<1>2. PICK wide : wide = Around(seed, depth)  OBVIOUS
<1>3. PICK near : near = Neighbors(seed, {}, depth)  OBVIOUS
<1>4. PICK es : es = EdgesAmong(wide[depth])  OBVIOUS
<1>5. PICK far : far = Levels(seed, Steps(edges, direction), depth)  OBVIOUS
<1>6. PICK inner : inner = Levels(seed, Steps(es, direction), depth)  OBVIOUS
<1>7. Walk(wide, seed, Steps(edges, "all"), depth)  BY <1>1, <1>2, LevelsWalk DEF Around
<1>8. Walk(far, seed, Steps(edges, direction), depth)  BY <1>1, <1>5, LevelsWalk
<1>9. Walk(inner, seed, Steps(es, direction), depth)  BY <1>1, <1>6, LevelsWalk
<1>10. \A d \in 0..depth : inner[d] = far[d]  BY <1>1, <1>4, <1>7, <1>8, <1>9, WalkInside
<1>11. near \union {seed} = wide[depth]  BY <1>2, <1>3, NeighborsAround
<1>12. EdgesAmong(near \union {seed}) = es  BY <1>4, <1>11
<1>13. CASE es # {}
  <2>1. PICK reached : reached = [b \in inner[depth] \ {seed} |-> Min({d \in 1..depth : b \in inner[d]})]
    OBVIOUS
  <2>2. Reached(seed, direction, depth) = reached
    BY <1>3, <1>6, <1>12, <1>13, <2>1 DEF Reached, DirectedBfs
  <2>3. ASSUME NEW b \in inner[depth] \ {seed}
        PROVE  reached[b] \in 1..depth /\ b \in inner[reached[b]] \ inner[reached[b] - 1]
    <3>1. PICK S : S = {d \in 1..depth : b \in inner[d]}  OBVIOUS
    <3>2. S \in SUBSET Int /\ S # {} /\ IsFiniteSet(S)
      <4>1. IsFiniteSet(1..depth)  BY <1>1, FS_Interval
      <4>2. IsFiniteSet(S)  BY <3>1, <4>1, FS_Subset
      <4> QED BY <1>1, <3>1, <4>2
    <3>3. PICK m \in S : m = Min(S) /\ \A k \in S : m <= k  BY <3>2, LeastIn
    <3>4. reached[b] = m  BY <2>1, <3>1, <3>3
    <3>5. m \in 1..depth /\ b \in inner[m]  BY <3>1, <3>3
    <3>6. b \notin inner[m - 1]
      <4>1. CASE m = 1
        <5>1. inner[0] = {seed}  BY <1>9 DEF Walk
        <5> QED BY <4>1, <5>1
      <4>2. CASE m # 1
        <5>1. m - 1 \in 1..depth /\ ~(m <= m - 1)  BY <1>1, <3>5, <4>2
        <5> QED BY <3>1, <3>3, <5>1
      <4> QED BY <4>1, <4>2
    <3> QED BY <3>4, <3>5, <3>6
  <2>4. DOMAIN reached = inner[depth] \ {seed}  BY <2>1
  <2>5. inner[depth] = far[depth] /\ \A m \in 1..depth : inner[m] = far[m] /\ inner[m - 1] = far[m - 1]
    <3>1. \A m \in 1..depth : m \in 0..depth /\ m - 1 \in 0..depth  BY <1>1
    <3> QED BY <1>1, <1>10, <3>1
  <2> QED BY <1>5, <2>2, <2>3, <2>4, <2>5 DEF Found
<1>14. CASE es = {}
  <2>1. far[depth] = {seed}  BY <1>1, <1>9, <1>10, <1>14, WalkNowhere
  <2>2. wide[depth] = {seed}
    <3>1. PICK level : level = Levels(seed, Steps(es, "all"), depth)  OBVIOUS
    <3>2. Walk(level, seed, Steps(es, "all"), depth)  BY <1>1, <3>1, LevelsWalk
    <3>3. level[depth] = wide[depth]  BY <1>1, <1>4, <1>7, <3>2, WalkInside
    <3> QED BY <1>1, <1>14, <3>2, <3>3, WalkNowhere
  <2>3. near \ {seed} = {}  BY <1>11, <2>2
  <2>4. DOMAIN [b \in near \ {seed} |-> 1] = {} /\ DOMAIN <<>> = {}  BY <2>3
  <2>5. DOMAIN Reached(seed, direction, depth) = {}
    <3>1. CASE direction = "all"
      <4>1. Reached(seed, direction, depth) = [b \in near \ {seed} |-> 1]
        BY <1>3, <1>12, <1>14, <3>1 DEF Reached
      <4> QED BY <2>4, <4>1
    <3>2. CASE direction # "all"
      <4>1. Reached(seed, direction, depth) = <<>>
        BY <1>3, <1>12, <1>14, <3>2 DEF Reached
      <4> QED BY <2>4, <4>1
    <3> QED BY <3>1, <3>2
  <2> QED BY <1>5, <2>1, <2>5 DEF Found
<1> QED BY <1>13, <1>14

(* The nearest of finitely many nodes exist, however many are asked for.   *)
Near(reached, n, kept) ==
    /\ kept \in SUBSET DOMAIN reached /\ Cardinality(kept) = n
    /\ \A b \in kept, c \in DOMAIN reached \ kept : reached[b] <= reached[c]

LEMMA NearestExist ==
    ASSUME NEW reached, IsFiniteSet(DOMAIN reached), \A b \in DOMAIN reached : reached[b] \in Int,
           NEW n \in 0..Cardinality(DOMAIN reached)
    PROVE  Near(reached, n, Nearest(reached, n))
<1>1. PICK N \in Nat : N = Cardinality(DOMAIN reached)  BY FS_CardinalityType
<1>2. PICK C : C = {k \in 0..N : \E kept : Near(reached, k, kept)}  OBVIOUS
<1>3. 0 \in C
  <2>1. Cardinality({}) = 0  BY FS_EmptySet
  <2>2. Near(reached, 0, {})  BY <2>1 DEF Near
  <2> QED BY <1>1, <1>2, <2>2
<1>4. ASSUME NEW k \in 1..N, k - 1 \in C PROVE k \in C
  <2>1. PICK kept : Near(reached, k - 1, kept)  BY <1>2, <1>4
  <2>2. PICK rest : rest = DOMAIN reached \ kept  OBVIOUS
  <2>3. rest # {} /\ IsFiniteSet(rest) /\ IsFiniteSet(kept)
    <3>1. rest = {} => kept = DOMAIN reached  BY <2>1, <2>2 DEF Near
    <3>2. Cardinality(kept) # N  BY <2>1 DEF Near
    <3>3. IsFiniteSet(rest)  BY <2>2, FS_Subset
    <3>4. IsFiniteSet(kept)  BY <2>1, FS_Subset DEF Near
    <3> QED BY <1>1, <3>1, <3>2, <3>3, <3>4
  <2>4. PICK far : far = [c \in rest |-> reached[c]]  OBVIOUS
  <2>5. PICK S : S = {reached[c] : c \in rest}  OBVIOUS
  <2>6. S \in SUBSET Int /\ S # {} /\ IsFiniteSet(S)
    <3>1. far \in Surjection(rest, S)  BY <2>4, <2>5 DEF Surjection
    <3>2. IsFiniteSet(S)  BY <2>3, <3>1, FS_Surjection
    <3>3. S \subseteq Int  BY <2>2, <2>5
    <3>4. S # {}  BY <2>3, <2>5
    <3> QED BY <3>2, <3>3, <3>4
  <2>7. PICK m \in S : \A j \in S : m <= j  BY <2>6, LeastElement
  <2>8. PICK c \in rest : reached[c] = m  BY <2>5, <2>7
  <2>9. \A j \in rest : reached[c] <= reached[j]  BY <2>5, <2>7, <2>8
  <2>10. Cardinality(kept \union {c}) = k
    <3>1. c \notin kept  BY <2>2
    <3>2. Cardinality(kept \union {c}) = Cardinality(kept) + 1  BY <2>3, <3>1, FS_AddElement
    <3> QED BY <2>1, <3>2 DEF Near
  <2>11. PICK more : more = kept \union {c}  OBVIOUS
  <2>12. \A b \in more, j \in DOMAIN reached \ more : reached[b] <= reached[j]
    BY <2>1, <2>2, <2>9, <2>11 DEF Near
  <2>13. Near(reached, k, more)  BY <2>1, <2>2, <2>10, <2>11, <2>12 DEF Near
  <2> QED BY <1>2, <2>13
<1>5. \A k \in 0..N : k \in C
  <2>1. \A k \in 1..N : k - 1 \in C => k \in C  BY <1>4
  <2> QED BY <1>3, <2>1, Upward
<1>6. PICK kept : Near(reached, n, kept)  BY <1>1, <1>2, <1>5
<1>7. Nearest(reached, n) = CHOOSE x \in SUBSET DOMAIN reached : Near(reached, n, x)
  BY DEF Nearest, Near
<1>8. kept \in SUBSET DOMAIN reached  BY <1>6 DEF Near
<1> QED BY <1>6, <1>7, <1>8

(* What the tools answer is exact, one seed, direction and depth at a time.*)
Exact(got, far, seed, depth) ==
    LET hit == DOMAIN got.neighbors IN
    /\ hit \subseteq far[depth] \ {seed}
    /\ got.truncated \/ hit = far[depth] \ {seed}
    /\ \A b \in hit : /\ b \in far[got.neighbors[b]] \ far[got.neighbors[b] - 1]
                      /\ \A c \in (far[depth] \ {seed}) \ hit : c \notin far[got.neighbors[b] - 1]

LEMMA ExploreFinds ==
    ASSUME StoresInv, EdgesLinked, NEW seed \in DOMAIN nodes, NEW direction, NEW depth \in Depths
    PROVE  Exact(Explore(seed, direction, depth), Directed(seed, direction, depth), seed, depth)
<1>1. depth \in Nat /\ depth \in 0..depth  BY DEF Depths
<1>2. PICK level : level = Levels(seed, Steps(edges, direction), depth)  OBVIOUS
<1>3. PICK far : far = Directed(seed, direction, depth)  OBVIOUS
<1>4. \A d \in 0..depth : far[d] = level[d]  BY <1>1, <1>2, <1>3, DirectedWalks
<1>5. \A c, d \in 0..depth : c <= d => far[c] \subseteq far[d]
  <2>1. Walk(level, seed, Steps(edges, direction), depth)  BY <1>1, <1>2, LevelsWalk
  <2> QED BY <1>1, <1>4, <2>1, WalkGrows
<1>6. PICK reached : reached = Reached(seed, direction, depth)  OBVIOUS
<1>7. Found(reached, level, seed, depth)  BY <1>2, <1>6, ReachedFound
<1>8. \A d \in 1..depth : d \in 0..depth /\ d - 1 \in 0..depth  BY <1>1
<1>9. /\ DOMAIN reached = far[depth] \ {seed}
      /\ \A b \in DOMAIN reached : reached[b] \in 1..depth /\ b \in far[reached[b]] \ far[reached[b] - 1]
  BY <1>1, <1>4, <1>7, <1>8 DEF Found
<1>10. IsFiniteSet(DOMAIN reached)
  <2>1. far[depth] \subseteq DOMAIN nodes
    <3>1. Walk(level, seed, Steps(edges, direction), depth)  BY <1>1, <1>2, LevelsWalk
    <3>2. PICK wide : wide = Around(seed, depth)  OBVIOUS
    <3>3. Walk(wide, seed, Steps(edges, "all"), depth)  BY <1>1, <3>2, LevelsWalk DEF Around
    <3>4. PICK inner : inner = Levels(seed, Steps(EdgesAmong(wide[depth]), direction), depth)  OBVIOUS
    <3>5. Walk(inner, seed, Steps(EdgesAmong(wide[depth]), direction), depth)  BY <1>1, <3>4, LevelsWalk
    <3>6. level[depth] \subseteq wide[depth]  BY <1>1, <3>1, <3>3, <3>5, WalkInside
    <3>7. wide[depth] \subseteq DOMAIN nodes  BY <1>1, <3>2, AroundNodes
    <3> QED BY <1>1, <1>4, <3>6, <3>7
  <2> QED BY <1>9, <2>1, FS_Subset DEF StoresInv, StoredBounded
<1>11. PICK count \in Nat : count = Cardinality(DOMAIN reached)  BY <1>10, FS_CardinalityType
<1>12. PICK n \in 0..count : n = Clamp(count, 0, MaxNeighbors) /\ (count > MaxNeighbors \/ n = count)
  BY StoresAssumption DEF Clamp
<1>13. PICK kept : kept = Nearest(reached, n)  OBVIOUS
<1>14. Near(reached, n, kept)
  <2>1. \A b \in DOMAIN reached : reached[b] \in Int  BY <1>9
  <2> QED BY <1>10, <1>11, <1>13, <2>1, NearestExist
<1>15. PICK got : got = Explore(seed, direction, depth)  OBVIOUS
<1>16. got.neighbors = [b \in kept |-> reached[b]] /\ got.truncated = (count > MaxNeighbors)
  BY <1>6, <1>11, <1>12, <1>13, <1>15 DEF Explore
<1>17. DOMAIN got.neighbors = kept /\ \A b \in kept : got.neighbors[b] = reached[b]  BY <1>16
<1>18. kept \subseteq DOMAIN reached  BY <1>14 DEF Near
<1>19. count > MaxNeighbors \/ kept = DOMAIN reached
  <2>1. n = count => kept = DOMAIN reached  BY <1>10, <1>11, <1>14, FS_Subset DEF Near
  <2> QED BY <1>12, <2>1
<1>20. ASSUME NEW b \in kept, NEW c \in DOMAIN reached \ kept PROVE c \notin far[reached[b] - 1]
  <2>1. reached[b] <= reached[c]  BY <1>14 DEF Near
  <2>2. reached[b] \in 1..depth /\ reached[c] \in 1..depth  BY <1>9, <1>18
  <2>3. reached[b] - 1 \in 0..depth /\ reached[c] - 1 \in 0..depth /\ reached[b] - 1 <= reached[c] - 1
    BY <1>1, <2>1, <2>2
  <2>4. far[reached[b] - 1] \subseteq far[reached[c] - 1]  BY <1>5, <2>3
  <2> QED BY <1>9, <2>4
<1>21. Exact(got, far, seed, depth)
  BY <1>9, <1>16, <1>17, <1>18, <1>19, <1>20 DEF Exact
<1> QED BY <1>3, <1>15, <1>21

(* The External nodes one step away are not the node itself, which no edge *)
(* begins at if it is one.                                                 *)
LEMMA RisksFound ==
    ASSUME StoresInv, EdgesLinked, NEW seed \in DOMAIN nodes
    PROVE  Risks(seed) = {b \in DOMAIN nodes : /\ nodes[b].kind = "External"
                                               /\ b \in Directed(seed, "all", 1)[1] \ {seed}}
<1>1. 1 \in Depths /\ 1 \in Nat /\ 1 \in Nat \ {0} /\ 1 \in 0..1  BY DEF Depths
<1>2. PICK near : near = Neighbors(seed, {}, 1)  OBVIOUS
<1>3. PICK level : level = Around(seed, 1)  OBVIOUS
<1>4. near \union {seed} = level[1]  BY <1>1, <1>2, <1>3, NeighborsAround
<1>5. Directed(seed, "all", 1)[1] = level[1]  BY <1>1, <1>3, DirectedWalks DEF Around
<1>6. level[1] \subseteq DOMAIN nodes  BY <1>1, <1>3, AroundNodes
<1>7. ASSUME seed \in near PROVE nodes[seed].kind # "External"
  <2>1. Clamp(1, 1, MaxDepth) = 1  BY <1>1, StoresAssumption DEF Clamp
  <2>2. tier # "lite"
    <3>1. seed \notin LiteNeighbors(seed, {}, 1)  BY DEF LiteNeighbors
    <3> QED BY <1>2, <1>7, <3>1 DEF Neighbors
  <2>3. PICK paths : /\ Trails(paths, seed, 1)
                     /\ ServerNeighbors(seed, {}, 1) = UNION {{p.end : p \in paths[d]} : d \in 1..1}
    BY <1>1, <2>1, ServerTrails
  <2>4. near = UNION {{p.end : p \in paths[d]} : d \in 1..1}  BY <1>2, <2>2, <2>3 DEF Neighbors
  <2>5. PICK p \in paths[1] : p.end = seed
    <3>1. \A d \in 1..1 : d = 1  OBVIOUS
    <3> QED BY <1>7, <2>4, <3>1
  <2>6. PICK e \in edges : seed \in {e.src, e.dst} /\ p = [end |-> Other(e, seed), used |-> {e}]
    BY <2>3, <2>5 DEF Trails, FirstTrails
  <2>7. Other(e, seed) = seed  BY <2>5, <2>6
  <2>8. e.src = seed  BY <2>7 DEF Other
  <2>9. PICK n \in NodeRecords : n.id = seed /\ nodes[seed] = n.props  BY DEF StoresInv, NodesWhole
  <2>10. e \in EdgeRecords  BY DEF StoresInv, StoredBounded
  <2> QED BY <2>8, <2>9, <2>10, StoresAssumption
<1>8. Risks(seed) = {b \in near : nodes[b].kind = "External"}  BY <1>2 DEF Risks
<1> QED BY <1>4, <1>5, <1>6, <1>7, <1>8

(* The reads the tools make return what the whole graph has, nearest first,*)
(* from one query on each tier.                                            *)
THEOREM ReadsAlwaysExact == Spec => []ReadsExact
<1>1. StoresInv /\ EdgesLinked => ExploreExact
  <2> SUFFICES ASSUME StoresInv, EdgesLinked PROVE ExploreExact  OBVIOUS
  <2> SUFFICES ASSUME NEW seed \in DOMAIN nodes, NEW depth \in Depths
               PROVE  /\ \A direction \in DOMAIN DirectionRules \union {"all"} :
                           Exact(Explore(seed, direction, depth), Directed(seed, direction, depth),
                                 seed, depth)
                      /\ Risks(seed) = {b \in DOMAIN nodes :
                                           /\ nodes[b].kind = "External"
                                           /\ b \in Directed(seed, "all", 1)[1] \ {seed}}
                      /\ QueryGraph(seed, depth) = Explore(seed, "all", depth)
    BY DEF ExploreExact, Exact
  <2>1. \A direction \in DOMAIN DirectionRules \union {"all"} :
           Exact(Explore(seed, direction, depth), Directed(seed, direction, depth), seed, depth)
    BY ExploreFinds
  <2>2. QueryGraph(seed, depth) = Explore(seed, "all", depth)
    <3>1. Clamp(depth, 1, 5) = depth  BY DEF Depths, Clamp
    <3> QED BY <3>1 DEF QueryGraph
  <2> QED BY <2>1, <2>2, RisksFound
<1>2. StoresInv => ReadsExact  BY <1>1 DEF ReadsExact, EdgesLinked, Dangles
<1> QED BY <1>2, StoresStart, StepContract, PTL DEF Spec

---------------------------------------------------------------------------
(* Keys, tokens and providers, for any tokens, providers and requests in   *)
(* progress.  The inductive invariant:                                     *)
(*                                                                         *)
(*   CredentialsType  types, as far as the argument needs them             *)
(*   RequestsInv      what a request has read or written is still in the   *)
(*                    table while it has its copy for itself, and a merge  *)
(*                    that waits to be written keeps the key handed out    *)
(*   AloneInv         of two requests on one copy neither believes to be   *)
(*                    alone                                                *)
(*   CopyInv          a copy is out of step with its table only if it is   *)
(*                    called so, or a request on it wrote and has not      *)
(*                    swapped                                              *)
(*   HandedInv        the key handed out last is in force until the next   *)
(*                    one is written                                       *)

Gates == {"config", "tokens", "providers"}

CredentialsType ==
    /\ env \in Keys \union {None}
    /\ row \in Config \union {None}
    /\ live \in [Gates -> Reads]
    /\ request \in [Slots -> Request \union {None}]
    /\ ops \in 0..MaxOps

\* Past the write that makes a copy old, for a given copy and for a new key.
Written(q, copy) ==
    q # None /\ q.pc \in {"readback", "list", "swap"} /\ CopyOf(q.op) = copy
Mints(q) ==
    q # None /\ q.pc \in {"readback", "list", "swap"} /\ q.op \in {"generate", "rotate"}

Busy(q, copy) == q # None /\ q.pc # "handler" /\ CopyOf(q.op) = copy

WrittenFor(copy) == \E s \in Slots : Written(request[s], copy)
Minting          == \E s \in Slots : Mints(request[s])

\* The steps of each kind of request, and what a merge carries.
Sound(q) ==
    /\ q.pc = "merge" => q.op \in ConfigOps
    /\ q.pc \in {"check", "readback"} => q.op \in ProviderOps
    /\ q.op \in ConfigOps => q.minted \in Keys
    /\ q.op \in ConfigOps /\ q.pc = "write" => q.read \in Config
    /\ q.op \in {"generate", "rotate"} /\ q.pc = "write" => q.read.key = q.minted

\* What a request that is alone has read and written is still there.
Fresh(q) ==
    /\ q.alone /\ q.pc = "swap" => q.read = Stored[CopyOf(q.op)]
    /\ q.alone /\ Mints(q) => row # None /\ row.key = q.minted

\* A new secret goes into the row with the key that was handed out.
Kept(q) ==
    q.op = "secret" /\ q.pc = "write" /\ handed # None /\ ~Minting
        => McpApiKey(q.read) = handed

RequestsInv ==
    \A s \in Slots : request[s] # None
        => Sound(request[s]) /\ Fresh(request[s]) /\ Kept(request[s])

AloneInv ==
    \A s, o \in Slots, copy \in Gates :
        s # o /\ Busy(request[s], copy) /\ Busy(request[o], copy) => ~request[s].alone

CopyInv ==
    \A copy \in Gates : copy \notin stale /\ ~WrittenFor(copy) => live[copy] = Stored[copy]

HandedInv == handed # None /\ ~Minting => McpApiKey(row) = handed

CredentialsInv == CredentialsType /\ RequestsInv /\ AloneInv /\ CopyInv /\ HandedInv

---------------------------------------------------------------------------
(* Lemmas about copies, keys and the requests in the slots.                *)

(* Every request is about one copy.                                        *)
LEMMA CopyTyped == \A op : CopyOf(op) \in Gates
  BY DEF CopyOf, Gates

(* The tables are typed as what is read from them.                         *)
LEMMA StoredTyped == row \in Config \union {None} => Stored \in [Gates -> Reads]
<1> SUFFICES ASSUME row \in Config \union {None}
             PROVE  Stored \in [Gates -> Reads]
  OBVIOUS
<1>1. ListActiveHashes \subseteq Tokens /\ Rebuilt \subseteq Providers
  BY DEF ListActiveHashes, Rebuilt, ListEnabled
<1>2. row \in Reads
  BY DEF Reads
<1>3. ListActiveHashes \in Reads /\ Rebuilt \in Reads
  BY <1>1 DEF Reads
<1> QED
  BY <1>2, <1>3 DEF Stored, Gates

(* A merged row is there, so the key in it is in force.                    *)
LEMMA KeyOfConfig ==
    ASSUME NEW c \in Config, c.key # None
    PROVE  McpApiKey(c) = c.key /\ c # None
  BY CredentialsAssumption DEF McpApiKey

(* Keys are not nothing.                                                   *)
LEMMA KeysAreKeys == \A k \in Keys : k # None
  BY CredentialsAssumption

(* One slot changes: what is written and minted outside it stays.          *)
LEMMA SlotChanges ==
    ASSUME CredentialsType, NEW s \in Slots, NEW n \in Request \union {None},
           request' = [request EXCEPT ![s] = n]
    PROVE  /\ \A copy : (~Written(request[s], copy) \/ Written(n, copy))
                          => (WrittenFor(copy) => WrittenFor(copy)')
           /\ (~Mints(request[s]) \/ Mints(n)) => (Minting => Minting')
           /\ \A copy : Written(n, copy) => WrittenFor(copy)'
           /\ Mints(n) => Minting'
           /\ \A o \in Slots \ {s} : request'[o] = request[o]
           /\ request'[s] = n
<1>1. request'[s] = n /\ \A o \in Slots \ {s} : request'[o] = request[o]
  BY DEF CredentialsType
<1>2. ASSUME NEW copy, Written(n, copy)
      PROVE  WrittenFor(copy)'
  BY <1>1, <1>2 DEF WrittenFor, Written
<1>3. ASSUME Mints(n)
      PROVE  Minting'
  BY <1>1, <1>3 DEF Minting, Mints
<1>4. ASSUME NEW copy, WrittenFor(copy), ~Written(request[s], copy)
      PROVE  WrittenFor(copy)'
  <2>1. PICK o \in Slots : Written(request[o], copy)
    BY <1>4 DEF WrittenFor
  <2>2. request'[o] = request[o]
    BY <1>1, <1>4, <2>1
  <2> QED
    BY <2>1, <2>2 DEF WrittenFor, Written
<1>5. ASSUME Minting, ~Mints(request[s])
      PROVE  Minting'
  <2>1. PICK o \in Slots : Mints(request[o])
    BY <1>5 DEF Minting
  <2>2. request'[o] = request[o]
    BY <1>1, <1>5, <2>1
  <2> QED
    BY <2>1, <2>2 DEF Minting, Mints
<1> QED
  BY <1>1, <1>2, <1>3, <1>4, <1>5

(* One request moves on: the facts about the others stay, as long as it    *)
(* changes the table of its own copy only.                                 *)
LEMMA RequestsFrame ==
    ASSUME CredentialsInv, NEW s \in Slots, NEW n \in Request \union {None},
           request' = [request EXCEPT ![s] = n],
           n # None => Sound(n) /\ Fresh(n)' /\ Kept(n)',
           n # None /\ n.pc # "handler" =>
               /\ Busy(request[s], CopyOf(n.op))
               /\ n.alone => request[s].alone,
           \/ handed' # None /\ ~Minting' => handed' = handed /\ ~Minting
           \/ Busy(request[s], "config") /\ request[s].alone,
           \A copy \in Gates : Stored'[copy] = Stored[copy] \/ Busy(request[s], copy),
           row' = row \/ Busy(request[s], "config"),
           env' = env
    PROVE  RequestsInv' /\ AloneInv'
<1>1. request'[s] = n /\ \A o \in Slots \ {s} : request'[o] = request[o]
  BY DEF CredentialsInv, CredentialsType
<1>2. ASSUME NEW o \in Slots \ {s}, request[o] # None
      PROVE  Sound(request[o]) /\ Fresh(request[o])' /\ Kept(request[o])'
  <2>1. PICK q \in Request : q = request[o]
    BY <1>2 DEF CredentialsInv, CredentialsType
  <2>2. Sound(q) /\ Fresh(q) /\ Kept(q)
    BY <1>2, <2>1 DEF CredentialsInv, RequestsInv
  <2>3. Kept(q)'
    <3>1. CASE handed' # None /\ ~Minting' => handed' = handed /\ ~Minting
      BY <2>2, <3>1 DEF Kept, McpApiKey
    <3>2. CASE Busy(request[s], "config") /\ request[s].alone
      <4>1. q.op = "secret" /\ q.pc = "write" => Busy(request[o], "config")
        BY <1>2, <2>1 DEF Busy, CopyOf, ConfigOps
      <4>2. ~Busy(request[o], "config")
        BY <3>2 DEF CredentialsInv, AloneInv, Gates
      <4> QED
        BY <4>1, <4>2 DEF Kept
    <3> QED
      BY <3>1, <3>2
  <2>4. ASSUME q.alone, q.pc # "handler"
        PROVE  ~Busy(request[s], CopyOf(q.op))
    <3>1. Busy(request[o], CopyOf(q.op))
      BY <1>2, <2>1, <2>4 DEF Busy
    <3>2. CopyOf(q.op) \in Gates /\ o # s
      BY CopyTyped
    <3> QED
      BY <3>1, <3>2, <2>1, <2>4 DEF CredentialsInv, AloneInv
  <2>5. Fresh(q)'
    <3>1. ASSUME q.alone, q.pc = "swap"
          PROVE  q.read = Stored'[CopyOf(q.op)]
      <4>1. Stored'[CopyOf(q.op)] = Stored[CopyOf(q.op)]
        BY <3>1, <2>4, CopyTyped
      <4> QED
        BY <4>1, <3>1, <2>2 DEF Fresh
    <3>2. ASSUME q.alone, Mints(q)
          PROVE  row' # None /\ row'.key = q.minted
      <4>1. CopyOf(q.op) = "config" /\ q.pc # "handler"
        BY <3>2 DEF CopyOf, ConfigOps, Mints
      <4>2. row' = row
        BY <4>1, <3>2, <2>4
      <4> QED
        BY <4>2, <3>2, <2>2 DEF Fresh
    <3> QED
      BY <3>1, <3>2 DEF Fresh, Mints
  <2>6. request'[o] = q
    BY <1>1, <2>1
  <2> QED
    BY <2>1, <2>2, <2>3, <2>5, <2>6 DEF Fresh, Kept, Mints, Sound
<1>3. RequestsInv'
  <2> SUFFICES ASSUME NEW o \in Slots, request'[o] # None
               PROVE  (Sound(request[o]) /\ Fresh(request[o]) /\ Kept(request[o]))'
    BY DEF RequestsInv
  <2>1. CASE o = s
    BY <1>1, <2>1 DEF Sound, Fresh, Kept, Mints
  <2>2. CASE o # s
    BY <1>1, <1>2, <2>2 DEF Sound, Fresh, Kept, Mints
  <2> QED
    BY <2>1, <2>2
<1>4. AloneInv'
  <2> SUFFICES ASSUME NEW a \in Slots, NEW b \in Slots, NEW copy \in Gates, a # b,
                      Busy(request'[a], copy), Busy(request'[b], copy)
               PROVE  ~request'[a].alone
    BY DEF AloneInv, Busy
  <2>1. Busy(request[a], copy) /\ Busy(request[b], copy)
    BY <1>1 DEF Busy
  <2>2. ~request[a].alone
    BY <2>1 DEF CredentialsInv, AloneInv
  <2> QED
    BY <1>1, <2>1, <2>2 DEF Busy
<1> QED
  BY <1>3, <1>4

(* The copies stay in step, or out of it and known to be.                  *)
LEMMA CopiesFrame ==
    ASSUME CredentialsInv, live' = live, stale \subseteq stale',
           \A copy \in Gates :
               \/ copy \in stale' \/ WrittenFor(copy)'
               \/ Stored'[copy] = Stored[copy] /\ (WrittenFor(copy) => WrittenFor(copy)')
    PROVE  CopyInv'
  BY DEF CredentialsInv, CopyInv

---------------------------------------------------------------------------
(* The steps.                                                              *)

(* Before any request.                                                     *)
LEMMA CredentialsStart == CredentialsInit => CredentialsInv
<1> SUFFICES ASSUME CredentialsInit PROVE CredentialsInv
  OBVIOUS
<1>1. env \in Keys \union {None} /\ row \in Config \union {None} /\ live = Stored
  <2>1. Key(0) \in Keys
    <3>1. 0 \in 0..MaxOps
      BY CredentialsAssumption
    <3> QED
      BY <3>1 DEF Keys
  <2>2. env \in Keys \union {None}
    BY <2>1 DEF CredentialsInit
  <2>3. row = IF env = None THEN None ELSE [key |-> env, secret |-> None]
    BY DEF CredentialsInit
  <2>4. row \in Config \union {None}
    BY <2>2, <2>3 DEF Config
  <2> QED
    BY <2>2, <2>4 DEF CredentialsInit
<1>2. CredentialsType
  BY <1>1, StoredTyped, CredentialsAssumption DEF CredentialsType, CredentialsInit
<1>3. CopyInv
  BY <1>1 DEF CopyInv
<1> QED
  BY <1>2, <1>3 DEF CredentialsInv, CredentialsInit, RequestsInv, AloneInv, HandedInv, Busy

(* A request arrives; its handler has not begun.                           *)
LEMMA ArriveInv ==
    ASSUME CredentialsInv, NEW s \in Slots, NEW op \in ConfigOps \union TokenOps \union ProviderOps,
           NEW target \in Targets(op), NEW presented, NEW session \in BOOLEAN,
           Arrive(s, op, target, presented, session)
    PROVE  CredentialsInv'
<1> DEFINE proved == ResolveApiKeySoft(presented) \/ (session /\ op # "rotate")
           m == IF op \in ConfigOps THEN Key(ops') ELSE None
<1> PICK p \in BOOLEAN : p = proved
  BY DEF ResolveApiKeySoft, AuthIsConfigured, CredentialAccepted
<1> PICK k \in Keys \union {None} : k = m
  BY CredentialsAssumption DEF Arrive, Happens, CredentialsInv, CredentialsType, Keys
<1> PICK n \in Request : n = [op |-> op, target |-> target, pc |-> "handler", proved |-> p,
                              minted |-> k, read |-> None, alone |-> TRUE]
  BY DEF Request, Reads, Targets
<1>1. request' = [request EXCEPT ![s] = n] /\ request[s] = None
  BY DEF Arrive
<1>2. UNCHANGED <<env, row, tokens, providers, live, stale, handed>> /\ ops' \in 0..MaxOps
  BY CredentialsAssumption DEF Arrive, tables, Happens, CredentialsInv, CredentialsType
<1>3. Stored' = Stored
  BY <1>2 DEF Stored, ListActiveHashes, Rebuilt, ListEnabled
<1>4. CredentialsType'
  BY <1>1, <1>2 DEF CredentialsInv, CredentialsType
<1>5. ~Mints(request[s]) /\ \A copy : ~Written(request[s], copy)
  BY <1>1 DEF Mints, Written
<1>6. \A copy : WrittenFor(copy) => WrittenFor(copy)'
  BY <1>1, <1>5, SlotChanges DEF CredentialsInv
<1>7. Minting => Minting'
  BY <1>1, <1>5, SlotChanges DEF CredentialsInv
<1>8. Sound(n) /\ Fresh(n)' /\ Kept(n)'
  BY KeysAreKeys, CredentialsAssumption
     DEF Sound, Fresh, Kept, Mints, Arrive, Happens, CredentialsInv, CredentialsType, Keys
<1>9. RequestsInv' /\ AloneInv'
  BY <1>1, <1>2, <1>3, <1>7, <1>8, RequestsFrame
<1>10. CopyInv'
  BY <1>2, <1>3, <1>6, CopiesFrame
<1>11. HandedInv'
  BY <1>2, <1>7 DEF CredentialsInv, HandedInv, McpApiKey
<1> QED
  BY <1>4, <1>9, <1>10, <1>11 DEF CredentialsInv

(* A request ends without having written since it was admitted.            *)
LEMMA EndsUnwritten ==
    ASSUME CredentialsInv, NEW s \in Slots, request[s] # None,
           request[s].pc \notin {"readback", "list", "swap"},
           Ends(s), UNCHANGED <<env, tables, live, stale, handed>>, ops' \in 0..MaxOps
    PROVE  CredentialsInv'
<1>1. request' = [request EXCEPT ![s] = None]
  BY DEF Ends
<1>2. UNCHANGED <<row, tokens, providers>>
  BY DEF tables
<1>3. Stored' = Stored
  BY <1>2 DEF Stored, ListActiveHashes, Rebuilt, ListEnabled
<1>4. CredentialsType'
  BY <1>1, <1>2 DEF CredentialsInv, CredentialsType
<1>5. ~Mints(request[s]) /\ \A copy : ~Written(request[s], copy)
  BY DEF Mints, Written
<1>6. \A copy : WrittenFor(copy) => WrittenFor(copy)'
  BY <1>1, <1>5, SlotChanges DEF CredentialsInv
<1>7. Minting => Minting'
  BY <1>1, <1>5, SlotChanges DEF CredentialsInv
<1>8. RequestsInv' /\ AloneInv'
  BY <1>1, <1>2, <1>3, <1>7, RequestsFrame
<1>9. CopyInv'
  BY <1>3, <1>6, CopiesFrame
<1>10. HandedInv'
  BY <1>2, <1>7 DEF CredentialsInv, HandedInv, McpApiKey
<1> QED
  BY <1>4, <1>8, <1>9, <1>10 DEF CredentialsInv

(* A request is given up; if it wrote, its copy is called stale and, when  *)
(* it was about the configuration, no key counts as handed out.            *)
LEMMA AbandonInv ==
    ASSUME CredentialsInv, NEW s \in Slots, request[s] # None,
           Ends(s), Abandoned(s), UNCHANGED <<env, tables, live>>, ops' \in 0..MaxOps
    PROVE  CredentialsInv'
<1> PICK q \in Request : q = request[s]
  BY DEF CredentialsInv, CredentialsType
<1>1. request' = [request EXCEPT ![s] = None]
  BY DEF Ends
<1>2. UNCHANGED <<row, tokens, providers>>
  BY DEF tables
<1>3. Stored' = Stored
  BY <1>2 DEF Stored, ListActiveHashes, Rebuilt, ListEnabled
<1>4. CASE q.pc \notin {"readback", "list", "swap"}
  BY <1>2, <1>4, EndsUnwritten DEF Abandoned, tables
<1>5. CASE q.pc \in {"readback", "list", "swap"}
  <2>1. CredentialsType'
    BY <1>1, <1>2 DEF CredentialsInv, CredentialsType
  <2>2. stale' = stale \union {CopyOf(q.op)}
    BY <1>5 DEF Abandoned
  <2>3. handed' = IF q.op \in ConfigOps THEN None ELSE handed
    BY <1>5 DEF Abandoned
  <2>4. \A copy : copy # CopyOf(q.op) => (WrittenFor(copy) => WrittenFor(copy)')
    <3>1. \A copy : copy # CopyOf(q.op) => ~Written(q, copy)
      BY DEF Written
    <3> QED
      BY <3>1, <1>1, SlotChanges DEF CredentialsInv
  <2>5. handed' # None => handed' = handed /\ (Minting => Minting')
    <3>1. handed' # None => ~Mints(q) /\ handed' = handed
      BY <2>3 DEF Mints, ConfigOps
    <3> QED
      BY <3>1, <1>1, SlotChanges DEF CredentialsInv
  <2>6. RequestsInv' /\ AloneInv'
    BY <1>1, <1>2, <1>3, <2>5, RequestsFrame
  <2>7. CopyInv'
    BY <1>3, <2>2, <2>4, CopiesFrame
  <2>8. HandedInv'
    BY <1>2, <2>5 DEF CredentialsInv, HandedInv, McpApiKey
  <2> QED
    BY <2>1, <2>6, <2>7, <2>8 DEF CredentialsInv
<1> QED
  BY <1>4, <1>5

(* A request goes on, and writes no table but its own copy's.              *)
LEMMA MovesInv ==
    ASSUME CredentialsInv, NEW s \in Slots, NEW q \in Request, q = request[s], q.pc # "handler",
           NEW n \in Request, request' = [request EXCEPT ![s] = n],
           n.op = q.op, n.alone = q.alone,
           n.pc \in {"readback", "list", "swap"} \/ q.pc \notin {"readback", "list", "swap"},
           UNCHANGED <<env, live, stale, handed, ops>>,
           row' \in Config \union {None}, row' = row \/ CopyOf(q.op) = "config",
           \A copy \in Gates : Stored'[copy] = Stored[copy] \/ Written(n, copy),
           Sound(n), Fresh(n)', Kept(n)', HandedInv'
    PROVE  CredentialsInv'
<1>1. q # None /\ n # None
  BY CredentialsAssumption
<1>2. CredentialsType'
  BY DEF CredentialsInv, CredentialsType
<1>3. \A copy : Written(request[s], copy) => Written(n, copy)
  BY <1>1 DEF Written
<1>4. Mints(request[s]) => Mints(n)
  BY <1>1 DEF Mints
<1>5. \A copy : (WrittenFor(copy) => WrittenFor(copy)') /\ (Written(n, copy) => WrittenFor(copy)')
  BY <1>3, SlotChanges DEF CredentialsInv
<1>6. Minting => Minting'
  BY <1>4, SlotChanges DEF CredentialsInv
<1>7. \A copy \in Gates : Written(n, copy) => Busy(request[s], copy)
  BY <1>1 DEF Written, Busy
<1>8. Busy(request[s], CopyOf(n.op))
  BY <1>1 DEF Busy
<1>9. RequestsInv' /\ AloneInv'
  BY <1>6, <1>7, <1>8, RequestsFrame
<1>10. CopyInv'
  BY <1>5, CopiesFrame
<1> QED
  BY <1>2, <1>9, <1>10 DEF CredentialsInv

(* A merge reads the row and keeps the other field of it.                  *)
LEMMA MergeInv ==
    ASSUME CredentialsInv, NEW s \in Slots, Merge(s)
    PROVE  CredentialsInv'
<1> PICK q \in Request : q = request[s]
  BY DEF Merge, At, CredentialsInv, CredentialsType
<1>1. q.pc = "merge" /\ q # None
  BY DEF Merge, At
<1>2. Sound(q) /\ Fresh(q)
  BY <1>1 DEF CredentialsInv, RequestsInv
<1>3. q.op \in ConfigOps /\ q.minted \in Keys
  BY <1>1, <1>2 DEF Sound
<1> DEFINE old == IF row = None THEN [key |-> None, secret |-> None] ELSE row
           merged == IF q.op = "secret" THEN [old EXCEPT !.secret = q.minted]
                     ELSE [old EXCEPT !.key = q.minted]
<1>4. old \in Config /\ McpApiKey(old) = McpApiKey(row)
  <2>1. [key |-> None, secret |-> None] \in Config
    BY DEF Config
  <2> QED
    BY <2>1 DEF McpApiKey, CredentialsInv, CredentialsType
<1> PICK o \in Config : o = old
  BY <1>4
<1> PICK c \in Config : c = merged
  BY <1>3, <1>4 DEF Config
<1>5. /\ q.op = "secret" => c.key = o.key
      /\ q.op # "secret" => c.key = q.minted
  BY DEF Config
<1>6. q.op = "secret" => McpApiKey(c) = McpApiKey(row)
  BY <1>4, <1>5, CredentialsAssumption DEF McpApiKey
<1> PICK n \in Request : n = [q EXCEPT !.pc = "write", !.read = c]
  BY ZenonT(60) DEF Request, Reads
<1>7. /\ n.op = q.op /\ n.alone = q.alone /\ n.pc = "write" /\ n.read = c
      /\ n.minted = q.minted
  BY SMTT(30) DEF Request
<1>8. request' = [request EXCEPT ![s] = [q EXCEPT !.pc = "write", !.read = merged]]
  BY DEF Merge
<1>9. request' = [request EXCEPT ![s] = n] /\ q.pc # "handler"
  BY <1>1, <1>8
<1>10. UNCHANGED <<env, row, tokens, providers, live, stale, handed, ops>>
  BY DEF Merge, tables
<1>11. Stored' = Stored
  BY <1>10 DEF Stored, ListActiveHashes, Rebuilt, ListEnabled
<1>12. Minting => Minting'
  BY <1>1, <1>9, SlotChanges DEF CredentialsInv, Mints
<1>13. HandedInv'
  BY <1>10, <1>12 DEF CredentialsInv, HandedInv, McpApiKey
<1>14. Kept(n)'
  BY <1>6, <1>7, <1>10, <1>12 DEF Kept, CredentialsInv, HandedInv, McpApiKey
<1>15. Sound(n) /\ Fresh(n)'
  BY <1>3, <1>5, <1>7 DEF Sound, Fresh, Mints, ConfigOps
<1>16. row' \in Config \union {None}
  BY <1>10 DEF CredentialsInv, CredentialsType
<1> QED
  BY <1>1, <1>7, <1>9, <1>10, <1>11, <1>13, <1>14, <1>15, <1>16, MovesInv

(* The write of a merged row: a new key is in force from here on, an old   *)
(* one with a new secret stays in force.                                   *)
LEMMA WriteConfigInv ==
    ASSUME CredentialsInv, NEW s \in Slots, WriteConfig(s)
    PROVE  CredentialsInv'
<1> PICK q \in Request : q = request[s]
  BY DEF WriteConfig, At, CredentialsInv, CredentialsType
<1>1. q.pc = "write" /\ q # None /\ q.op \in ConfigOps
  BY DEF WriteConfig, At
<1>2. Sound(q) /\ Kept(q)
  BY <1>1 DEF CredentialsInv, RequestsInv
<1>3. q.minted \in Keys /\ q.read \in Config
  BY <1>1, <1>2 DEF Sound
<1> PICK n \in Request : n = [q EXCEPT !.pc = "list", !.read = None]
  BY DEF Request, Reads
<1>4. /\ n.op = q.op /\ n.alone = q.alone /\ n.pc = "list" /\ n.minted = q.minted
      /\ n # None
  BY CredentialsAssumption DEF Request
<1>5. request' = [request EXCEPT ![s] = n] /\ row' = q.read
  BY DEF WriteConfig
<1>6. UNCHANGED <<env, tokens, providers, live, stale, handed, ops>>
  BY DEF WriteConfig
<1>7. CopyOf(q.op) = "config" /\ Written(n, "config")
  BY <1>1, <1>4 DEF CopyOf, Written
<1>8. \A copy \in Gates : Stored'[copy] = Stored[copy] \/ Written(n, copy)
  <2>1. ListActiveHashes' = ListActiveHashes /\ Rebuilt' = Rebuilt
    BY <1>6 DEF ListActiveHashes, Rebuilt, ListEnabled
  <2>2. Stored'["tokens"] = Stored["tokens"] /\ Stored'["providers"] = Stored["providers"]
    BY <2>1 DEF Stored
  <2> QED
    BY <1>7, <2>2 DEF Gates
<1>9. Minting => Minting'
  BY <1>1, <1>5, SlotChanges DEF CredentialsInv, Mints
<1>10. q.op # "secret" => Mints(n) /\ Minting'
  <2>1. q.op # "secret" => Mints(n)
    BY <1>1, <1>4 DEF Mints, ConfigOps
  <2>2. Mints(n) => Minting'
    BY <1>5, SlotChanges DEF CredentialsInv
  <2> QED
    BY <2>1, <2>2
<1>11. HandedInv'
  <2> SUFFICES ASSUME handed' # None, ~Minting'
               PROVE  McpApiKey(row)' = handed'
    BY DEF HandedInv
  <2>1. q.op = "secret" /\ handed # None /\ ~Minting
    BY <1>6, <1>9, <1>10
  <2>2. McpApiKey(q.read) = handed
    BY <1>1, <1>2, <2>1 DEF Kept
  <2> QED
    BY <1>5, <1>6, <2>2 DEF McpApiKey
<1>12. Sound(n) /\ Kept(n)'
  BY <1>3, <1>4, <1>1 DEF Sound, Kept, ConfigOps, ProviderOps
<1>13. Fresh(n)'
  <2> SUFFICES ASSUME Mints(n)
               PROVE  row' # None /\ row'.key = n.minted
    BY <1>4 DEF Fresh, Mints
  <2>1. q.read.key = q.minted
    BY <1>1, <1>2, <1>4 DEF Sound, Mints
  <2> QED
    BY <1>3, <1>4, <1>5, <2>1, CredentialsAssumption
<1>14. row' \in Config \union {None}
  BY <1>3, <1>5
<1> QED
  BY <1>1, <1>4, <1>5, <1>6, <1>7, <1>8, <1>11, <1>12, <1>13, <1>14, MovesInv

(* A request that does not concern the configuration goes on.              *)
LEMMA GoesInv ==
    ASSUME CredentialsInv, NEW s \in Slots, request[s] # None, request[s].op \notin ConfigOps,
           request[s].pc \notin {"handler", "list", "swap"},
           NEW pc \in {"write", "readback", "list"}, Goes(s, pc),
           pc = "write" => request[s].pc = "check" /\ UNCHANGED tables,
           pc = "readback" => request[s].op \in ProviderOps,
           UNCHANGED <<env, row, live, stale, handed, ops>>,
           \A copy \in Gates : Stored'[copy] = Stored[copy] \/ copy = CopyOf(request[s].op)
    PROVE  CredentialsInv'
<1> PICK q \in Request : q = request[s]
  BY DEF CredentialsInv, CredentialsType
<1> PICK n \in Request : n = [q EXCEPT !.pc = pc]
  BY DEF Request
<1>1. n.op = q.op /\ n.alone = q.alone /\ n.pc = pc /\ n # None
  BY CredentialsAssumption DEF Request
<1>2. request' = [request EXCEPT ![s] = n]
  BY DEF Goes
<1>3. pc = "write" => Stored' = Stored
  BY DEF tables, Stored, ListActiveHashes, Rebuilt, ListEnabled
<1>4. \A copy \in Gates : Stored'[copy] = Stored[copy] \/ Written(n, copy)
  BY <1>1, <1>3 DEF Written
<1>5. ~Mints(q) /\ ~Mints(n)
  BY <1>1 DEF Mints, ConfigOps
<1>6. Minting => Minting'
  BY <1>2, <1>5, SlotChanges DEF CredentialsInv
<1>7. HandedInv'
  BY <1>6 DEF CredentialsInv, HandedInv, McpApiKey
<1>8. Sound(n) /\ Fresh(n)' /\ Kept(n)'
  BY <1>1, <1>5 DEF Sound, Fresh, Kept, ConfigOps, Mints
<1>9. row' \in Config \union {None}
  BY DEF CredentialsInv, CredentialsType
<1>10. n.pc \in {"readback", "list", "swap"} \/ q.pc \notin {"readback", "list", "swap"}
  BY <1>1
<1> QED
  BY <1>1, <1>2, <1>4, <1>7, <1>8, <1>9, <1>10, MovesInv

(* The read of the table that the next step swaps in.                      *)
LEMMA ReadTableInv ==
    ASSUME CredentialsInv, NEW s \in Slots, ReadTable(s)
    PROVE  CredentialsInv'
<1> PICK q \in Request : q = request[s]
  BY DEF ReadTable, At, CredentialsInv, CredentialsType
<1>1. q.pc = "list" /\ q # None
  BY DEF ReadTable, At
<1>2. Sound(q) /\ Fresh(q)
  BY <1>1 DEF CredentialsInv, RequestsInv
<1>3. Stored[CopyOf(q.op)] \in Reads
  BY CopyTyped, StoredTyped DEF CredentialsInv, CredentialsType
<1> PICK r \in Reads : r = Stored[CopyOf(q.op)]
  BY <1>3
<1> PICK n \in Request : n = [q EXCEPT !.pc = "swap", !.read = r]
  BY DEF Request
<1>4. /\ n.op = q.op /\ n.alone = q.alone /\ n.pc = "swap" /\ n.minted = q.minted
      /\ n.read = r /\ n # None
  BY CredentialsAssumption DEF Request
<1>5. request' = [request EXCEPT ![s] = n]
  BY DEF ReadTable
<1>6. UNCHANGED <<env, row, tokens, providers, live, stale, handed, ops>>
  BY DEF ReadTable, tables
<1>7. Stored' = Stored
  BY <1>6 DEF Stored, ListActiveHashes, Rebuilt, ListEnabled
<1>8. Mints(q) => Mints(n)
  BY <1>4 DEF Mints
<1>9. Minting => Minting'
  BY <1>5, <1>8, SlotChanges DEF CredentialsInv
<1>10. HandedInv'
  BY <1>6, <1>9 DEF CredentialsInv, HandedInv, McpApiKey
<1>11. Sound(n) /\ Kept(n)'
  BY <1>2, <1>4 DEF Sound, Kept
<1>12. Fresh(n)'
  BY <1>1, <1>2, <1>4, <1>6, <1>7 DEF Fresh, Mints
<1>13. row' \in Config \union {None}
  BY <1>6 DEF CredentialsInv, CredentialsType
<1> QED
  BY <1>1, <1>4, <1>5, <1>6, <1>7, <1>10, <1>11, <1>12, <1>13, MovesInv

(* The swap: a request that had its copy for itself leaves the copy in     *)
(* step, and its new key in force.                                         *)
LEMMA SwapInv ==
    ASSUME CredentialsInv, NEW s \in Slots, Swap(s)
    PROVE  CredentialsInv'
<1> PICK q \in Request : q = request[s]
  BY DEF Swap, At, CredentialsInv, CredentialsType
<1> PICK mine \in Gates : mine = CopyOf(q.op)
  BY CopyTyped
<1>1. q.pc = "swap" /\ q # None
  BY DEF Swap, At
<1>2. Sound(q) /\ Fresh(q)
  BY <1>1 DEF CredentialsInv, RequestsInv
<1>3. request' = [request EXCEPT ![s] = None]
  BY DEF Swap, Ends
<1>4. UNCHANGED <<env, row, tokens, providers, ops>>
  BY DEF Swap, tables
<1>5. /\ live' = [live EXCEPT ![mine] = q.read]
      /\ stale' = IF q.alone THEN stale \ {mine} ELSE stale \union {mine}
      /\ handed' = IF q.op \notin {"generate", "rotate"} THEN handed
                   ELSE IF q.alone THEN q.minted ELSE None
  BY DEF Swap
<1>6. Stored' = Stored
  BY <1>4 DEF Stored, ListActiveHashes, Rebuilt, ListEnabled
<1>7. CredentialsType'
  <2>1. q.read \in Reads
    BY DEF Request
  <2> QED
    BY <1>3, <1>4, <1>5, <2>1 DEF CredentialsInv, CredentialsType
<1>8. \A copy : copy # mine => (WrittenFor(copy) => WrittenFor(copy)')
  <2>1. \A copy : copy # mine => ~Written(q, copy)
    BY DEF Written
  <2> QED
    BY <1>3, <2>1, SlotChanges DEF CredentialsInv
<1>9. CopyInv'
  <2> SUFFICES ASSUME NEW copy \in Gates, copy \notin stale', ~WrittenFor(copy)'
               PROVE  live'[copy] = Stored'[copy]
    BY DEF CopyInv
  <2>1. CASE copy = mine
    <3>1. q.alone /\ q.read = Stored[mine]
      BY <1>1, <1>2, <1>5, <2>1 DEF Fresh
    <3>2. live'[mine] = q.read
      BY <1>5 DEF CredentialsInv, CredentialsType
    <3> QED
      BY <1>6, <2>1, <3>1, <3>2
  <2>2. CASE copy # mine
    <3>1. copy \notin stale /\ ~WrittenFor(copy) /\ live'[copy] = live[copy]
      BY <1>5, <1>8, <2>2 DEF CredentialsInv, CredentialsType
    <3> QED
      BY <1>6, <3>1 DEF CredentialsInv, CopyInv
  <2> QED
    BY <2>1, <2>2
<1>10. q.op \notin {"generate", "rotate"} => handed' = handed /\ (Minting => Minting')
  <2>1. q.op \notin {"generate", "rotate"} => ~Mints(q)
    BY DEF Mints
  <2> QED
    BY <1>3, <1>5, <2>1, SlotChanges DEF CredentialsInv
<1>11. HandedInv'
  <2>1. CASE q.op \notin {"generate", "rotate"}
    BY <1>4, <1>10, <2>1 DEF CredentialsInv, HandedInv, McpApiKey
  <2>2. CASE q.op \in {"generate", "rotate"} /\ q.alone
    <3>1. row # None /\ row.key = q.minted /\ q.minted \in Keys
      BY <1>1, <1>2, <2>2 DEF Fresh, Sound, Mints, ConfigOps
    <3>2. McpApiKey(row) = q.minted
      BY <3>1, KeysAreKeys DEF McpApiKey
    <3> QED
      BY <1>4, <1>5, <2>2, <3>2 DEF HandedInv, McpApiKey
  <2>3. CASE q.op \in {"generate", "rotate"} /\ ~q.alone
    BY <1>5, <2>3 DEF HandedInv
  <2> QED
    BY <2>1, <2>2, <2>3
<1>12. RequestsInv' /\ AloneInv'
  <2>1. q.op \in {"generate", "rotate"} => Busy(q, "config")
    BY <1>1 DEF Busy, CopyOf, ConfigOps
  <2>2. \/ handed' # None /\ ~Minting' => handed' = handed /\ ~Minting
        \/ Busy(q, "config") /\ q.alone
    BY <1>5, <1>10, <2>1
  <2> QED
    BY <1>3, <1>4, <1>6, <2>2, RequestsFrame
<1> QED
  BY <1>7, <1>9, <1>11, <1>12 DEF CredentialsInv

(* A request that is no longer alone is otherwise the same.                *)
LEMMA OverlapTyped ==
    ASSUME NEW p \in Request
    PROVE  \E n \in Request :
              /\ n = [p EXCEPT !.alone = FALSE] /\ n.alone = FALSE
              /\ n.op = p.op /\ n.pc = p.pc /\ n.minted = p.minted /\ n.read = p.read
<1> DEFINE n == [p EXCEPT !.alone = FALSE]
<1>1. n \in Request
  BY DEF Request
<1>2. p = [op |-> p.op, target |-> p.target, pc |-> p.pc, proved |-> p.proved,
           minted |-> p.minted, read |-> p.read, alone |-> p.alone]
  BY Zenon DEF Request
<1>3. /\ n.alone = FALSE
      /\ n.op = p.op /\ n.pc = p.pc /\ n.minted = p.minted /\ n.read = p.read
  BY <1>2
<1> QED
  BY <1>1, <1>3

(* A handler begins; the requests on the same copy that are past theirs    *)
(* are no longer alone, nor is it.                                         *)
LEMMA AdmitInv ==
    ASSUME CredentialsInv, NEW s \in Slots, Admit(s)
    PROVE  CredentialsInv'
<1> PICK q \in Request : q = request[s]
  BY DEF Admit, At, CredentialsInv, CredentialsType
<1> DEFINE others == {o \in Slots : Shares(s, o)}
           start == IF q.op \in ConfigOps THEN "merge"
                    ELSE IF q.op \in ProviderOps \ {"create"} THEN "check" ELSE "write"
<1>1. q.pc = "handler" /\ q # None
  BY DEF Admit, At
<1>2. Sound(q)
  BY <1>1 DEF CredentialsInv, RequestsInv
<1> PICK pc \in {"merge", "check", "write"} : pc = start
  OBVIOUS
<1> PICK lone \in BOOLEAN : lone = (others = {})
  OBVIOUS
<1> PICK n \in Request : n = [q EXCEPT !.pc = pc, !.proved = FALSE, !.alone = lone]
  BY ZenonT(60) DEF Request
<1>3. /\ n.op = q.op /\ n.minted = q.minted /\ n.read = q.read /\ n.pc = start
      /\ n.alone => others = {}
      /\ n # None
  <2>1. n.op = q.op /\ n.minted = q.minted /\ n.read = q.read /\ n.pc = pc /\ n.alone = lone
    BY DEF Request
  <2> QED
    BY <2>1, CredentialsAssumption
<1>4. UNCHANGED <<env, row, tokens, providers, live, stale, handed, ops>>
  BY DEF Admit, tables
<1>5. Stored' = Stored
  BY <1>4 DEF Stored, ListActiveHashes, Rebuilt, ListEnabled
<1>6. request' = [o \in Slots |-> IF o = s THEN n
                   ELSE IF o \in others THEN [request[o] EXCEPT !.alone = FALSE]
                   ELSE request[o]]
  BY DEF Admit
<1> HIDE DEF start
<1>7. start \in {"merge", "check", "write"}
  OBVIOUS
<1>8. request'[s] = n /\ ~Written(q, "config") /\ ~Mints(q) /\ ~Mints(n)
  BY <1>1, <1>3, <1>6, <1>7 DEF Written, Mints
<1>9. ASSUME NEW o \in Slots \ {s}, request[o] # None
      PROVE  /\ request'[o] \in Request /\ request'[o] # None
             /\ request'[o].op = request[o].op /\ request'[o].pc = request[o].pc
             /\ request'[o].minted = request[o].minted
             /\ request'[o].read = request[o].read
             /\ request'[o].alone => request[o].alone
             /\ Busy(request[o], CopyOf(q.op)) => ~request'[o].alone
  <2> PICK p \in Request : p = request[o]
    BY <1>9 DEF CredentialsInv, CredentialsType
  <2> PICK p2 \in Request :
        /\ p2 = [p EXCEPT !.alone = FALSE] /\ p2.alone = FALSE
        /\ p2.op = p.op /\ p2.pc = p.pc /\ p2.minted = p.minted /\ p2.read = p.read
    BY OverlapTyped
  <2>1. request'[o] = IF o \in others THEN p2 ELSE p
    BY <1>6
  <2>2. Busy(p, CopyOf(q.op)) => o \in others
    BY DEF Busy, Shares
  <2> QED
    BY <1>9, <2>1, <2>2, CredentialsAssumption
<1>10. ASSUME NEW o \in Slots \ {s}, request[o] = None
       PROVE  request'[o] = None
  BY <1>6, <1>10 DEF Shares
<1>11. ASSUME NEW o \in Slots
       PROVE  /\ \A copy : Written(request[o], copy) <=> Written(request'[o], copy)
              /\ Mints(request[o]) <=> Mints(request'[o])
  <2>1. CASE o = s
    BY <1>1, <1>3, <1>7, <1>8, <2>1 DEF Written, Mints
  <2>2. CASE o # s
    BY <1>9, <1>10, <2>2 DEF Written, Mints
  <2> QED
    BY <2>1, <2>2
<1>12. (\A copy : WrittenFor(copy) <=> WrittenFor(copy)') /\ (Minting <=> Minting')
  BY <1>11 DEF WrittenFor, Minting, Written, Mints
<1>13. CredentialsType'
  <2>1. \A o \in Slots : request'[o] \in Request \union {None}
    BY <1>8, <1>9, <1>10
  <2>2. request' \in [Slots -> Request \union {None}]
    BY <1>6, <2>1
  <2> QED
    BY <1>4, <2>2 DEF CredentialsInv, CredentialsType
<1>14. Sound(n) /\ Fresh(n)' /\ Kept(n)'
  <2>1. /\ n.pc = "merge" => n.op \in ConfigOps
        /\ n.pc = "check" => n.op \in ProviderOps
        /\ n.pc = "write" => n.op \notin ConfigOps
    BY <1>3 DEF start
  <2> QED
    BY <1>2, <1>3, <1>7, <2>1 DEF Sound, Fresh, Kept, Mints, ConfigOps
<1>15. RequestsInv'
  <2> SUFFICES ASSUME NEW o \in Slots, request'[o] # None
               PROVE  (Sound(request[o]) /\ Fresh(request[o]) /\ Kept(request[o]))'
    BY DEF RequestsInv
  <2>1. CASE o = s
    BY <1>8, <1>14, <2>1 DEF Sound, Fresh, Kept, Mints
  <2>2. CASE o # s
    <3>1. request[o] # None
      BY <1>10, <2>2
    <3>2. Sound(request[o]) /\ Fresh(request[o]) /\ Kept(request[o])
      BY <3>1 DEF CredentialsInv, RequestsInv
    <3>3. Sound(request'[o])
      BY <1>9, <2>2, <3>1, <3>2 DEF Sound
    <3>4. Fresh(request[o])'
      BY <1>4, <1>5, <1>9, <2>2, <3>1, <3>2 DEF Fresh, Mints
    <3>5. Kept(request[o])'
      <4>1. McpApiKey(request[o].read)' = McpApiKey(request[o].read)
        BY <1>4, <1>9, <2>2, <3>1 DEF McpApiKey
      <4> QED
        BY <1>4, <1>9, <1>12, <2>2, <3>1, <3>2, <4>1 DEF Kept
    <3> QED
      BY <3>3, <3>4, <3>5 DEF Sound
  <2> QED
    BY <2>1, <2>2
<1>16. AloneInv'
  <2> SUFFICES ASSUME NEW a \in Slots, NEW b \in Slots, NEW copy \in Gates, a # b,
                      Busy(request'[a], copy), Busy(request'[b], copy)
               PROVE  ~request'[a].alone
    BY DEF AloneInv, Busy
  <2>1. ASSUME NEW o \in Slots \ {s}, Busy(request'[o], copy)
        PROVE  Busy(request[o], copy) /\ request[o] # None
    BY <1>9, <1>10, <2>1 DEF Busy
  <2>2. CASE a = s
    <3>1. Busy(request[b], copy) /\ copy = CopyOf(q.op)
      BY <1>3, <1>8, <2>1, <2>2 DEF Busy
    <3>2. b \in others
      BY <2>2, <3>1 DEF Busy, Shares
    <3> QED
      BY <1>3, <1>8, <2>2, <3>2
  <2>3. CASE b = s
    <3>1. Busy(request[a], copy) /\ copy = CopyOf(q.op) /\ request[a] # None
      BY <1>3, <1>8, <2>1, <2>3 DEF Busy
    <3> QED
      BY <1>9, <2>3, <3>1
  <2>4. CASE a # s /\ b # s
    <3>1. Busy(request[a], copy) /\ Busy(request[b], copy) /\ request[a] # None
      BY <2>1, <2>4
    <3>2. ~request[a].alone
      BY <3>1 DEF CredentialsInv, AloneInv
    <3> QED
      BY <1>9, <2>4, <3>1, <3>2
  <2> QED
    BY <2>2, <2>3, <2>4
<1>17. CopyInv'
  BY <1>4, <1>5, <1>12, CopiesFrame
<1>18. HandedInv'
  BY <1>4, <1>12 DEF CredentialsInv, HandedInv, McpApiKey
<1> QED
  BY <1>13, <1>15, <1>16, <1>17, <1>18 DEF CredentialsInv

(* A restart drops the requests and loads the copies; a row seeded from    *)
(* the environment opens the gate to the same key as no row.               *)
LEMMA RestartInv ==
    ASSUME CredentialsInv, RestartApi
    PROVE  CredentialsInv'
<1>1. /\ row' = SeededFromEnv /\ live' = [Stored EXCEPT !.config = row']
      /\ request' = [s \in Slots |-> None]
      /\ handed' = IF \E s \in Slots : request[s] # None /\ request[s].op \in ConfigOps
                   THEN None ELSE handed
      /\ UNCHANGED <<env, tokens, providers>>
      /\ ops' \in 0..MaxOps
  BY CredentialsAssumption DEF RestartApi, Happens, CredentialsInv, CredentialsType
<1>2. row' \in Config \union {None}
  <2>1. env # None => [key |-> env, secret |-> None] \in Config
    BY DEF CredentialsInv, CredentialsType, Config
  <2> QED
    BY <1>1, <2>1 DEF SeededFromEnv, CredentialsInv, CredentialsType
<1>3. McpApiKey(row)' = McpApiKey(row)
  <2>1. McpApiKey(row') = McpApiKey(row)
    BY <1>1, CredentialsAssumption DEF SeededFromEnv, McpApiKey
  <2> QED
    BY <1>1, <2>1 DEF McpApiKey
<1>4. live' = Stored'
  BY <1>1 DEF Stored, ListActiveHashes, Rebuilt, ListEnabled
<1>5. Stored' \in [Gates -> Reads]
  <2>1. ListActiveHashes' \subseteq Tokens /\ Rebuilt' \subseteq Providers
    BY DEF ListActiveHashes, Rebuilt, ListEnabled
  <2>2. row' \in Reads /\ ListActiveHashes' \in Reads /\ Rebuilt' \in Reads
    BY <1>2, <2>1 DEF Reads
  <2> QED
    BY <2>2 DEF Stored, Gates
<1>6. CredentialsType'
  BY <1>1, <1>2, <1>4, <1>5 DEF CredentialsInv, CredentialsType
<1>7. RequestsInv' /\ AloneInv'
  BY <1>1 DEF RequestsInv, AloneInv, Busy
<1>8. CopyInv'
  BY <1>4 DEF CopyInv
<1>9. HandedInv'
  <2> SUFFICES ASSUME handed' # None
               PROVE  McpApiKey(row)' = handed'
    BY DEF HandedInv
  <2>1. handed' = handed /\ ~\E s \in Slots : request[s] # None /\ request[s].op \in ConfigOps
    BY <1>1
  <2>2. ~Minting
    BY <2>1 DEF Minting, Mints, ConfigOps
  <2> QED
    BY <1>3, <2>1, <2>2 DEF CredentialsInv, HandedInv
<1> QED
  BY <1>6, <1>7, <1>8, <1>9 DEF CredentialsInv

(* The steps of the requests about tokens and providers, which touch no    *)
(* table but their own.                                                    *)
LEMMA TokensInv ==
    ASSUME CredentialsInv, NEW s \in Slots, IssueToken(s) \/ RevokeToken(s)
    PROVE  CredentialsInv'
<1>1. /\ request[s] # None /\ request[s].pc = "write" /\ request[s].op \in TokenOps
      /\ UNCHANGED <<env, row, providers, live, stale, handed, ops>>
  BY DEF IssueToken, RevokeToken, At, TokenOps
<1>2. CopyOf(request[s].op) = "tokens" /\ request[s].op \notin ConfigOps
  BY <1>1 DEF CopyOf, TokenOps, ConfigOps
<1>3. \A copy \in Gates : Stored'[copy] = Stored[copy] \/ copy = CopyOf(request[s].op)
  <2>1. Stored'["config"] = Stored["config"]  BY <1>1 DEF Stored
  <2>2. Stored'["providers"] = Stored["providers"]  BY <1>1 DEF Stored, Rebuilt, ListEnabled
  <2>3. \A copy \in Gates : copy \in {"config", "providers"} \/ copy = CopyOf(request[s].op)
    BY <1>2 DEF Gates
  <2> QED BY <2>1, <2>2, <2>3
<1>4. ops' \in 0..MaxOps
  BY <1>1 DEF CredentialsInv, CredentialsType
<1>5. CASE Goes(s, "list")
  BY <1>1, <1>2, <1>3, <1>5, GoesInv
<1>6. CASE Ends(s) /\ UNCHANGED tokens
  BY <1>1, <1>4, <1>6, EndsUnwritten DEF tables
<1> QED
  BY <1>5, <1>6 DEF IssueToken, RevokeToken

(* A write of a provider.                                                  *)
LEMMA ProvidersInv ==
    ASSUME CredentialsInv, NEW s \in Slots,
           \/ \E valid \in BOOLEAN : CreateProvider(s, valid) \/ UpdateProvider(s, valid)
           \/ SetEnabled(s) \/ DeleteProvider(s)
    PROVE  CredentialsInv'
<1>1. /\ request[s] # None /\ request[s].pc = "write" /\ request[s].op \in ProviderOps
      /\ UNCHANGED <<env, row, tokens, live, stale, handed, ops>>
      /\ Goes(s, "readback") \/ Goes(s, "list")
  BY DEF CreateProvider, UpdateProvider, SetEnabled, DeleteProvider, At, ProviderOps
<1>2. CopyOf(request[s].op) = "providers" /\ request[s].op \notin ConfigOps
  BY <1>1 DEF CopyOf, TokenOps, ConfigOps, ProviderOps
<1>3. \A copy \in Gates : Stored'[copy] = Stored[copy] \/ copy = CopyOf(request[s].op)
  BY <1>1, <1>2 DEF Stored, Gates, ListActiveHashes
<1> QED
  BY <1>1, <1>2, <1>3, GoesInv

(* The two looks at a provider's row, before its write and after it.       *)
LEMMA LooksInv ==
    ASSUME CredentialsInv, NEW s \in Slots, CheckProvider(s) \/ ReadBack(s)
    PROVE  CredentialsInv'
<1>1. /\ request[s] # None /\ request[s].pc \in {"check", "readback"}
      /\ UNCHANGED <<env, row, tokens, providers, live, ops>>
  BY DEF CheckProvider, ReadBack, At, tables
<1>2. request[s].op \in ProviderOps
  BY <1>1 DEF CredentialsInv, RequestsInv, Sound
<1>3. request[s].op \notin ConfigOps
  BY <1>2 DEF ProviderOps, ConfigOps
<1>4. \A copy \in Gates : Stored'[copy] = Stored[copy]
  BY <1>1 DEF Stored, ListActiveHashes, Rebuilt, ListEnabled
<1>5. ops' \in 0..MaxOps
  BY <1>1 DEF CredentialsInv, CredentialsType
<1>6. CASE CheckProvider(s)
  <2>1. request[s].pc = "check" /\ UNCHANGED <<stale, handed>>
    BY <1>6 DEF CheckProvider, At
  <2>2. CASE Ends(s)
    BY <1>1, <1>5, <2>1, <2>2, EndsUnwritten DEF tables
  <2>3. CASE Goes(s, "write")
    BY <1>1, <1>3, <1>4, <2>1, <2>3, GoesInv DEF tables
  <2> QED
    BY <1>6, <2>2, <2>3 DEF CheckProvider
<1>7. CASE ReadBack(s)
  <2>1. CASE Ends(s) /\ Abandoned(s)
    BY <1>1, <1>5, <2>1, AbandonInv DEF tables
  <2>2. CASE Goes(s, "list") /\ UNCHANGED <<stale, handed>>
    BY <1>1, <1>3, <1>4, <2>2, GoesInv
  <2> QED
    BY <1>7, <2>1, <2>2 DEF ReadBack
<1> QED
  BY <1>6, <1>7

(* Every step keeps the invariant.                                         *)
LEMMA CredentialsKeep == CredentialsInv /\ [CredentialsNext]_credentialVars => CredentialsInv'
<1> SUFFICES ASSUME CredentialsInv, [CredentialsNext]_credentialVars
             PROVE  CredentialsInv'
  OBVIOUS
<1>1. CASE UNCHANGED credentialVars
  BY <1>1 DEF credentialVars, tables, CredentialsInv, CredentialsType, RequestsInv, AloneInv, CopyInv, HandedInv,
     Sound, Fresh, Kept, Mints, Minting, Written, WrittenFor, Busy, McpApiKey,
     Stored, ListActiveHashes, Rebuilt, ListEnabled
<1>2. CASE RestartApi
  BY <1>2, RestartInv
<1>3. ASSUME NEW s \in Slots, NEW op \in ConfigOps \union TokenOps \union ProviderOps,
             NEW target \in Targets(op), NEW presented \in Headers, NEW session \in BOOLEAN,
             Arrive(s, op, target, presented, session)
      PROVE  CredentialsInv'
  BY <1>3, ArriveInv
<1>4. ASSUME NEW s \in Slots, Refuse(s)
      PROVE  CredentialsInv'
  <2>1. /\ request[s] # None /\ request[s].pc = "handler" /\ Ends(s)
        /\ UNCHANGED <<env, tables, live, stale, handed>> /\ ops' \in 0..MaxOps
    BY <1>4 DEF Refuse, At, CredentialsInv, CredentialsType
  <2> QED
    BY <2>1, EndsUnwritten
<1>5. ASSUME NEW s \in Slots, Cancel(s)
      PROVE  CredentialsInv'
  <2>1. ops' \in 0..MaxOps
    BY <1>5, CredentialsAssumption DEF Cancel, Happens, CredentialsInv, CredentialsType
  <2> QED
    BY <1>5, <2>1, AbandonInv DEF Cancel
<1>6. ASSUME NEW s \in Slots,
             \/ Admit(s) \/ Merge(s) \/ WriteConfig(s) \/ IssueToken(s) \/ RevokeToken(s)
             \/ CheckProvider(s)
             \/ \E valid \in BOOLEAN : CreateProvider(s, valid) \/ UpdateProvider(s, valid)
             \/ SetEnabled(s) \/ DeleteProvider(s) \/ ReadBack(s) \/ ReadTable(s) \/ Swap(s)
      PROVE  CredentialsInv'
  BY <1>6, AdmitInv, MergeInv, WriteConfigInv, TokensInv, LooksInv, ProvidersInv,
     ReadTableInv, SwapInv
<1> QED
  BY <1>1, <1>2, <1>3, <1>4, <1>5, <1>6 DEF CredentialsNext

---------------------------------------------------------------------------
(* The invariant above holds of every behaviour: types, and what ties the  *)
(* requests in progress to the tables, the copies and the key handed out.  *)
THEOREM CredentialsInvariant == CredentialsSpec => []CredentialsInv
  BY CredentialsStart, CredentialsKeep, PTL DEF CredentialsSpec

(* The in-memory copies of keys, tokens and providers, which the gates     *)
(* read without a query, follow their tables again after any overlapping,  *)
(* cancelled or lost requests, as GatesFollow says.                        *)
THEOREM GatesAlwaysFollow == CredentialsSpec => []GatesFollow
<1>1. CredentialsInv => GatesFollow
  <2> SUFFICES ASSUME CredentialsInv PROVE GatesFollow
    OBVIOUS
  <2>1. ASSUME NEW copy \in Gates, Settled(copy)
        PROVE  live[copy] = Stored[copy] /\ ~WrittenFor(copy)
    <3>1. ~WrittenFor(copy) /\ copy \notin stale
      BY <2>1 DEF Settled, WrittenFor, Written
    <3> QED
      BY <3>1 DEF CredentialsInv, CopyInv
  <2>2. ASSUME Settled("config"), handed # None
        PROVE  RequireMcpApiKey(handed, None) /\ McpApiKey(row) = handed
    <3>1. live["config"] = Stored["config"] /\ ~WrittenFor("config")
      BY <2>1, <2>2 DEF Gates
    <3>2. ~Minting
      BY <3>1 DEF Minting, Mints, WrittenFor, Written, CopyOf, ConfigOps
    <3>3. McpApiKey(row) = handed /\ live.config = row
      BY <2>2, <3>1, <3>2 DEF CredentialsInv, HandedInv, Stored
    <3> QED
      BY <2>2, <3>3 DEF RequireMcpApiKey, CredentialAccepted, ExtractApiKey
  <2>3. ASSUME NEW x \in Headers \ {Blank}, NEW bearer \in Headers
        PROVE  RequireMcpApiKey(x, bearer) <=> NativeMiddleware(x, bearer)
    BY <2>3 DEF RequireMcpApiKey, NativeMiddleware, ExtractApiKey, ExtractHeaderKey
  <2> QED
    BY <2>1, <2>2, <2>3 DEF GatesFollow, Gates
<1> QED
  BY <1>1, CredentialsInvariant, PTL

---------------------------------------------------------------------------
(* Retrieval: the search of the graph.                                     *)

\* The ids a world and a query speak of, and the kinds.
UnitIds == world.nodes \union world.points \union world.matches \union query.seeds

KindsOf(w) == {w.kind[u] : u \in w.nodes \union w.points \union w.matches}

Kinds == (UNION {KindsOf(w) : w \in Worlds}) \union {None}

Entries == [id : Int, depth : Nat, kind : Kinds]

Visits == [depth : Nat, kind : Kinds]

Started == queue # <<>> \/ visited # <<>>

SearchType ==
    /\ world \in Worlds /\ query \in Queries
    /\ channel \in [Channels -> {"new", "running", "done", "failed", "off"}]
    /\ queue \in Seq(Entries)
    /\ visited \in [DOMAIN visited -> Visits]
    /\ IsFiniteSet(DOMAIN visited) /\ DOMAIN visited \subseteq UnitIds
    /\ \A i \in DOMAIN queue : queue[i].id \in UnitIds
    /\ broken \subseteq DOMAIN visited
    /\ Started => channel["graph"] \in {"running", "done"}
    /\ channel["graph"] = "done" => queue = <<>> /\ visited # <<>>

\* The queue holds at most two depths, the lesser first, and nothing that
\* was visited is deeper.
DepthsOrdered ==
    /\ \A i, j \in DOMAIN queue : i < j => /\ queue[i].depth <= queue[j].depth
                                           /\ queue[j].depth <= queue[i].depth + 1
    /\ \A i \in DOMAIN queue : /\ queue[i].depth <= MaxTraversalDepth
                               /\ \A u \in DOMAIN visited : visited[u].depth <= queue[i].depth
    /\ \A u \in DOMAIN visited : visited[u].depth <= MaxTraversalDepth

\* A node at a depth has a node it was reached from one step before.
Reachable(v, depth) ==
    IF depth = 0 THEN v \in query.seeds
    ELSE /\ v \in world.nodes /\ world.kind[v] # "External"
         /\ \E u \in DOMAIN visited \ broken : visited[u].depth = depth - 1 /\ {u, v} \in world.edges

NothingInvented ==
    /\ \A i \in DOMAIN queue : Reachable(queue[i].id, queue[i].depth)
    /\ \A u \in DOMAIN visited : Reachable(u, visited[u].depth)

\* What is within a depth was visited there, or waits for it.
Covered(v, depth) ==
    \/ v \in DOMAIN visited /\ visited[v].depth <= depth
    \/ \E i \in DOMAIN queue : queue[i].id = v /\ queue[i].depth <= depth

NothingMissed ==
    /\ Started => \A u \in query.seeds : Covered(u, 0)
    /\ \A u \in DOMAIN visited \ broken : visited[u].depth < MaxTraversalDepth =>
          \A v \in Adjacent(u) : world.kind[v] # "External" => Covered(v, visited[u].depth + 1)

SearchInv == SearchType /\ DepthsOrdered /\ NothingInvented /\ NothingMissed

\* What a channel finds.
Candidates(c) ==
    [id : UnitIds, channel : {c}, score : 0..ScoreUnit, kind : Kinds,
     depth : IF c = "graph" THEN Nat ELSE {None}]

FoundInv ==
    /\ DOMAIN found = Channels
    /\ \A c \in Channels :
          /\ found[c] \in Seq(Candidates(c))
          /\ \A i, j \in DOMAIN found[c] : found[c][i].id = found[c][j].id => i = j

RetrievalInv == SearchInv /\ FoundInv /\ PacketMaximal

---------------------------------------------------------------------------
(* The search of the graph.                                                *)

\* What the assumption says of the world and the query at hand.
LEMMA Known ==
    ASSUME world \in Worlds, query \in Queries
    PROVE  /\ UnitIds \subseteq Int /\ \A u \in UnitIds : world.chars[u] \in Nat
           /\ IsFiniteSet(world.nodes) /\ IsFiniteSet(world.points) /\ IsFiniteSet(world.matches)
           /\ IsFiniteSet(query.seeds) /\ query.topK \in Nat
           /\ world.nodes \subseteq UnitIds /\ query.seeds \subseteq UnitIds
           /\ world.points \subseteq UnitIds /\ world.matches \subseteq UnitIds
           /\ \A u \in world.points : world.cosine[u] \in Int
           /\ \A u \in world.matches : world.updated[u] \in Int
<1>1. /\ \A u \in UnitIds : u \in Int /\ world.chars[u] \in Nat
  BY RetrievalAssumption DEF UnitIds
<1> QED BY <1>1, RetrievalAssumption DEF UnitIds

LEMMA KindsKnown ==
    ASSUME world \in Worlds
    PROVE  /\ None \in Kinds
           /\ \A u \in world.nodes \union world.points \union world.matches : world.kind[u] \in Kinds
<1>1. None \in Kinds  BY DEF Kinds
<1>2. KindsOf(world) \subseteq Kinds  BY DEF Kinds
<1>3. \A u \in world.nodes \union world.points \union world.matches : world.kind[u] \in KindsOf(world)
  BY DEF KindsOf
<1> QED BY <1>1, <1>2, <1>3

LEMMA EntryRecord ==
    /\ \A u \in Int, d \in Nat, k \in Kinds : [id |-> u, depth |-> d, kind |-> k] \in Entries
    /\ \A u, d, k : /\ [id |-> u, depth |-> d, kind |-> k].id = u
                    /\ [id |-> u, depth |-> d, kind |-> k].depth = d
                    /\ [id |-> u, depth |-> d, kind |-> k].kind = k
    /\ \A e \in Entries : e.id \in Int /\ e.depth \in Nat /\ e.kind \in Kinds
  BY DEF Entries

LEMMA SearchStarts == RetrievalInit => SearchInv
<1> SUFFICES ASSUME RetrievalInit PROVE SearchInv  OBVIOUS
<1>1. /\ world \in Worlds /\ query \in Queries /\ channel = [c \in Channels |-> "new"]
      /\ queue = <<>> /\ visited = <<>> /\ broken = {}
  BY DEF RetrievalInit
<1>2. DOMAIN visited = {} /\ DOMAIN queue = {} /\ queue \in Seq(Entries)  BY <1>1
<1>3. channel["graph"] = "new" /\ channel \in [Channels -> {"new", "running", "done", "failed", "off"}]
  BY <1>1 DEF Channels
<1>4. IsFiniteSet(DOMAIN visited)  BY <1>2, FS_EmptySet
<1>5. SearchType
  <2>1. visited \in [DOMAIN visited -> Visits]  BY <1>1
  <2> QED BY <1>1, <1>2, <1>3, <1>4, <2>1 DEF SearchType, Started
<1>6. DepthsOrdered  BY <1>2 DEF DepthsOrdered
<1>7. NothingInvented  BY <1>2 DEF NothingInvented
<1>8. NothingMissed  BY <1>1, <1>2 DEF NothingMissed, Started
<1> QED BY <1>5, <1>6, <1>7, <1>8 DEF SearchInv

(* A step of another channel leaves the search as it is.                   *)
LEMMA SearchStays ==
    ASSUME SearchInv, UNCHANGED <<world, query, queue, visited, broken>>,
           channel' \in [Channels -> {"new", "running", "done", "failed", "off"}],
           Started => channel'["graph"] \in {"running", "done"},
           channel'["graph"] = "done" => queue = <<>> /\ visited # <<>>
    PROVE  SearchInv'
<1>1. SearchType'  BY DEF SearchInv, SearchType, Started, UnitIds
<1>2. DepthsOrdered'  BY DEF SearchInv, DepthsOrdered
<1>3. NothingInvented'  BY DEF SearchInv, NothingInvented, Reachable
<1>4. NothingMissed'  BY DEF SearchInv, NothingMissed, Covered, Started, Adjacent
<1> QED BY <1>1, <1>2, <1>3, <1>4 DEF SearchInv

\* The entries of the seeds.
Seeded(q) ==
    /\ q \in Seq(Entries)
    /\ \A i \in DOMAIN q : q[i].id \in query.seeds /\ q[i].depth = 0
    /\ \A u \in query.seeds : \E i \in DOMAIN q : q[i].id = u

LEMMA SeedsQueued ==
    ASSUME world \in Worlds, query \in Queries, NEW hydrated
    PROVE  Seeded(SeedQueue(hydrated))
<1>1. query.seeds \in SUBSET Int /\ IsFiniteSet(query.seeds)  BY Known
<1>2. PICK order : order = Ordered(query.seeds, <)  OBVIOUS
<1>3. Lists(order, query.seeds)  BY <1>1, <1>2, NumbersListed
<1>4. PICK m \in Nat : m = Len(order) /\ DOMAIN order = 1..m  BY <1>3 DEF Lists
<1>5. PICK k : k = [i \in 1..m |-> IF order[i] \in hydrated \intersect world.nodes
                                   THEN world.kind[order[i]] ELSE None]
  OBVIOUS
<1>6. \A i \in 1..m : k[i] \in Kinds  BY <1>5, KindsKnown
<1>7. PICK q : q = [i \in 1..m |-> [id |-> order[i], depth |-> 0, kind |-> k[i]]]  OBVIOUS
<1>8. SeedQueue(hydrated) = q  BY <1>2, <1>4, <1>5, <1>7 DEF SeedQueue
<1>9. \A i \in 1..m : q[i] \in Entries /\ q[i].id = order[i] /\ q[i].depth = 0
  <2> SUFFICES ASSUME NEW i \in 1..m PROVE q[i] \in Entries /\ q[i].id = order[i] /\ q[i].depth = 0
    OBVIOUS
  <2>1. order[i] \in Int /\ k[i] \in Kinds  BY <1>1, <1>3, <1>4, <1>6 DEF Lists
  <2>2. q[i] = [id |-> order[i], depth |-> 0, kind |-> k[i]]  BY <1>7
  <2> QED BY <2>1, <2>2, EntryRecord
<1>10. DOMAIN q = 1..m  BY <1>7
<1>11. q \in Seq(Entries)
  <2>1. q \in [1..m -> Entries]  BY <1>7, <1>9
  <2> QED BY <2>1, FunctionIsSequence
<1>12. \A u \in query.seeds : \E i \in 1..m : q[i].id = u  BY <1>3, <1>4, <1>9 DEF Lists
<1>13. \A i \in 1..m : q[i].id \in query.seeds  BY <1>3, <1>4, <1>9 DEF Lists
<1> QED BY <1>8, <1>9, <1>10, <1>11, <1>12, <1>13 DEF Seeded

LEMMA GraphStartKeeps == SearchInv /\ GraphStart => SearchInv'
<1> SUFFICES ASSUME SearchInv, GraphStart PROVE SearchInv'  OBVIOUS
<1>1. world \in Worlds /\ query \in Queries  BY DEF SearchInv, SearchType
<1>2. PICK q : Seeded(q) /\ queue' = q
  <2>1. PICK hydrated \in SUBSET query.seeds : queue' = SeedQueue(hydrated)  BY DEF GraphStart
  <2> QED BY <1>1, <2>1, SeedsQueued
<1>3. /\ channel["graph"] = "running" /\ visited = <<>> /\ visited' = visited /\ broken' = broken
      /\ world' = world /\ query' = query /\ channel' = channel /\ DOMAIN visited = {}
  BY DEF GraphStart
<1>4. SearchType'
  <2>1. \A i \in DOMAIN q : q[i].id \in UnitIds  BY <1>1, <1>2, Known DEF Seeded
  <2>2. q \in Seq(Entries)  BY <1>2 DEF Seeded
  <2>3. UnitIds' = UnitIds  BY <1>3 DEF UnitIds
  <2> QED BY <1>2, <1>3, <2>1, <2>2, <2>3 DEF SearchInv, SearchType
<1>5. DepthsOrdered'
  <2>1. \A i \in DOMAIN q : q[i].depth = 0  BY <1>2 DEF Seeded
  <2> QED BY <1>2, <1>3, <2>1, RetrievalAssumption DEF DepthsOrdered
<1>6. NothingInvented'  BY <1>2, <1>3 DEF NothingInvented, Reachable, Seeded
<1>7. NothingMissed'
  <2>1. \A u \in query.seeds : Covered(u, 0)'  BY <1>2, <1>3 DEF Covered, Seeded
  <2> QED BY <1>3, <2>1 DEF NothingMissed
<1> QED BY <1>4, <1>5, <1>6, <1>7 DEF SearchInv

\* A queue without its head and with f behind it.
Follow(q, f) ==
    /\ q \in Seq(Entries) /\ f \in Seq(Entries)
    /\ \A k \in DOMAIN queue : k # 1 => \E i \in DOMAIN q : q[i] = queue[k]
    /\ \A k \in DOMAIN f : \E i \in DOMAIN q : q[i] = f[k]
    /\ \A i \in DOMAIN q : \/ \E k \in DOMAIN queue : 1 < k /\ q[i] = queue[k]
                           \/ \E k \in DOMAIN f : q[i] = f[k]
    /\ \A i, j \in DOMAIN q : i < j =>
          \/ \E k, l \in DOMAIN queue : 1 < k /\ k < l /\ q[i] = queue[k] /\ q[j] = queue[l]
          \/ \E k \in DOMAIN queue, l \in DOMAIN f : 1 < k /\ q[i] = queue[k] /\ q[j] = f[l]
          \/ \E k, l \in DOMAIN f : q[i] = f[k] /\ q[j] = f[l]

LEMMA QueueFollows ==
    ASSUME queue \in Seq(Entries), queue # <<>>, NEW f \in Seq(Entries)
    PROVE  Follow(Tail(queue) \o f, f) /\ Head(queue) = queue[1] /\ 1 \in DOMAIN queue
<1>1. PICK s \in Seq(Entries) : s = queue /\ s # <<>>  OBVIOUS
<1>2. PICK n \in Nat : Len(s) = n + 1
  <2>1. Len(s) \in Nat /\ Len(s) # 0  BY <1>1
  <2> QED BY <2>1
<1>3. PICK t \in Seq(Entries) : t = Tail(s) /\ Len(t) = n /\ \A i \in 1..n : t[i] = s[i + 1]
  <2>1. Tail(s) \in Seq(Entries) /\ Len(Tail(s)) = Len(s) - 1
        /\ \A i \in 1..Len(Tail(s)) : Tail(s)[i] = s[i + 1]
    BY <1>1, HeadTailProperties
  <2>2. Len(Tail(s)) = n  BY <1>2, <2>1
  <2> QED BY <2>1, <2>2
<1>4. PICK m \in Nat : m = Len(f) /\ DOMAIN f = 1..m  OBVIOUS
<1>5. PICK q \in Seq(Entries) : /\ q = t \o f /\ Len(q) = n + m
                                /\ \A i \in 1..n : q[i] = t[i]
                                /\ \A i \in 1..m : q[n + i] = f[i]
  <2>1. t \o f \in Seq(Entries) /\ Len(t \o f) = Len(t) + Len(f)
        /\ \A i \in 1..Len(t) + Len(f) : (t \o f)[i] = IF i <= Len(t) THEN t[i] ELSE f[i - Len(t)]
    BY ConcatProperties
  <2>2. PICK q \in Seq(Entries) :
           /\ q = t \o f /\ Len(q) = n + m
           /\ \A i \in 1..(n + m) : q[i] = IF i <= n THEN t[i] ELSE f[i - n]
    BY <1>3, <1>4, <2>1
  <2>3. \A i \in 1..n : q[i] = t[i]  BY <2>2
  <2>4. \A i \in 1..m : n + i \in 1..(n + m) /\ ~(n + i <= n) /\ (n + i) - n = i  OBVIOUS
  <2>5. \A i \in 1..m : q[n + i] = f[i]  BY <2>2, <2>4
  <2> QED BY <2>2, <2>3, <2>5
<1>6. DOMAIN q = 1..(n + m) /\ DOMAIN s = 1..(n + 1)  BY <1>2, <1>5
<1>7. \A i \in 1..n : q[i] = s[i + 1] /\ i + 1 \in DOMAIN s /\ 1 < i + 1  BY <1>3, <1>5, <1>6
<1>8. \A i \in DOMAIN q : ~(i <= n) => i - n \in 1..m /\ q[i] = f[i - n]
  <2> SUFFICES ASSUME NEW i \in DOMAIN q, ~(i <= n) PROVE i - n \in 1..m /\ q[i] = f[i - n]  OBVIOUS
  <2>1. i - n \in 1..m /\ n + (i - n) = i  BY <1>6
  <2> QED BY <1>5, <2>1
<1>9. \A k \in DOMAIN s : k # 1 => \E i \in DOMAIN q : q[i] = s[k]
  <2> SUFFICES ASSUME NEW k \in DOMAIN s, k # 1 PROVE \E i \in DOMAIN q : q[i] = s[k]  OBVIOUS
  <2>1. k - 1 \in 1..n /\ (k - 1) + 1 = k /\ k - 1 \in DOMAIN q  BY <1>6
  <2> QED BY <1>7, <2>1
<1>10. \A k \in DOMAIN f : \E i \in DOMAIN q : q[i] = f[k]
  <2> SUFFICES ASSUME NEW k \in 1..m PROVE \E i \in DOMAIN q : q[i] = f[k]  BY <1>4
  <2>1. n + k \in DOMAIN q  BY <1>6
  <2> QED BY <1>5, <2>1
<1>11. \A i \in DOMAIN q : \/ \E k \in DOMAIN s : 1 < k /\ q[i] = s[k]
                           \/ \E k \in DOMAIN f : q[i] = f[k]
  <2> SUFFICES ASSUME NEW i \in DOMAIN q
               PROVE  \/ \E k \in DOMAIN s : 1 < k /\ q[i] = s[k]
                      \/ \E k \in DOMAIN f : q[i] = f[k]
    OBVIOUS
  <2>1. CASE i <= n
    <3>1. i \in 1..n  BY <1>6, <2>1
    <3> QED BY <1>7, <3>1
  <2>2. CASE ~(i <= n)  BY <1>4, <1>8, <2>2
  <2> QED BY <2>1, <2>2
<1>12. ASSUME NEW i \in DOMAIN q, NEW j \in DOMAIN q, i < j
       PROVE  \/ \E k, l \in DOMAIN s : 1 < k /\ k < l /\ q[i] = s[k] /\ q[j] = s[l]
              \/ \E k \in DOMAIN s, l \in DOMAIN f : 1 < k /\ q[i] = s[k] /\ q[j] = f[l]
              \/ \E k, l \in DOMAIN f : q[i] = f[k] /\ q[j] = f[l]
  <2>1. CASE j <= n
    <3>1. i \in 1..n /\ j \in 1..n /\ i + 1 < j + 1  BY <1>6, <1>12, <2>1
    <3> QED BY <1>7, <3>1
  <2>2. CASE i <= n /\ ~(j <= n)
    <3>1. i \in 1..n  BY <1>6, <2>2
    <3> QED BY <1>4, <1>7, <1>8, <2>2, <3>1
  <2>3. CASE ~(i <= n) /\ ~(j <= n)  BY <1>4, <1>8, <2>3
  <2> QED BY <1>6, <1>12, <2>1, <2>2, <2>3
<1>13. Follow(q, f)  BY <1>1, <1>9, <1>10, <1>11, <1>12 DEF Follow
<1>14. Head(queue) = queue[1] /\ 1 \in DOMAIN queue  BY <1>1, <1>6
<1> QED BY <1>1, <1>3, <1>5, <1>13, <1>14

(* An entry whose node was visited before is dropped.                      *)
LEMMA DropKeeps ==
    ASSUME SearchInv, queue # <<>>, Follow(queue', <<>>),
           queue[1].id \in DOMAIN visited, 1 \in DOMAIN queue,
           UNCHANGED <<world, query, channel, visited, broken>>
    PROVE  SearchInv'
<1>1. queue' \in Seq(Entries)
      /\ \A i \in DOMAIN queue' : \E k \in DOMAIN queue : queue'[i] = queue[k]
  BY DEF Follow
<1>2. \A k \in DOMAIN queue : k # 1 => \E i \in DOMAIN queue' : queue'[i] = queue[k]  BY DEF Follow
<1>3. \A i, j \in DOMAIN queue' : i < j =>
          \E k, l \in DOMAIN queue : k < l /\ queue'[i] = queue[k] /\ queue'[j] = queue[l]
  BY DEF Follow
<1>4. channel["graph"] = "running" /\ visited # <<>>
  BY DEF SearchInv, SearchType, Started
<1>5. SearchType'  BY <1>1, <1>4 DEF SearchInv, SearchType, Started, UnitIds
<1>6. DepthsOrdered'
  <2>1. DepthsOrdered  BY DEF SearchInv
  <2> QED BY <1>1, <1>3, <2>1 DEF DepthsOrdered
<1>7. NothingInvented'
  <2>1. \A u, d : Reachable(u, d) => Reachable(u, d)'  BY DEF Reachable
  <2>2. NothingInvented  BY DEF SearchInv
  <2> QED BY <1>1, <2>1, <2>2 DEF NothingInvented
<1>8. ASSUME NEW v, NEW d \in Nat, Covered(v, d) PROVE Covered(v, d)'
  <2>1. CASE v \in DOMAIN visited /\ visited[v].depth <= d  BY <2>1 DEF Covered
  <2>2. ASSUME NEW k \in DOMAIN queue, queue[k].id = v, queue[k].depth <= d PROVE Covered(v, d)'
    <3>1. CASE k = 1
      <4>1. visited[v].depth <= queue[1].depth  BY <2>2, <3>1 DEF SearchInv, DepthsOrdered
      <4>2. visited[v].depth <= d
        <5>1. visited[v].depth \in Nat /\ queue[1].depth \in Nat
          BY <2>2, <3>1, EntryRecord DEF SearchInv, SearchType, Visits
        <5> QED BY <2>2, <3>1, <4>1, <5>1
      <4> QED BY <2>2, <3>1, <4>2 DEF Covered
    <3>2. CASE k # 1  BY <1>2, <2>2, <3>2 DEF Covered
    <3> QED BY <3>1, <3>2
  <2> QED BY <1>8, <2>1, <2>2 DEF Covered
<1>9. NothingMissed'
  <2>1. NothingMissed /\ Started  BY <1>4 DEF SearchInv, Started
  <2>2. \A u \in DOMAIN visited : visited[u].depth + 1 \in Nat  BY DEF SearchInv, SearchType, Visits
  <2> QED BY <1>8, <2>1, <2>2 DEF NothingMissed, Adjacent
<1> QED BY <1>5, <1>6, <1>7, <1>9 DEF SearchInv

\* The head of the queue is visited, and f is what it brings to the queue.
Visit(e, f) ==
    /\ e \in Entries /\ 1 \in DOMAIN queue /\ e = queue[1]
    /\ e.id \notin DOMAIN visited /\ e.depth <= MaxTraversalDepth
    /\ DOMAIN visited' = DOMAIN visited \union {e.id}
    /\ visited' \in [DOMAIN visited' -> Visits]
    /\ \A u \in DOMAIN visited : visited'[u] = visited[u]
    /\ visited'[e.id].depth = e.depth
    /\ UNCHANGED <<world, query, channel>>
    /\ Follow(queue', f)
    /\ \A i \in DOMAIN f : /\ f[i].depth = e.depth + 1 /\ e.depth < MaxTraversalDepth
                           /\ f[i].id \in Adjacent(e.id) /\ world.kind[f[i].id] # "External"

\* Either its neighbours were read, or it is broken.
Expanded(e, f) ==
    \/ /\ broken' = broken
       /\ e.depth < MaxTraversalDepth =>
             \A v \in Adjacent(e.id) : world.kind[v] # "External" =>
                v \in DOMAIN visited' \/ \E i \in DOMAIN f : f[i].id = v
    \/ broken' = broken \union {e.id} /\ DOMAIN f = {}

LEMMA VisitOrders ==
    ASSUME SearchInv, NEW e, NEW f, Visit(e, f)
    PROVE  DepthsOrdered'
<1>1. PICK N \in Nat : N = MaxTraversalDepth  BY RetrievalAssumption
<1>2. DepthsOrdered /\ 1 \in DOMAIN queue /\ e = queue[1] /\ e.depth \in Nat /\ e.depth <= N
  BY <1>1, EntryRecord DEF SearchInv, Visit
<1>3. \A k \in DOMAIN queue : queue[k].depth \in Nat
  BY EntryRecord DEF SearchInv, SearchType
<1>4. /\ \A i \in DOMAIN queue : 1 < i => e.depth <= queue[i].depth /\ queue[i].depth <= e.depth + 1
      /\ \A i \in DOMAIN queue : queue[i].depth <= N
      /\ \A i, j \in DOMAIN queue : i < j => /\ queue[i].depth <= queue[j].depth
                                             /\ queue[j].depth <= queue[i].depth + 1
  BY <1>1, <1>2 DEF DepthsOrdered
<1>5. \A k \in DOMAIN f : f[k].depth = e.depth + 1 /\ e.depth < N  BY <1>1 DEF Visit
<1>6. /\ \A i \in DOMAIN queue' : \/ \E k \in DOMAIN queue : 1 < k /\ queue'[i] = queue[k]
                                  \/ \E k \in DOMAIN f : queue'[i] = f[k]
      /\ \A i, j \in DOMAIN queue' : i < j =>
          \/ \E k, l \in DOMAIN queue : 1 < k /\ k < l /\ queue'[i] = queue[k] /\ queue'[j] = queue[l]
          \/ \E k \in DOMAIN queue, l \in DOMAIN f : 1 < k /\ queue'[i] = queue[k] /\ queue'[j] = f[l]
          \/ \E k, l \in DOMAIN f : queue'[i] = f[k] /\ queue'[j] = f[l]
  BY DEF Visit, Follow
<1>7. ASSUME NEW i \in DOMAIN queue'
      PROVE  queue'[i].depth \in Nat /\ e.depth <= queue'[i].depth /\ queue'[i].depth <= N
  <2>1. CASE \E k \in DOMAIN queue : 1 < k /\ queue'[i] = queue[k]  BY <1>3, <1>4, <2>1
  <2>2. CASE \E k \in DOMAIN f : queue'[i] = f[k]
    <3>1. queue'[i].depth = e.depth + 1 /\ e.depth < N  BY <1>5, <2>2
    <3> QED BY <1>1, <1>2, <3>1
  <2> QED BY <1>6, <2>1, <2>2
<1>8. ASSUME NEW i \in DOMAIN queue', NEW j \in DOMAIN queue', i < j
      PROVE  queue'[i].depth <= queue'[j].depth /\ queue'[j].depth <= queue'[i].depth + 1
  <2>1. CASE \E k, l \in DOMAIN queue : 1 < k /\ k < l /\ queue'[i] = queue[k] /\ queue'[j] = queue[l]
    BY <1>4, <2>1
  <2>2. CASE \E k \in DOMAIN queue, l \in DOMAIN f : 1 < k /\ queue'[i] = queue[k] /\ queue'[j] = f[l]
    <3>1. e.depth <= queue'[i].depth /\ queue'[i].depth <= e.depth + 1 /\ queue'[j].depth = e.depth + 1
      BY <1>4, <1>5, <2>2
    <3> QED BY <1>2, <1>7, <3>1
  <2>3. CASE \E k, l \in DOMAIN f : queue'[i] = f[k] /\ queue'[j] = f[l]
    <3>1. queue'[i].depth = e.depth + 1 /\ queue'[j].depth = e.depth + 1  BY <1>5, <2>3
    <3> QED BY <1>2, <3>1
  <2> QED BY <1>6, <1>8, <2>1, <2>2, <2>3
<1>9. ASSUME NEW u \in DOMAIN visited'
      PROVE  visited'[u].depth \in Nat /\ visited'[u].depth <= e.depth
  <2>1. CASE u = e.id  BY <1>2, <2>1 DEF Visit
  <2>2. CASE u \in DOMAIN visited
    <3>1. visited'[u] = visited[u] /\ visited[u].depth <= queue[1].depth
      BY <1>2, <2>2 DEF Visit, DepthsOrdered
    <3>2. visited[u].depth \in Nat  BY <2>2 DEF SearchInv, SearchType, Visits
    <3> QED BY <1>2, <3>1, <3>2
  <2> QED BY <2>1, <2>2 DEF Visit
<1>10. \A u \in DOMAIN visited' : \A i \in DOMAIN queue' : visited'[u].depth <= queue'[i].depth
  BY <1>2, <1>7, <1>9
<1>11. \A u \in DOMAIN visited' : visited'[u].depth <= N  BY <1>2, <1>9
<1> QED BY <1>1, <1>7, <1>8, <1>10, <1>11 DEF DepthsOrdered

LEMMA VisitInventsNothing ==
    ASSUME SearchInv, NEW e, NEW f, Visit(e, f), Expanded(e, f)
    PROVE  NothingInvented'
<1>1. NothingInvented /\ broken \subseteq DOMAIN visited /\ e.depth \in Nat
  BY EntryRecord DEF SearchInv, SearchType, Visit
<1>2. DOMAIN visited \ broken \subseteq DOMAIN visited' \ broken'  BY <1>1 DEF Visit, Expanded
<1>3. ASSUME NEW v, NEW d, Reachable(v, d) PROVE Reachable(v, d)'
  <2>1. CASE d = 0  BY <1>3, <2>1 DEF Reachable, Visit
  <2>2. CASE d # 0
    <3>1. /\ v \in world.nodes /\ world.kind[v] # "External"
          /\ \E u \in DOMAIN visited \ broken : visited[u].depth = d - 1 /\ {u, v} \in world.edges
      BY <1>3, <2>2 DEF Reachable
    <3>2. PICK u \in DOMAIN visited \ broken : visited[u].depth = d - 1 /\ {u, v} \in world.edges
      BY <3>1
    <3>3. u \in DOMAIN visited' \ broken' /\ visited'[u] = visited[u]  BY <1>2 DEF Visit
    <3> QED BY <2>2, <3>1, <3>2, <3>3 DEF Reachable, Visit
  <2> QED BY <2>1, <2>2
<1>4. Reachable(e.id, e.depth)'  BY <1>1, <1>3 DEF NothingInvented, Visit
<1>5. ASSUME NEW k \in DOMAIN f PROVE Reachable(f[k].id, f[k].depth)'
  <2>1. /\ f[k].depth = e.depth + 1 /\ f[k].id \in world.nodes /\ {e.id, f[k].id} \in world.edges
        /\ world.kind[f[k].id] # "External"
    BY DEF Visit, Adjacent
  <2>2. e.id \in DOMAIN visited' \ broken' /\ visited'[e.id].depth = e.depth
    BY <1>1 DEF Visit, Expanded
  <2>3. e.depth + 1 # 0 /\ (e.depth + 1) - 1 = e.depth  BY <1>1
  <2> QED BY <2>1, <2>2, <2>3 DEF Reachable, Visit
<1>6. ASSUME NEW i \in DOMAIN queue', NEW v, NEW d, v = queue'[i].id, d = queue'[i].depth
      PROVE  Reachable(v, d)'
  <2>1. CASE \E k \in DOMAIN queue : queue'[i] = queue[k]
    <3>1. Reachable(v, d)  BY <1>1, <1>6, <2>1 DEF NothingInvented
    <3> QED BY <1>3, <3>1
  <2>2. ASSUME NEW k \in DOMAIN f, queue'[i] = f[k] PROVE Reachable(v, d)'
    <3>1. v = f[k].id /\ d = f[k].depth  BY <1>6, <2>2
    <3> QED BY <1>5, <3>1
  <2> QED BY <2>1, <2>2 DEF Visit, Follow
<1>7. ASSUME NEW u \in DOMAIN visited', NEW d, d = visited'[u].depth PROVE Reachable(u, d)'
  <2>1. CASE u = e.id
    <3>1. u = e.id /\ d = e.depth  BY <1>7, <2>1 DEF Visit
    <3> QED BY <1>4, <3>1
  <2>2. CASE u \in DOMAIN visited
    <3>1. Reachable(u, d)  BY <1>1, <1>7, <2>2 DEF NothingInvented, Visit
    <3> QED BY <1>3, <3>1
  <2> QED BY <2>1, <2>2 DEF Visit
<1>8. \A i \in DOMAIN queue' : Reachable(queue[i].id, queue[i].depth)'  BY <1>6
<1>9. \A u \in DOMAIN visited' : Reachable(u, visited[u].depth)'  BY <1>7
<1> QED BY <1>8, <1>9 DEF NothingInvented

LEMMA VisitMissesNothing ==
    ASSUME SearchInv, NEW e, NEW f, Visit(e, f), Expanded(e, f)
    PROVE  NothingMissed'
<1>1. /\ NothingMissed /\ broken \subseteq DOMAIN visited /\ e.depth \in Nat /\ Started
      /\ DepthsOrdered /\ e = queue[1] /\ 1 \in DOMAIN queue
  BY EntryRecord DEF SearchInv, SearchType, Visit, Started
<1>2. ASSUME NEW v, NEW d \in Nat, Covered(v, d) PROVE Covered(v, d)'
  <2>1. CASE v \in DOMAIN visited /\ visited[v].depth <= d  BY <2>1 DEF Covered, Visit
  <2>2. ASSUME NEW k \in DOMAIN queue, queue[k].id = v, queue[k].depth <= d PROVE Covered(v, d)'
    <3>1. CASE k = 1  BY <1>1, <2>2, <3>1 DEF Covered, Visit
    <3>2. CASE k # 1
      <4>1. \E i \in DOMAIN queue' : queue'[i] = queue[k]  BY <3>2 DEF Visit, Follow
      <4> QED BY <2>2, <4>1 DEF Covered
    <3> QED BY <3>1, <3>2
  <2> QED BY <1>2, <2>1, <2>2 DEF Covered
<1>3. \A u \in query'.seeds : Covered(u, 0)'  BY <1>1, <1>2 DEF NothingMissed, Visit
<1>4. \A v : Adjacent(v)' = Adjacent(v)  BY DEF Adjacent, Visit
<1>5. ASSUME NEW u \in DOMAIN visited' \ broken', visited'[u].depth < MaxTraversalDepth,
             NEW v \in Adjacent(u), world.kind[v] # "External",
             NEW d \in Nat, d = visited'[u].depth + 1
      PROVE  Covered(v, d)'
  <2>1. CASE u = e.id
    <3>1. broken' = broken /\ e.depth < MaxTraversalDepth /\ visited'[u].depth = e.depth
      BY <1>1, <1>5, <2>1 DEF Expanded, Visit
    <3>2. v \in DOMAIN visited' \/ \E i \in DOMAIN f : f[i].id = v
      BY <1>1, <1>5, <2>1, <3>1 DEF Expanded
    <3>3. CASE v \in DOMAIN visited'
      <4>1. visited'[v].depth <= e.depth /\ visited'[v].depth \in Nat
        <5>1. CASE v = e.id  BY <1>1, <5>1 DEF Visit
        <5>2. CASE v \in DOMAIN visited
          <6>1. visited'[v] = visited[v] /\ visited[v].depth <= queue[1].depth
            BY <1>1, <5>2 DEF Visit, DepthsOrdered
          <6>2. visited[v].depth \in Nat  BY <5>2 DEF SearchInv, SearchType, Visits
          <6> QED BY <1>1, <6>1, <6>2
        <5> QED BY <3>3, <5>1, <5>2 DEF Visit
      <4>2. visited'[v].depth <= e.depth + 1  BY <1>1, <4>1
      <4> QED BY <1>5, <3>1, <3>3, <4>2 DEF Covered
    <3>4. ASSUME NEW k \in DOMAIN f, f[k].id = v PROVE Covered(v, d)'
      <4>1. PICK i \in DOMAIN queue' : queue'[i] = f[k]  BY DEF Visit, Follow
      <4>2. queue'[i].depth = e.depth + 1 /\ queue'[i].id = v  BY <3>4, <4>1 DEF Visit
      <4>3. queue'[i].depth <= e.depth + 1  BY <1>1, <4>2
      <4> QED BY <1>5, <3>1, <4>2, <4>3 DEF Covered
    <3> QED BY <3>2, <3>3, <3>4
  <2>2. CASE u # e.id
    <3>1. u \in DOMAIN visited \ broken /\ visited'[u] = visited[u]
      BY <1>5, <2>2 DEF Visit, Expanded
    <3>2. Covered(v, d)  BY <1>1, <1>5, <3>1 DEF NothingMissed
    <3> QED BY <1>2, <3>2
  <2> QED BY <2>1, <2>2
<1>6. world' = world  BY DEF Visit
<1>7. \A u \in DOMAIN visited' : visited'[u].depth + 1 \in Nat  BY DEF Visit, Visits
<1>8. \A u \in DOMAIN visited' \ broken' : visited'[u].depth < MaxTraversalDepth =>
          \A v \in Adjacent(u) : world.kind[v] # "External" => Covered(v, visited[u].depth + 1)'
  BY <1>5, <1>7
<1> QED BY <1>3, <1>4, <1>6, <1>8 DEF NothingMissed

LEMMA VisitKeeps ==
    ASSUME SearchInv, NEW e, NEW f, Visit(e, f), Expanded(e, f)
    PROVE  SearchInv'
<1>1. /\ world \in Worlds /\ query \in Queries /\ queue \in Seq(Entries) /\ IsFiniteSet(DOMAIN visited)
      /\ channel \in [Channels -> {"new", "running", "done", "failed", "off"}]
      /\ DOMAIN visited \subseteq UnitIds /\ broken \subseteq DOMAIN visited
      /\ \A i \in DOMAIN queue : queue[i].id \in UnitIds
  BY DEF SearchInv, SearchType
<1>2. channel["graph"] = "running"
  <2>1. queue # <<>>  BY DEF Visit
  <2> QED BY <2>1 DEF SearchInv, SearchType, Started
<1>3. e.id \in UnitIds  BY <1>1 DEF Visit
<1>4. UnitIds' = UnitIds  BY DEF Visit, UnitIds
<1>5. IsFiniteSet(DOMAIN visited') /\ DOMAIN visited' \subseteq UnitIds
  BY <1>1, <1>3, FS_AddElement DEF Visit
<1>6. \A i \in DOMAIN queue' : queue'[i].id \in UnitIds
  <2>1. \A k \in DOMAIN f : f[k].id \in UnitIds  BY <1>1, Known DEF Visit, Adjacent
  <2> QED BY <1>1, <2>1, SMTT(30) DEF Visit, Follow
<1>7. SearchType'
  <2>1. world' \in Worlds /\ query' \in Queries /\ channel' = channel  BY <1>1 DEF Visit
  <2>2. queue' \in Seq(Entries)  BY DEF Visit, Follow
  <2>3. visited' \in [DOMAIN visited' -> Visits]  BY DEF Visit
  <2>4. broken' \subseteq DOMAIN visited'  BY <1>1 DEF Visit, Expanded
  <2> QED BY <1>1, <1>2, <1>4, <1>5, <1>6, <2>1, <2>2, <2>3, <2>4 DEF SearchType
<1> QED BY <1>7, VisitOrders, VisitInventsNothing, VisitMissesNothing DEF SearchInv

(* The neighbours that are queued: those not seen, External ones never.    *)
LEMMA FrontierRight ==
    ASSUME world \in Worlds, query \in Queries, NEW e \in Entries, NEW seen
    PROVE  LET f == Frontier(e, seen) IN
           /\ f \in Seq(Entries)
           /\ \A i \in DOMAIN f : /\ f[i].depth = e.depth + 1 /\ f[i].id \in Adjacent(e.id)
                                  /\ world.kind[f[i].id] # "External"
           /\ \A v \in Adjacent(e.id) : (world.kind[v] # "External" /\ v \notin DOMAIN seen) =>
                 \E i \in DOMAIN f : f[i].id = v
<1>1. PICK S : S = {v \in Adjacent(e.id) : world.kind[v] # "External" /\ v \notin DOMAIN seen}
  OBVIOUS
<1>2. S \subseteq world.nodes /\ IsFiniteSet(world.nodes) /\ world.nodes \subseteq Int
  BY <1>1, Known DEF Adjacent
<1>3. S \in SUBSET Int /\ IsFiniteSet(S)  BY <1>2, FS_Subset
<1>4. PICK order : order = Ordered(S, <)  OBVIOUS
<1>5. Lists(order, S)  BY <1>3, <1>4, NumbersListed
<1>6. PICK m \in Nat : m = Len(order) /\ DOMAIN order = 1..m  BY <1>5 DEF Lists
<1>7. PICK f : f = [i \in 1..m |-> [id |-> order[i], depth |-> e.depth + 1, kind |-> world.kind[order[i]]]]
  OBVIOUS
<1>8. Frontier(e, seen) = f  BY <1>1, <1>4, <1>6, <1>7 DEF Frontier
<1>9. \A i \in 1..m : /\ f[i] \in Entries /\ f[i].id = order[i] /\ f[i].depth = e.depth + 1
                      /\ order[i] \in S
  <2> SUFFICES ASSUME NEW i \in 1..m
               PROVE  /\ f[i] \in Entries /\ f[i].id = order[i] /\ f[i].depth = e.depth + 1
                      /\ order[i] \in S
    OBVIOUS
  <2>1. order[i] \in S  BY <1>5, <1>6 DEF Lists
  <2>2. order[i] \in Int /\ world.kind[order[i]] \in Kinds  BY <1>2, <2>1, KindsKnown
  <2>3. e.depth + 1 \in Nat  BY EntryRecord
  <2>4. f[i] = [id |-> order[i], depth |-> e.depth + 1, kind |-> world.kind[order[i]]]  BY <1>7
  <2> QED BY <2>1, <2>2, <2>3, <2>4, EntryRecord
<1>10. DOMAIN f = 1..m  BY <1>7
<1>11. f \in Seq(Entries)
  <2>1. f \in [1..m -> Entries]  BY <1>7, <1>9
  <2> QED BY <2>1, FunctionIsSequence
<1>12. \A i \in 1..m : f[i].id \in Adjacent(e.id) /\ world.kind[f[i].id] # "External"
  BY <1>1, <1>9
<1>13. \A v \in S : \E i \in 1..m : f[i].id = v  BY <1>5, <1>6, <1>9 DEF Lists
<1> QED BY <1>1, <1>8, <1>9, <1>10, <1>11, <1>12, <1>13

\* What was visited, with one entry more.
Seen(e) ==
    [u \in DOMAIN visited \union {e.id} |->
        IF u \in DOMAIN visited THEN visited[u] ELSE [depth |-> e.depth, kind |-> e.kind]]

LEMMA SeenRight ==
    ASSUME visited \in [DOMAIN visited -> Visits], NEW e \in Entries, e.id \notin DOMAIN visited
    PROVE  /\ DOMAIN Seen(e) = DOMAIN visited \union {e.id}
           /\ Seen(e) \in [DOMAIN Seen(e) -> Visits]
           /\ \A u \in DOMAIN visited : Seen(e)[u] = visited[u]
           /\ Seen(e)[e.id].depth = e.depth
<1>1. PICK r : r = [depth |-> e.depth, kind |-> e.kind]  OBVIOUS
<1>2. r \in Visits /\ r.depth = e.depth  BY <1>1, EntryRecord DEF Visits
<1>3. Seen(e) = [u \in DOMAIN visited \union {e.id} |-> IF u \in DOMAIN visited THEN visited[u] ELSE r]
  BY <1>1 DEF Seen
<1> QED BY <1>2, <1>3

LEMMA GraphStepKeeps == SearchInv /\ GraphStep => SearchInv'
<1> SUFFICES ASSUME SearchInv, GraphStep PROVE SearchInv'  OBVIOUS
<1>1. /\ queue # <<>> /\ queue \in Seq(Entries) /\ world \in Worlds /\ query \in Queries
      /\ visited \in [DOMAIN visited -> Visits] /\ DepthsOrdered
      /\ UNCHANGED <<world, query, channel, found, packet>>
  BY DEF GraphStep, SearchInv, SearchType
<1>2. PICK e \in Entries : e = Head(queue) /\ e = queue[1] /\ 1 \in DOMAIN queue
  <2>1. Head(queue) = queue[1] /\ 1 \in DOMAIN queue /\ <<>> \in Seq(Entries)
    BY <1>1, QueueFollows
  <2> QED BY <1>1, <2>1
<1>3. e.depth <= MaxTraversalDepth /\ e.depth \in Nat /\ MaxTraversalDepth \in Nat
  BY <1>1, <1>2, EntryRecord, RetrievalAssumption DEF DepthsOrdered
<1>4. PICK seen : seen = Seen(e)  OBVIOUS
<1>5. e.id \in DOMAIN visited => queue' = Tail(queue) /\ UNCHANGED <<visited, broken>>
  BY <1>2 DEF GraphStep
<1>6. e.id \notin DOMAIN visited =>
          /\ visited' = seen
          /\ \/ /\ queue' = (IF e.depth >= MaxTraversalDepth THEN Tail(queue)
                             ELSE Tail(queue) \o Frontier(e, seen))
                /\ broken' = broken
             \/ e.depth < MaxTraversalDepth /\ queue' = Tail(queue) /\ broken' = broken \union {e.id}
  <2>1. ~(e.depth > MaxTraversalDepth)  BY <1>3
  <2> QED BY <1>2, <1>4, <2>1 DEF GraphStep, Enqueue, Seen
<1>7. Follow(Tail(queue), <<>>)
  <2>0. <<>> \in Seq(Entries)  OBVIOUS
  <2>1. Follow(Tail(queue) \o <<>>, <<>>)  BY <1>1, <2>0, QueueFollows
  <2>2. Tail(queue) \o <<>> = Tail(queue)
    <3>1. Tail(queue) \in Seq(Entries)  BY <1>1, HeadTailProperties
    <3> QED BY <3>1, ConcatEmptySeq
  <2> QED BY <2>1, <2>2
<1>8. CASE e.id \in DOMAIN visited
  <2>1. queue' = Tail(queue) /\ visited' = visited /\ broken' = broken  BY <1>5, <1>8
  <2> QED BY <1>1, <1>2, <1>7, <1>8, <2>1, DropKeeps
<1>9. CASE e.id \notin DOMAIN visited
  <2>1. /\ DOMAIN seen = DOMAIN visited \union {e.id}
        /\ seen \in [DOMAIN seen -> Visits]
        /\ \A u \in DOMAIN visited : seen[u] = visited[u]
        /\ seen[e.id].depth = e.depth
    BY <1>1, <1>4, <1>9, SeenRight
  <2>2. visited' = seen /\ e.id \notin DOMAIN visited  BY <1>6, <1>9
  <2>3. CASE /\ queue' = Tail(queue)
             /\ \/ broken' = broken \union {e.id}
                \/ broken' = broken /\ ~(e.depth < MaxTraversalDepth)
    <3>1. Visit(e, <<>>)  BY <1>1, <1>2, <1>3, <1>7, <2>1, <2>2, <2>3 DEF Visit
    <3>2. Expanded(e, <<>>)  BY <2>3 DEF Expanded
    <3> QED BY <3>1, <3>2, VisitKeeps
  <2>4. CASE queue' = Tail(queue) \o Frontier(e, seen) /\ broken' = broken /\ e.depth < MaxTraversalDepth
    <3>1. PICK f : f = Frontier(e, seen)  OBVIOUS
    <3>2. /\ f \in Seq(Entries)
          /\ \A i \in DOMAIN f : /\ f[i].depth = e.depth + 1 /\ f[i].id \in Adjacent(e.id)
                                 /\ world.kind[f[i].id] # "External"
          /\ \A v \in Adjacent(e.id) : (world.kind[v] # "External" /\ v \notin DOMAIN seen) =>
                \E i \in DOMAIN f : f[i].id = v
      BY <1>1, <3>1, FrontierRight
    <3>3. Follow(queue', f)  BY <1>1, <2>4, <3>1, <3>2, QueueFollows
    <3>4. Visit(e, f)  BY <1>1, <1>2, <1>3, <2>1, <2>2, <2>4, <3>2, <3>3 DEF Visit
    <3>5. Expanded(e, f)  BY <2>2, <2>4, <3>2 DEF Expanded
    <3> QED BY <3>4, <3>5, VisitKeeps
  <2>5. CASE e.depth < MaxTraversalDepth
    <3>1. ~(e.depth >= MaxTraversalDepth)  BY <1>3, <2>5
    <3>2. \/ queue' = Tail(queue) \o Frontier(e, seen) /\ broken' = broken
          \/ queue' = Tail(queue) /\ broken' = broken \union {e.id}
      BY <1>6, <1>9, <3>1, Zenon
    <3>3. CASE queue' = Tail(queue) \o Frontier(e, seen) /\ broken' = broken  BY <2>4, <2>5, <3>3
    <3>4. CASE queue' = Tail(queue) /\ broken' = broken \union {e.id}  BY <2>3, <3>4
    <3> QED BY <3>2, <3>3, <3>4
  <2>6. CASE ~(e.depth < MaxTraversalDepth)
    <3>1. e.depth >= MaxTraversalDepth  BY <1>3, <2>6
    <3> QED BY <1>6, <1>9, <2>3, <2>6, <3>1
  <2> QED BY <2>5, <2>6
<1> QED BY <1>8, <1>9

LEMMA GraphReturnKeeps == SearchInv /\ GraphReturn => SearchInv'
<1> SUFFICES ASSUME SearchInv, GraphReturn PROVE SearchInv'  OBVIOUS
<1>1. /\ channel' = [channel EXCEPT !["graph"] = "done"] /\ queue = <<>> /\ visited # <<>>
      /\ UNCHANGED <<world, query, queue, visited, broken>>
  BY DEF GraphReturn, Returns
<1>2. channel \in [Channels -> {"new", "running", "done", "failed", "off"}]
  BY DEF SearchInv, SearchType
<1>3. channel' \in [Channels -> {"new", "running", "done", "failed", "off"}] /\ channel'["graph"] = "done"
  BY <1>1, <1>2 DEF Channels
<1> QED BY <1>1, <1>3, SearchStays

(* The other steps leave the graph channel's state alone.                  *)
LEMMA OthersKeep ==
    SearchInv /\ (PlanRun \/ VectorSearch \/ MetadataSearch \/ Respond \/ UNCHANGED retrievalVars)
        => SearchInv'
<1> SUFFICES ASSUME SearchInv, PlanRun \/ VectorSearch \/ MetadataSearch \/ Respond \/ UNCHANGED retrievalVars
             PROVE  SearchInv'
  OBVIOUS
<1> DEFINE States == {"new", "running", "done", "failed", "off"}
<1>1. /\ channel \in [Channels -> States]
      /\ Started => channel["graph"] \in {"running", "done"}
      /\ channel["graph"] = "done" => queue = <<>> /\ visited # <<>>
  BY DEF SearchInv, SearchType
<1>2. CASE PlanRun
  <2>1. /\ channel = [c \in Channels |-> "new"]
        /\ channel' = [c \in Channels |-> IF c \in Planned THEN "running" ELSE "off"]
        /\ UNCHANGED <<world, query, queue, visited, broken>>
    BY <1>2 DEF PlanRun
  <2>2. channel' \in [Channels -> States] /\ channel'["graph"] \in {"running", "off"}
    BY <2>1 DEF Channels
  <2>3. ~Started  BY <1>1, <2>1 DEF Channels
  <2> QED BY <2>1, <2>2, <2>3, SearchStays
<1>3. ASSUME NEW c \in {"vector", "metadata"}, NEW s \in {"done", "failed"},
             channel' = [channel EXCEPT ![c] = s], UNCHANGED <<world, query, queue, visited, broken>>
      PROVE  SearchInv'
  <2>1. channel' \in [Channels -> States] /\ channel'["graph"] = channel["graph"]
    BY <1>1, <1>3 DEF Channels
  <2> QED BY <1>1, <1>3, <2>1, SearchStays
<1>4. CASE VectorSearch
  <2>1. /\ \E s \in {"done", "failed"} : channel' = [channel EXCEPT !["vector"] = s]
        /\ UNCHANGED <<world, query, queue, visited, broken>>
    BY <1>4 DEF VectorSearch, Returns, Raises
  <2> QED BY <1>3, <2>1
<1>5. CASE MetadataSearch
  <2>1. /\ channel' = [channel EXCEPT !["metadata"] = "done"]
        /\ UNCHANGED <<world, query, queue, visited, broken>>
    BY <1>5 DEF MetadataSearch, Returns
  <2> QED BY <1>3, <2>1
<1>6. CASE Respond \/ UNCHANGED retrievalVars
  <2>1. channel' = channel /\ UNCHANGED <<world, query, queue, visited, broken>>
    BY <1>6 DEF Respond, retrievalVars
  <2> QED BY <1>1, <2>1, SearchStays
<1> QED BY <1>2, <1>4, <1>5, <1>6

LEMMA SearchKeeps == SearchInv /\ [RetrievalNext]_retrievalVars => SearchInv'
  BY GraphStartKeeps, GraphStepKeeps, GraphReturnKeeps, OthersKeep DEF RetrievalNext

(* The recursive definition of what is within a depth, solved by what was  *)
(* visited there.                                                          *)
LEMMA WithinIsVisited ==
    ASSUME SearchInv, channel["graph"] = "done"
    PROVE  \A d \in 0..MaxTraversalDepth : Within[d] = {u \in DOMAIN visited : visited[u].depth <= d}
<1>1. PICK N \in Nat : N = MaxTraversalDepth  BY RetrievalAssumption
<1>2. PICK seeds : seeds = query.seeds  OBVIOUS
<1>3. queue = <<>> /\ Started /\ DOMAIN queue = {} /\ broken \subseteq DOMAIN visited
  BY DEF SearchInv, SearchType, Started
<1>4. \A u \in DOMAIN visited : visited[u].depth \in Nat /\ visited[u].depth <= N
  BY <1>1 DEF SearchInv, SearchType, Visits, DepthsOrdered
<1>5. \A u \in seeds : u \in DOMAIN visited /\ visited[u].depth = 0
  <2>1. \A u \in seeds : Covered(u, 0)  BY <1>2, <1>3 DEF SearchInv, NothingMissed
  <2> QED BY <1>3, <1>4, <2>1 DEF Covered
<1>6. \A u \in DOMAIN visited : visited[u].depth = 0 => u \in seeds
  BY <1>2 DEF SearchInv, NothingInvented, Reachable
<1>7. PICK next : next = [S \in SUBSET DOMAIN visited |->
          {v \in world.nodes : world.kind[v] # "External" /\ \E u \in S \ broken : {u, v} \in world.edges}]
  OBVIOUS
<1>8. PICK W : W = [d \in 0..N |-> {u \in DOMAIN visited : visited[u].depth <= d}]  OBVIOUS
<1>9. ASSUME NEW d \in 0..N PROVE W[d] = IF d = 0 THEN seeds ELSE W[d - 1] \union next[W[d - 1]]
  <2>1. W[d] = {u \in DOMAIN visited : visited[u].depth <= d}  BY <1>8
  <2>2. CASE d = 0  BY <1>4, <1>5, <1>6, <2>1, <2>2
  <2>3. CASE d # 0
    <3>1. PICK c \in 0..N : c = d - 1 /\ c < N /\ d = c + 1
      <4>1. d - 1 \in 0..N /\ d - 1 < N /\ d = (d - 1) + 1  BY <2>3
      <4> QED BY <4>1
    <3>2. W[c] = {u \in DOMAIN visited : visited[u].depth <= c}  BY <1>8
    <3>3. next[W[c]] = {v \in world.nodes : /\ world.kind[v] # "External"
                                            /\ \E u \in W[c] \ broken : {u, v} \in world.edges}
      BY <1>7, <3>2
    <3>4. W[c] \subseteq W[d]  BY <1>4, <2>1, <3>1, <3>2
    <3>5. ASSUME NEW v \in next[W[c]] PROVE v \in W[d]
      <4>1. PICK u \in W[c] \ broken : {u, v} \in world.edges  BY <3>3, <3>5
      <4>2. v \in Adjacent(u) /\ world.kind[v] # "External"  BY <3>3, <3>5, <4>1 DEF Adjacent
      <4>3. u \in DOMAIN visited \ broken /\ visited[u].depth <= c /\ visited[u].depth < N
        BY <1>4, <3>1, <3>2, <4>1
      <4>4. Covered(v, visited[u].depth + 1)
        BY <1>1, <4>2, <4>3 DEF SearchInv, NothingMissed
      <4>5. v \in DOMAIN visited /\ visited[v].depth <= visited[u].depth + 1
        BY <1>3, <4>4 DEF Covered
      <4> QED BY <1>4, <2>1, <3>1, <4>3, <4>5
    <3>6. ASSUME NEW v \in W[d], v \notin W[c] PROVE v \in next[W[c]]
      <4>1. v \in DOMAIN visited /\ visited[v].depth = d  BY <1>4, <2>1, <3>1, <3>2, <3>6
      <4>2. Reachable(v, d)  BY <4>1 DEF SearchInv, NothingInvented
      <4>3. PICK u \in DOMAIN visited \ broken : visited[u].depth = c /\ {u, v} \in world.edges
        BY <2>3, <3>1, <4>2 DEF Reachable
      <4>4. v \in world.nodes /\ world.kind[v] # "External"  BY <2>3, <4>2 DEF Reachable
      <4>5. u \in W[c]  BY <1>4, <3>2, <4>3
      <4> QED BY <3>3, <4>3, <4>4, <4>5
    <3> QED BY <2>3, <3>1, <3>4, <3>5, <3>6
  <2> QED BY <2>2, <2>3
<1>10. \A S \in SUBSET DOMAIN visited : next[S] =
          {v \in world.nodes : world.kind[v] # "External" /\ \E u \in S \ broken : {u, v} \in world.edges}
  BY <1>7
<1> DEFINE Step(f, d) == IF d = 0 THEN seeds ELSE f[d - 1] \union
                {v \in world.nodes : world.kind[v] # "External"
                                     /\ \E u \in f[d - 1] \ broken : {u, v} \in world.edges}
<1>11. ASSUME NEW d \in 0..N PROVE W[d] = Step(W, d)
  <2>1. CASE d = 0  BY <1>9, <2>1
  <2>2. CASE d # 0
    <3>1. d - 1 \in 0..N  BY <2>2
    <3>2. W[d - 1] \in SUBSET DOMAIN visited  BY <1>8, <3>1
    <3> QED BY <1>9, <1>10, <2>2, <3>2
  <2> QED BY <2>1, <2>2
<1>12. W = [d \in 0..N |-> Step(W, d)]
  <2> HIDE DEF Step
  <2>1. W = [d \in 0..N |-> W[d]]  BY <1>8
  <2> QED BY <1>11, <2>1
<1>13. Within = [d \in 0..N |-> Step(Within, d)]
  <2>1. Within = CHOOSE f : f = [d \in 0..N |-> Step(f, d)]  BY <1>1, <1>2 DEF Within
  <2> HIDE DEF Step
  <2> QED BY <1>12, <2>1
<1>14. ASSUME NEW d \in 0..N, \A c \in 0..N : c < d => Within[c] = W[c] PROVE Within[d] = W[d]
  <2>1. Within[d] = Step(Within, d)
    <3> HIDE DEF Step
    <3> QED BY <1>13
  <2>2. CASE d = 0  BY <1>11, <2>1, <2>2
  <2>3. CASE d # 0
    <3>1. d - 1 \in 0..N /\ d - 1 < d  BY <2>3
    <3>2. Within[d - 1] = W[d - 1]  BY <1>14, <3>1
    <3> QED BY <1>11, <2>1, <2>3, <3>2
  <2> QED BY <2>2, <2>3
<1> HIDE DEF Step
<1>15. \A d \in 0..N : Within[d] = W[d]
  <2> SUFFICES ASSUME {d \in 0..N : Within[d] # W[d]} # {} PROVE FALSE  OBVIOUS
  <2>1. PICK B : B = {d \in 0..N : Within[d] # W[d]}  OBVIOUS
  <2>2. B \in SUBSET Int /\ IsFiniteSet(B)
    <3>1. IsFiniteSet(0..N)  BY FS_Interval
    <3> QED BY <2>1, <3>1, FS_Subset
  <2>3. PICK d \in B : \A k \in B : d <= k  BY <2>1, <2>2, LeastElement
  <2>4. \A c \in 0..N : c < d => Within[c] = W[c]  BY <2>1, <2>3
  <2> QED BY <1>14, <2>1, <2>3, <2>4
<1> QED BY <1>1, <1>8, <1>15

LEMMA SearchServes == SearchInv => DepthsShortest
<1> SUFFICES ASSUME SearchInv, channel["graph"] = "done"
             PROVE  /\ DOMAIN visited = Within[MaxTraversalDepth]
                    /\ \A u \in DOMAIN visited :
                          /\ u \in Within[visited[u].depth]
                          /\ visited[u].depth > 0 => u \notin Within[visited[u].depth - 1]
  BY DEF DepthsShortest
<1>1. PICK N \in Nat : N = MaxTraversalDepth  BY RetrievalAssumption
<1>2. \A u \in DOMAIN visited : visited[u].depth \in 0..N
  BY <1>1 DEF SearchInv, SearchType, Visits, DepthsOrdered
<1>3. \A d \in 0..N : Within[d] = {u \in DOMAIN visited : visited[u].depth <= d}
  BY <1>1, WithinIsVisited
<1>4. Within[N] = DOMAIN visited  BY <1>2, <1>3
<1>5. ASSUME NEW u \in DOMAIN visited, visited[u].depth > 0 PROVE u \notin Within[visited[u].depth - 1]
  <2>1. visited[u].depth - 1 \in 0..N  BY <1>2, <1>5
  <2>2. ~(visited[u].depth <= visited[u].depth - 1)  BY <1>2
  <2> QED BY <1>3, <2>1, <2>2
<1>6. \A u \in DOMAIN visited : u \in Within[visited[u].depth]  BY <1>2, <1>3
<1> QED BY <1>1, <1>4, <1>5, <1>6

---------------------------------------------------------------------------
(* Retrieval: what the channels find.                                      *)

LEMMA CandidateRecord ==
    /\ \A u \in UnitIds, c \in Channels, s \in 0..ScoreUnit, k \in Kinds : \A d :
          d \in (IF c = "graph" THEN Nat ELSE {None}) => Candidate(u, c, s, k, d) \in Candidates(c)
    /\ \A u, c, s, k, d :
          /\ Candidate(u, c, s, k, d).id = u /\ Candidate(u, c, s, k, d).channel = c
          /\ Candidate(u, c, s, k, d).score = s /\ Candidate(u, c, s, k, d).kind = k
          /\ Candidate(u, c, s, k, d).depth = d
  BY DEF Candidate, Candidates

LEMMA Clipped == \A score \in Int : Clip(score) \in 0..ScoreUnit
  BY DEF Clip, ScoreUnit

(* The vector channel: its hits, the best first.                           *)
LEMMA VectorFinds ==
    ASSUME world \in Worlds, query \in Queries, NEW points \in SUBSET world.points
    PROVE  /\ VectorHits(points) \in Seq(Candidates("vector"))
           /\ \A i, j \in DOMAIN VectorHits(points) :
                 VectorHits(points)[i].id = VectorHits(points)[j].id => i = j
<1> DEFINE kept == {u \in points : Wanted(world.kind[u]) /\ u \notin world.placeholder}
           hit == [u \in kept |-> Candidate(u, "vector", Clip(world.cosine[u]), world.kind[u], None)]
           S == {Candidate(u, "vector", Clip(world.cosine[u]), world.kind[u], None) : u \in kept}
           R == {z \in S \X S : \/ z[1].score > z[2].score
                                \/ z[1].score = z[2].score /\ z[1].id < z[2].id}
<1>1. /\ kept \in SUBSET UnitIds /\ kept \subseteq Int /\ IsFiniteSet(kept)
      /\ \A u \in kept : world.kind[u] \in Kinds /\ Clip(world.cosine[u]) \in 0..ScoreUnit
  <2>1. kept \in SUBSET world.points  OBVIOUS
  <2> HIDE DEF kept
  <2>2. IsFiniteSet(kept)  BY <2>1, Known, FS_Subset
  <2>3. \A u \in kept : world.kind[u] \in Kinds  BY <2>1, KindsKnown
  <2>4. \A u \in kept : Clip(world.cosine[u]) \in 0..ScoreUnit  BY <2>1, Known, Clipped
  <2> QED BY <2>1, <2>2, <2>3, <2>4, Known
<1>2. \A u \in kept : /\ hit[u] \in Candidates("vector") /\ hit[u].id = u
                      /\ hit[u].score \in Int
  <2> SUFFICES ASSUME NEW u \in kept
               PROVE  hit[u] \in Candidates("vector") /\ hit[u].id = u /\ hit[u].score \in Int
    OBVIOUS
  <2>1. hit[u] = Candidate(u, "vector", Clip(world.cosine[u]), world.kind[u], None)  OBVIOUS
  <2> HIDE DEF hit, kept
  <2>2. u \in UnitIds /\ world.kind[u] \in Kinds /\ Clip(world.cosine[u]) \in 0..ScoreUnit
        /\ "vector" \in Channels /\ None \in (IF "vector" = "graph" THEN Nat ELSE {None})
    BY <1>1 DEF Channels
  <2>3. hit[u] \in Candidates("vector")  BY <2>1, <2>2, CandidateRecord
  <2>4. hit[u].id = u /\ hit[u].score = Clip(world.cosine[u])  BY <2>1, CandidateRecord
  <2> QED BY <2>2, <2>3, <2>4 DEF ScoreUnit
<1>3. S = {hit[u] : u \in kept} /\ hit = [u \in kept |-> hit[u]]  OBVIOUS
<1>4. Ordered(S, LAMBDA a, b : a.score > b.score \/ (a.score = b.score /\ a.id < b.id)) = Sorted(S, R)
  <2>1. \A b \in S : {a \in S : a.score > b.score \/ (a.score = b.score /\ a.id < b.id)} = Below(S, R, b)
    <3> HIDE DEF S
    <3> QED BY DEF Below
  <2> HIDE DEF R, S
  <2>2. Ordered(S, LAMBDA a, b : a.score > b.score \/ (a.score = b.score /\ a.id < b.id))
          = [n \in 1..Cardinality(S) |-> CHOOSE b \in S :
               Cardinality({a \in S : a.score > b.score \/ (a.score = b.score /\ a.id < b.id)}) = n - 1]
    BY DEF Ordered
  <2> QED BY <2>1, <2>2 DEF Sorted
<1>5. VectorHits(points) = SubSeq(Sorted(S, R), 1, Min({query.topK, Cardinality(S)}))
  <2>1. VectorHits(points)
          = SubSeq(Ordered(S, LAMBDA a, b : a.score > b.score \/ (a.score = b.score /\ a.id < b.id)),
                   1, Min({query.topK, Cardinality(S)}))
    BY DEF VectorHits, Top
  <2> HIDE DEF R, S
  <2> QED BY <1>4, <2>1
<1>6. \A x, y \in S : <<x, y>> \in R <=> \/ x.score > y.score
                                         \/ x.score = y.score /\ x.id < y.id
  <2> HIDE DEF S
  <2> SUFFICES ASSUME NEW x \in S, NEW y \in S
               PROVE  <<x, y>> \in R <=> \/ x.score > y.score
                                         \/ x.score = y.score /\ x.id < y.id
    BY Zenon
  <2>1. <<x, y>> \in S \X S /\ <<x, y>>[1] = x /\ <<x, y>>[2] = y  OBVIOUS
  <2> QED BY <2>1, Zenon
<1> HIDE DEF hit, kept, S, R
<1>7. IsFiniteSet(S)
  <2>1. hit \in Surjection(kept, S)  BY <1>3 DEF Surjection
  <2> QED BY <1>1, <2>1, FS_Surjection
<1>8. \A x, y \in S : /\ x \in Candidates("vector") /\ x.id \in Int /\ x.score \in Int
                      /\ x.id = y.id => x = y
  BY <1>1, <1>2, <1>3
<1>9. StrictTotal(S, R)
  <2> DEFINE p == [x \in S |-> 0 - x.score]
             q == [x \in S |-> x.id]
  <2>1. p \in [S -> Int] /\ q \in [S -> Int]  BY <1>8
  <2>2. \A x, y \in S : p[x] = p[y] /\ q[x] = q[y] /\ q[x] = q[y] => x = y  BY <1>8
  <2>3. \A x, y \in S : <<x, y>> \in R <=> \/ p[x] < p[y]
                                           \/ p[x] = p[y] /\ q[x] < q[y]
                                           \/ p[x] = p[y] /\ q[x] = q[y] /\ q[x] < q[y]
    <3> SUFFICES ASSUME NEW x \in S, NEW y \in S
                 PROVE  <<x, y>> \in R <=> \/ p[x] < p[y]
                                           \/ p[x] = p[y] /\ q[x] < q[y]
                                           \/ p[x] = p[y] /\ q[x] = q[y] /\ q[x] < q[y]
      OBVIOUS
    <3>1. /\ p[x] = 0 - x.score /\ p[y] = 0 - y.score /\ q[x] = x.id /\ q[y] = y.id
          /\ x.score \in Int /\ y.score \in Int /\ x.id \in Int /\ y.id \in Int
      BY <1>8
    <3>2. <<x, y>> \in R <=> x.score > y.score \/ (x.score = y.score /\ x.id < y.id)
      BY <1>6, Zenon
    <3> HIDE DEF p, q
    <3> QED BY <3>1, <3>2
  <2> HIDE DEF p, q
  <2>4. ByKeys(S, p, q, q, R)  BY <2>1, <2>2, <2>3 DEF ByKeys
  <2> QED BY <2>4, ByNumbers
<1>10. PICK v : v = VectorHits(points)  OBVIOUS
<1>11. Part(v, S)
  <2>1. Lists(Sorted(S, R), S)  BY <1>7, <1>9, SortedLists
  <2>2. query.topK \in Nat  BY Known
  <2> QED BY <1>5, <1>10, <2>1, <2>2, FirstOf
<1>12. v \in Seq(Candidates("vector"))
  <2>1. v \in Seq(S)  BY <1>11 DEF Part
  <2> QED BY <1>8, <2>1, SeqDef
<1>13. \A i, j \in DOMAIN v : v[i].id = v[j].id => i = j  BY <1>8, <1>11 DEF Part
<1> QED BY <1>10, <1>12, <1>13

LEMMA FoundOnce ==
    ASSUME NEW c \in Channels, NEW S \in SUBSET UnitIds, NEW order, Part(order, S), NEW g,
           DOMAIN g = DOMAIN order, g = [i \in DOMAIN order |-> g[i]],
           \A i \in DOMAIN order : g[i] \in Candidates(c) /\ g[i].id = order[i]
    PROVE  g \in Seq(Candidates(c)) /\ \A i, j \in DOMAIN g : g[i].id = g[j].id => i = j
<1>1. PICK n \in Nat : n = Len(order) /\ DOMAIN order = 1..n  BY DEF Part
<1>2. g \in [1..n -> Candidates(c)]  BY <1>1
<1>3. g \in Seq(Candidates(c))  BY <1>2, FunctionIsSequence
<1> QED BY <1>3 DEF Part

(* The keyword channel: the rows that match, the newest first.             *)
LEMMA KeywordsFind ==
    ASSUME world \in Worlds, query \in Queries
    PROVE  /\ KeywordHits \in Seq(Candidates("metadata"))
           /\ \A i, j \in DOMAIN KeywordHits : KeywordHits[i].id = KeywordHits[j].id => i = j
<1> DEFINE hits == {u \in world.matches : Wanted(world.kind[u])}
           R == {z \in hits \X hits : \/ world.updated[z[1]] > world.updated[z[2]]
                                      \/ world.updated[z[1]] = world.updated[z[2]] /\ z[1] < z[2]}
           order == SubSeq(Sorted(hits, R), 1, Min({Limit, Cardinality(hits)}))
<1>1. hits \in SUBSET world.matches  OBVIOUS
<1>2. Ordered(hits, LAMBDA u, v : \/ world.updated[u] > world.updated[v]
                                  \/ world.updated[u] = world.updated[v] /\ u < v) = Sorted(hits, R)
  <2>1. \A v \in hits : {u \in hits : \/ world.updated[u] > world.updated[v]
                                      \/ world.updated[u] = world.updated[v] /\ u < v}
                          = Below(hits, R, v)
    <3> HIDE DEF hits
    <3> QED BY DEF Below
  <2> HIDE DEF R, hits
  <2>2. Ordered(hits, LAMBDA u, v : \/ world.updated[u] > world.updated[v]
                                    \/ world.updated[u] = world.updated[v] /\ u < v)
          = [n \in 1..Cardinality(hits) |-> CHOOSE v \in hits :
               Cardinality({u \in hits : \/ world.updated[u] > world.updated[v]
                                         \/ world.updated[u] = world.updated[v] /\ u < v}) = n - 1]
    BY DEF Ordered
  <2> QED BY <2>1, <2>2 DEF Sorted
<1>3. KeywordHits = [i \in DOMAIN order |-> Candidate(order[i], "metadata", ScoreUnit \div 2,
                                                      world.kind[order[i]], None)]
  <2> DEFINE top == Top(hits, Limit, LAMBDA u, v : \/ world.updated[u] > world.updated[v]
                                                   \/ world.updated[u] = world.updated[v] /\ u < v)
  <2>1. order = top
    <3> HIDE DEF R, hits
    <3> QED BY <1>2 DEF Top
  <2>2. KeywordHits = [i \in DOMAIN top |-> Candidate(top[i], "metadata", ScoreUnit \div 2,
                                                      world.kind[top[i]], None)]
    BY Zenon DEF KeywordHits
  <2> HIDE DEF order, top
  <2> QED BY <2>1, <2>2
<1>4. \A x, y \in hits : <<x, y>> \in R <=> \/ world.updated[x] > world.updated[y]
                                            \/ world.updated[x] = world.updated[y] /\ x < y
  <2> HIDE DEF hits
  <2> SUFFICES ASSUME NEW x \in hits, NEW y \in hits
               PROVE  <<x, y>> \in R <=> \/ world.updated[x] > world.updated[y]
                                         \/ world.updated[x] = world.updated[y] /\ x < y
    BY Zenon
  <2>1. <<x, y>> \in hits \X hits /\ <<x, y>>[1] = x /\ <<x, y>>[2] = y  OBVIOUS
  <2> QED BY <2>1, Zenon
<1> HIDE DEF hits, R
<1>5. IsFiniteSet(hits) /\ hits \subseteq UnitIds /\ \A u \in hits : u \in Int /\ world.updated[u] \in Int
  BY <1>1, Known, FS_Subset
<1>6. StrictTotal(hits, R)
  <2> DEFINE p == [x \in hits |-> 0 - world.updated[x]]
             q == [x \in hits |-> x]
  <2>1. p \in [hits -> Int] /\ q \in [hits -> Int]  BY <1>5
  <2>2. \A x, y \in hits : p[x] = p[y] /\ q[x] = q[y] /\ q[x] = q[y] => x = y  OBVIOUS
  <2>3. \A x, y \in hits : <<x, y>> \in R <=> \/ p[x] < p[y]
                                              \/ p[x] = p[y] /\ q[x] < q[y]
                                              \/ p[x] = p[y] /\ q[x] = q[y] /\ q[x] < q[y]
    <3> SUFFICES ASSUME NEW x \in hits, NEW y \in hits
                 PROVE  <<x, y>> \in R <=> \/ p[x] < p[y]
                                           \/ p[x] = p[y] /\ q[x] < q[y]
                                           \/ p[x] = p[y] /\ q[x] = q[y] /\ q[x] < q[y]
      OBVIOUS
    <3>1. /\ p[x] = 0 - world.updated[x] /\ p[y] = 0 - world.updated[y] /\ q[x] = x /\ q[y] = y
          /\ world.updated[x] \in Int /\ world.updated[y] \in Int /\ x \in Int /\ y \in Int
      BY <1>5
    <3>2. <<x, y>> \in R <=> \/ world.updated[x] > world.updated[y]
                             \/ world.updated[x] = world.updated[y] /\ x < y
      BY <1>4, Zenon
    <3> HIDE DEF p, q
    <3> QED BY <3>1, <3>2
  <2> HIDE DEF p, q
  <2>4. ByKeys(hits, p, q, q, R)  BY <2>1, <2>2, <2>3 DEF ByKeys
  <2> QED BY <2>4, ByNumbers
<1>7. Part(order, hits)
  <2>1. Lists(Sorted(hits, R), hits)  BY <1>5, <1>6, SortedLists
  <2>2. Limit \in Nat  BY Known DEF Limit
  <2> QED BY <2>1, <2>2, FirstOf
<1> HIDE DEF order
<1>8. \A i \in DOMAIN order : /\ KeywordHits[i] \in Candidates("metadata")
                              /\ KeywordHits[i].id = order[i]
  <2> SUFFICES ASSUME NEW i \in DOMAIN order
               PROVE  KeywordHits[i] \in Candidates("metadata") /\ KeywordHits[i].id = order[i]
    OBVIOUS
  <2>1. KeywordHits[i] = Candidate(order[i], "metadata", ScoreUnit \div 2, world.kind[order[i]], None)
    BY <1>3
  <2>2. order[i] \in hits  BY <1>7 DEF Part
  <2>3. /\ order[i] \in UnitIds /\ "metadata" \in Channels /\ ScoreUnit \div 2 \in 0..ScoreUnit
        /\ None \in (IF "metadata" = "graph" THEN Nat ELSE {None})
    BY <1>5, <2>2 DEF Channels, ScoreUnit
  <2>4. world.kind[order[i]] \in Kinds  BY <1>1, <2>2, KindsKnown
  <2>5. Candidate(order[i], "metadata", ScoreUnit \div 2, world.kind[order[i]], None) \in Candidates("metadata")
    BY <2>3, <2>4, CandidateRecord
  <2> QED BY <2>1, <2>5, CandidateRecord
<1>9. PICK k : k = KeywordHits  OBVIOUS
<1>10. DOMAIN k = DOMAIN order /\ k = [i \in DOMAIN order |-> k[i]]  BY <1>3, <1>9
<1>11. hits \in SUBSET UnitIds /\ "metadata" \in Channels  BY <1>5 DEF Channels
<1> QED BY <1>7, <1>8, <1>9, <1>10, <1>11, FoundOnce

LEMMA Proximate == \A d \in Nat : Proximity(d) \in 0..ScoreUnit
<1> SUFFICES ASSUME NEW d \in Nat PROVE Proximity(d) \in 0..ScoreUnit  OBVIOUS
<1>1. CASE d <= 0  BY <1>1 DEF Proximity, ScoreUnit
<1>2. CASE ~(d <= 0)
  <2>1. 12 \div (1 + d) \in 0..12  BY <1>2
  <2> QED BY <1>2, <2>1 DEF Proximity, ScoreUnit
<1> QED BY <1>1, <1>2

(* The graph channel: what was visited, the nearest first.                 *)
LEMMA GraphFinds ==
    ASSUME SearchInv, GraphReturn
    PROVE  /\ found' = [found EXCEPT !["graph"] = found'["graph"]]
           /\ DOMAIN found = Channels =>
                 /\ found'["graph"] \in Seq(Candidates("graph"))
                 /\ \A i, j \in DOMAIN found'["graph"] :
                       found'["graph"][i].id = found'["graph"][j].id => i = j
<1> DEFINE S == DOMAIN visited
           R == {z \in S \X S : \/ visited[z[1]].depth < visited[z[2]].depth
                                \/ visited[z[1]].depth = visited[z[2]].depth /\ z[1] < z[2]}
           order == Ordered(S, LAMBDA u, v : \/ visited[u].depth < visited[v].depth
                                             \/ visited[u].depth = visited[v].depth /\ u < v)
           g == [i \in DOMAIN order |-> Candidate(order[i], "graph", Proximity(visited[order[i]].depth),
                                                  visited[order[i]].kind, visited[order[i]].depth)]
<1>1. /\ IsFiniteSet(S) /\ S \in SUBSET UnitIds /\ S \subseteq Int
      /\ \A u \in S : visited[u].depth \in Nat /\ visited[u].kind \in Kinds
  <2>1. world \in Worlds /\ query \in Queries /\ visited \in [S -> Visits]
        /\ IsFiniteSet(S) /\ S \subseteq UnitIds
    BY DEF SearchInv, SearchType
  <2> HIDE DEF S
  <2> QED BY <2>1, Known DEF Visits
<1>2. order = Sorted(S, R)
  <2>1. \A v \in S : {u \in S : \/ visited[u].depth < visited[v].depth
                                \/ visited[u].depth = visited[v].depth /\ u < v} = Below(S, R, v)
    <3> HIDE DEF S
    <3> QED BY DEF Below
  <2> HIDE DEF R, S
  <2>2. order = [n \in 1..Cardinality(S) |-> CHOOSE v \in S :
               Cardinality({u \in S : \/ visited[u].depth < visited[v].depth
                                      \/ visited[u].depth = visited[v].depth /\ u < v}) = n - 1]
    BY DEF Ordered
  <2> QED BY <2>1, <2>2 DEF Sorted
<1>3. found' = [found EXCEPT !["graph"] = g]  BY DEF GraphReturn, Returns
<1>4. \A x, y \in S : <<x, y>> \in R <=> \/ visited[x].depth < visited[y].depth
                                         \/ visited[x].depth = visited[y].depth /\ x < y
  <2> HIDE DEF S
  <2> SUFFICES ASSUME NEW x \in S, NEW y \in S
               PROVE  <<x, y>> \in R <=> \/ visited[x].depth < visited[y].depth
                                         \/ visited[x].depth = visited[y].depth /\ x < y
    BY Zenon
  <2>1. <<x, y>> \in S \X S /\ <<x, y>>[1] = x /\ <<x, y>>[2] = y  OBVIOUS
  <2> QED BY <2>1, Zenon
<1> HIDE DEF S, R
<1>5. StrictTotal(S, R)
  <2> DEFINE p == [x \in S |-> visited[x].depth]
             q == [x \in S |-> x]
  <2>1. p \in [S -> Int] /\ q \in [S -> Int]  BY <1>1
  <2>2. \A x, y \in S : p[x] = p[y] /\ q[x] = q[y] /\ q[x] = q[y] => x = y  OBVIOUS
  <2>3. \A x, y \in S : <<x, y>> \in R <=> \/ p[x] < p[y]
                                           \/ p[x] = p[y] /\ q[x] < q[y]
                                           \/ p[x] = p[y] /\ q[x] = q[y] /\ q[x] < q[y]
    <3> SUFFICES ASSUME NEW x \in S, NEW y \in S
                 PROVE  <<x, y>> \in R <=> \/ p[x] < p[y]
                                           \/ p[x] = p[y] /\ q[x] < q[y]
                                           \/ p[x] = p[y] /\ q[x] = q[y] /\ q[x] < q[y]
      OBVIOUS
    <3>1. /\ p[x] = visited[x].depth /\ p[y] = visited[y].depth /\ q[x] = x /\ q[y] = y
          /\ visited[x].depth \in Int /\ visited[y].depth \in Int /\ x \in Int /\ y \in Int
      BY <1>1
    <3>2. <<x, y>> \in R <=> \/ visited[x].depth < visited[y].depth
                             \/ visited[x].depth = visited[y].depth /\ x < y
      BY <1>4, Zenon
    <3> HIDE DEF p, q
    <3> QED BY <3>1, <3>2
  <2> HIDE DEF p, q
  <2>4. ByKeys(S, p, q, q, R)  BY <2>1, <2>2, <2>3 DEF ByKeys
  <2> QED BY <2>4, ByNumbers
<1>6. Part(order, S)
  <2>1. Lists(Sorted(S, R), S)  BY <1>1, <1>5, SortedLists
  <2> HIDE DEF order
  <2> QED BY <1>2, <2>1 DEF Lists, Part
<1> HIDE DEF order
<1>7. \A i \in DOMAIN order : g[i] \in Candidates("graph") /\ g[i].id = order[i]
  <2> SUFFICES ASSUME NEW i \in DOMAIN order
               PROVE  g[i] \in Candidates("graph") /\ g[i].id = order[i]
    OBVIOUS
  <2>1. g[i] = Candidate(order[i], "graph", Proximity(visited[order[i]].depth),
                         visited[order[i]].kind, visited[order[i]].depth)
    OBVIOUS
  <2> HIDE DEF g
  <2>2. order[i] \in S  BY <1>6 DEF Part
  <2>3. /\ order[i] \in UnitIds /\ "graph" \in Channels
        /\ visited[order[i]].kind \in Kinds
        /\ visited[order[i]].depth \in (IF "graph" = "graph" THEN Nat ELSE {None})
        /\ Proximity(visited[order[i]].depth) \in 0..ScoreUnit
    BY <1>1, <2>2, Proximate DEF Channels
  <2>4. Candidate(order[i], "graph", Proximity(visited[order[i]].depth),
                  visited[order[i]].kind, visited[order[i]].depth) \in Candidates("graph")
    BY <2>3, CandidateRecord
  <2> QED BY <2>1, <2>4, CandidateRecord
<1>8. DOMAIN g = DOMAIN order /\ g = [i \in DOMAIN order |-> g[i]]  OBVIOUS
<1> HIDE DEF g
<1>9. g \in Seq(Candidates("graph")) /\ \A i, j \in DOMAIN g : g[i].id = g[j].id => i = j
  <2>1. "graph" \in Channels  BY DEF Channels
  <2> QED BY <1>1, <1>6, <1>7, <1>8, <2>1, FoundOnce
<1>10. PICK h : h = found'  OBVIOUS
<1>11. h = [found EXCEPT !["graph"] = g]  BY <1>3, <1>10
<1>12. DOMAIN found = Channels => h["graph"] = g  BY <1>11 DEF Channels
<1>13. h = [found EXCEPT !["graph"] = h["graph"]]
  <2>1. CASE "graph" \in DOMAIN found
    <3>1. h["graph"] = g  BY <1>11, <2>1
    <3> QED BY <1>11, <3>1
  <2>2. CASE "graph" \notin DOMAIN found  BY <1>11, <2>2
  <2> QED BY <2>1, <2>2
<1> QED BY <1>9, <1>10, <1>12, <1>13

LEMMA FoundStarts == RetrievalInit => FoundInv
<1> SUFFICES ASSUME RetrievalInit PROVE FoundInv  OBVIOUS
<1>1. DOMAIN found = Channels /\ \A c \in Channels : found[c] = <<>>  BY DEF RetrievalInit
<1>2. ASSUME NEW c \in Channels
      PROVE  /\ found[c] \in Seq(Candidates(c))
             /\ \A i, j \in DOMAIN found[c] : found[c][i].id = found[c][j].id => i = j
  <2>1. DOMAIN found[c] = {}  BY <1>1
  <2>2. found[c] \in Seq(Candidates(c))
    <3>1. <<>> \in Seq(Candidates(c))  OBVIOUS
    <3> QED BY <1>1, <3>1
  <2> QED BY <2>1, <2>2
<1> QED BY <1>1, <1>2 DEF FoundInv

\* A list of what a channel finds, each unit once.
Finds(g, c) == g \in Seq(Candidates(c)) /\ \A i, j \in DOMAIN g : g[i].id = g[j].id => i = j

LEMMA FoundKeeps == SearchInv /\ FoundInv /\ [RetrievalNext]_retrievalVars => FoundInv'
<1> SUFFICES ASSUME SearchInv, FoundInv, [RetrievalNext]_retrievalVars PROVE FoundInv'  OBVIOUS
<1>1. world \in Worlds /\ query \in Queries  BY DEF SearchInv, SearchType
<1>2. DOMAIN found = Channels /\ \A c \in Channels : Finds(found[c], c)  BY DEF FoundInv, Finds
<1>3. world' = world /\ query' = query
  BY DEF RetrievalNext, PlanRun, VectorSearch, MetadataSearch, GraphStart, GraphStep, GraphReturn,
         Respond, retrievalVars
<1>4. UnitIds' = UnitIds  BY <1>3 DEF UnitIds
<1>5. \A c : Candidates(c)' = Candidates(c)  BY <1>4 DEF Candidates
<1>6. DOMAIN found' = Channels /\ \A c \in Channels : Finds(found'[c], c)
  <2>1. ASSUME NEW c \in Channels, NEW g, Finds(g, c), found' = [found EXCEPT ![c] = g]
        PROVE  DOMAIN found' = Channels /\ \A d \in Channels : Finds(found'[d], d)
    BY <1>2, <2>1
  <2>2. Finds(<<>>, "vector") /\ Finds(<<>>, "metadata")
    <3>1. \A c : <<>> \in Seq(Candidates(c)) /\ DOMAIN <<>> = {}  OBVIOUS
    <3> QED BY <3>1 DEF Finds
  <2>3. CASE VectorSearch
    <3>1. \/ found' = [found EXCEPT !["vector"] = <<>>]
          \/ \E points \in SUBSET world.points : found' = [found EXCEPT !["vector"] = VectorHits(points)]
      BY <2>3 DEF VectorSearch, Raises, Returns
    <3>2. \A points \in SUBSET world.points : Finds(VectorHits(points), "vector")
      BY <1>1, VectorFinds DEF Finds
    <3>3. "vector" \in Channels  BY DEF Channels
    <3> QED BY <2>1, <2>2, <3>1, <3>2, <3>3
  <2>4. CASE MetadataSearch
    <3>1. \E hits \in {KeywordHits, <<>>} : found' = [found EXCEPT !["metadata"] = hits]
      BY <2>4 DEF MetadataSearch, Returns
    <3>2. Finds(KeywordHits, "metadata")  BY <1>1, KeywordsFind DEF Finds
    <3>3. "metadata" \in Channels  BY DEF Channels
    <3> QED BY <2>1, <2>2, <3>1, <3>2, <3>3
  <2>5. CASE GraphReturn
    <3>1. Finds(found'["graph"], "graph") /\ found' = [found EXCEPT !["graph"] = found'["graph"]]
      BY <1>2, <2>5, GraphFinds DEF Finds
    <3>2. PICK g : g = found'["graph"]  OBVIOUS
    <3>3. "graph" \in Channels /\ Finds(g, "graph") /\ found' = [found EXCEPT !["graph"] = g]
      BY <3>1, <3>2 DEF Channels
    <3> QED BY <2>1, <3>3
  <2>6. CASE PlanRun \/ GraphStart \/ GraphStep \/ Respond \/ UNCHANGED retrievalVars
    <3>1. found' = found
      BY <2>6 DEF PlanRun, GraphStart, GraphStep, Respond, retrievalVars
    <3> QED BY <1>2, <3>1
  <2> QED BY <2>3, <2>4, <2>5, <2>6 DEF RetrievalNext
<1> QED BY <1>5, <1>6 DEF FoundInv, Finds

---------------------------------------------------------------------------
(* Retrieval: the score of a unit.                                         *)

Together(hits) == ToSet(hits["graph"]) \union ToSet(hits["metadata"]) \union ToSet(hits["vector"])

LEMMA TogetherHas ==
    ASSUME world \in Worlds, query \in Queries,
           NEW hits, DOMAIN hits = Channels, \A c \in Channels : Finds(hits[c], c)
    PROVE  /\ IsFiniteSet(Together(hits))
           /\ \A c \in Channels : ToSet(hits[c]) \subseteq Candidates(c)
           /\ \A x \in Together(hits) :
                 /\ x.channel \in Channels /\ x.id \in Int /\ x.id \in UnitIds
                 /\ x \in ToSet(hits[x.channel])
           /\ \A x, y \in Together(hits) : x.channel = y.channel /\ x.id = y.id => x = y
<1>1. \A c \in Channels : IsFiniteSet(ToSet(hits[c])) /\ ToSet(hits[c]) \subseteq Candidates(c)
  <2> SUFFICES ASSUME NEW c \in Channels
               PROVE  IsFiniteSet(ToSet(hits[c])) /\ ToSet(hits[c]) \subseteq Candidates(c)
    OBVIOUS
  <2>1. hits[c] \in Seq(Candidates(c))  BY DEF Finds
  <2> QED BY <2>1, ListOfFinite
<1>2. \A c \in Channels : \A x \in ToSet(hits[c]) : x.channel = c /\ x.id \in UnitIds
  BY <1>1 DEF Candidates
<1>3. Channels = {"graph", "metadata", "vector"}  BY DEF Channels
<1>4. IsFiniteSet(Together(hits))  BY <1>1, <1>3, FS_Union DEF Together
<1>5. \A x \in Together(hits) : \E c \in Channels : x \in ToSet(hits[c])  BY <1>3 DEF Together
<1>6. \A x \in Together(hits) : x.channel \in Channels /\ x.id \in UnitIds /\ x \in ToSet(hits[x.channel])
  BY <1>2, <1>5
<1>7. \A x \in Together(hits) : x.id \in Int  BY <1>6, Known
<1>8. \A c \in Channels : \A x, y \in ToSet(hits[c]) : x.id = y.id => x = y  BY DEF Finds, ToSet
<1>9. \A x, y \in Together(hits) : x.channel = y.channel /\ x.id = y.id => x = y  BY <1>6, <1>8
<1> QED BY <1>1, <1>4, <1>6, <1>7, <1>9

(* The fusion lists every candidate once.                                  *)
LEMMA FusedLists ==
    ASSUME world \in Worlds, query \in Queries,
           NEW hits, DOMAIN hits = Channels, \A c \in Channels : Finds(hits[c], c)
    PROVE  Lists(Fused(hits), Together(hits))
<1> DEFINE S == Together(hits)
           R == {z \in S \X S : \/ z[1].channel # z[2].channel /\ z[1].channel = "graph"
                                \/ z[1].channel = "metadata" /\ z[2].channel = "vector"
                                \/ z[1].channel = z[2].channel /\ z[1].id < z[2].id}
<1>1. /\ IsFiniteSet(S) /\ \A x \in S : x.channel \in {"graph", "metadata", "vector"} /\ x.id \in Int
      /\ \A x, y \in S : x.channel = y.channel /\ x.id = y.id => x = y
  BY TogetherHas DEF Channels
<1>2. Fused(hits) = Sorted(S, R)
  <2>1. \A b \in S : {a \in S : \/ a.channel # b.channel /\ a.channel = "graph"
                                \/ a.channel = "metadata" /\ b.channel = "vector"
                                \/ a.channel = b.channel /\ a.id < b.id} = Below(S, R, b)
    <3> HIDE DEF S
    <3> QED BY DEF Below
  <2>2. Fused(hits) = [n \in 1..Cardinality(S) |-> CHOOSE b \in S :
              Cardinality({a \in S : \/ a.channel # b.channel /\ a.channel = "graph"
                                     \/ a.channel = "metadata" /\ b.channel = "vector"
                                     \/ a.channel = b.channel /\ a.id < b.id}) = n - 1]
    BY DEF Fused, Ordered, Together
  <2> HIDE DEF R, S
  <2> QED BY <2>1, <2>2 DEF Sorted
<1>3. \A x, y \in S : <<x, y>> \in R <=> \/ x.channel # y.channel /\ x.channel = "graph"
                                         \/ x.channel = "metadata" /\ y.channel = "vector"
                                         \/ x.channel = y.channel /\ x.id < y.id
  <2> HIDE DEF S
  <2> SUFFICES ASSUME NEW x \in S, NEW y \in S
               PROVE  <<x, y>> \in R <=> \/ x.channel # y.channel /\ x.channel = "graph"
                                         \/ x.channel = "metadata" /\ y.channel = "vector"
                                         \/ x.channel = y.channel /\ x.id < y.id
    BY Zenon
  <2>1. <<x, y>> \in S \X S /\ <<x, y>>[1] = x /\ <<x, y>>[2] = y  OBVIOUS
  <2> QED BY <2>1, Zenon
<1> HIDE DEF S, R
<1>4. StrictTotal(S, R)
  <2> DEFINE p == [x \in S |-> IF x.channel = "graph" THEN 0 ELSE IF x.channel = "metadata" THEN 1 ELSE 2]
             q == [x \in S |-> x.id]
  <2>1. p \in [S -> Int] /\ q \in [S -> Int]  BY <1>1
  <2>2. \A x, y \in S : p[x] = p[y] /\ q[x] = q[y] /\ q[x] = q[y] => x = y
    <3> SUFFICES ASSUME NEW x \in S, NEW y \in S, p[x] = p[y], q[x] = q[y] PROVE x = y  OBVIOUS
    <3>1. x.id = y.id  OBVIOUS
    <3>2. x.channel = y.channel  BY <1>1
    <3> QED BY <1>1, <3>1, <3>2
  <2>3. \A x, y \in S : <<x, y>> \in R <=> \/ p[x] < p[y]
                                           \/ p[x] = p[y] /\ q[x] < q[y]
                                           \/ p[x] = p[y] /\ q[x] = q[y] /\ q[x] < q[y]
    <3> SUFFICES ASSUME NEW x \in S, NEW y \in S
                 PROVE  <<x, y>> \in R <=> \/ p[x] < p[y]
                                           \/ p[x] = p[y] /\ q[x] < q[y]
                                           \/ p[x] = p[y] /\ q[x] = q[y] /\ q[x] < q[y]
      OBVIOUS
    <3>1. /\ q[x] = x.id /\ q[y] = y.id /\ x.id \in Int /\ y.id \in Int
          /\ p[x] = IF x.channel = "graph" THEN 0 ELSE IF x.channel = "metadata" THEN 1 ELSE 2
          /\ p[y] = IF y.channel = "graph" THEN 0 ELSE IF y.channel = "metadata" THEN 1 ELSE 2
          /\ x.channel \in {"graph", "metadata", "vector"} /\ y.channel \in {"graph", "metadata", "vector"}
      BY <1>1
    <3>2. <<x, y>> \in R <=> \/ x.channel # y.channel /\ x.channel = "graph"
                             \/ x.channel = "metadata" /\ y.channel = "vector"
                             \/ x.channel = y.channel /\ x.id < y.id
      BY <1>3, Zenon
    <3> HIDE DEF p, q
    <3>3. CASE x.channel = "graph"  BY <3>1, <3>2, <3>3
    <3>4. CASE x.channel = "metadata"  BY <3>1, <3>2, <3>4
    <3>5. CASE x.channel = "vector"  BY <3>1, <3>2, <3>5
    <3> QED BY <3>1, <3>3, <3>4, <3>5
  <2> HIDE DEF p, q
  <2>4. ByKeys(S, p, q, q, R)  BY <2>1, <2>2, <2>3 DEF ByKeys
  <2> QED BY <2>4, ByNumbers
<1> QED BY <1>1, <1>2, <1>4, SortedLists DEF S

(* A channel says at most one thing of a unit.                             *)
LEMMA OfOne ==
    ASSUME world \in Worlds, query \in Queries,
           NEW hits, DOMAIN hits = Channels, \A c \in Channels : Finds(hits[c], c),
           NEW u, NEW c \in Channels
    PROVE  /\ Of(Fused(hits), u, c) = {x \in ToSet(hits[c]) : x.id = u}
           /\ \/ Of(Fused(hits), u, c) = {}
              \/ \E x \in Candidates(c) : Of(Fused(hits), u, c) = {x}
<1>1. ToSet(Fused(hits)) = Together(hits)  BY FusedLists, ListsHas
<1>2. \A x \in ToSet(hits[c]) : x \in Together(hits) /\ x.channel = c
  <2>1. ToSet(hits[c]) \subseteq Candidates(c)  BY TogetherHas
  <2>2. ToSet(hits[c]) \subseteq Together(hits)  BY DEF Together, Channels
  <2> QED BY <2>1, <2>2 DEF Candidates
<1>3. \A x \in Together(hits) : x.channel = c => x \in ToSet(hits[c])  BY TogetherHas
<1>4. Of(Fused(hits), u, c) = {x \in ToSet(hits[c]) : x.id = u}
  BY <1>1, <1>2, <1>3 DEF Of
<1>5. \A x, y \in Of(Fused(hits), u, c) : x = y
  <2>1. \A x, y \in Together(hits) : x.channel = y.channel /\ x.id = y.id => x = y
    BY TogetherHas
  <2> QED BY <1>1, <2>1 DEF Of
<1>6. Of(Fused(hits), u, c) \subseteq Candidates(c)
  <2>1. ToSet(hits[c]) \subseteq Candidates(c)  BY TogetherHas
  <2> QED BY <1>4, <2>1
<1> QED BY <1>4, <1>5, <1>6

\* What a unit has of its vector, its keyword and its graph candidate.
Evidence(candidates, u, c) == Best({x.score : x \in Of(candidates, u, c)})

Nearness(candidates, u) ==
    LET depths == {x.depth : x \in Of(candidates, u, "graph")} IN
    IF depths = {} THEN 0 ELSE Proximity(Min(depths))

LEMMA EvidenceBounded ==
    ASSUME world \in Worlds, query \in Queries,
           NEW hits, DOMAIN hits = Channels, \A c \in Channels : Finds(hits[c], c), NEW u
    PROVE  /\ \A c \in Channels : Evidence(Fused(hits), u, c) \in 0..ScoreUnit
           /\ \A c \in Channels : Of(Fused(hits), u, c) = {} => Evidence(Fused(hits), u, c) = 0
           /\ Nearness(Fused(hits), u) \in 0..ScoreUnit
           /\ Of(Fused(hits), u, "graph") = {} => Nearness(Fused(hits), u) = 0
<1>1. ASSUME NEW c \in Channels, Of(Fused(hits), u, c) = {} PROVE Evidence(Fused(hits), u, c) = 0
  <2>1. {x.score : x \in Of(Fused(hits), u, c)} = {}  BY <1>1
  <2> QED BY <2>1 DEF Evidence, Best
<1>2. 0 \in 0..ScoreUnit  BY DEF ScoreUnit
<1>3. ASSUME NEW c \in Channels PROVE Evidence(Fused(hits), u, c) \in 0..ScoreUnit
  <2>1. CASE Of(Fused(hits), u, c) = {}  BY <1>1, <1>2, <2>1
  <2>2. CASE \E x \in Candidates(c) : Of(Fused(hits), u, c) = {x}
    <3>1. PICK x \in Candidates(c) : Of(Fused(hits), u, c) = {x}  BY <2>2
    <3>2. x.score \in 0..ScoreUnit /\ x.score \in Int  BY DEF Candidates, ScoreUnit
    <3>3. PICK n \in Int : n = x.score  BY <3>2
    <3>4. {y.score : y \in Of(Fused(hits), u, c)} = {n, n}  BY <3>1, <3>3
    <3>5. Max({n, n}) = n  BY GreaterOfTwo
    <3>6. Evidence(Fused(hits), u, c) = Best({n, n})  BY <3>4 DEF Evidence
    <3>7. Best({n, n}) = Max({n, n})  BY DEF Best
    <3> QED BY <3>2, <3>3, <3>5, <3>6, <3>7
  <2> QED BY <2>1, <2>2, OfOne
<1>4. "graph" \in Channels  BY DEF Channels
<1>5. CASE Of(Fused(hits), u, "graph") = {}
  <2>1. {x.depth : x \in Of(Fused(hits), u, "graph")} = {}  BY <1>5
  <2>2. Nearness(Fused(hits), u) = 0  BY <2>1 DEF Nearness
  <2> QED BY <1>1, <1>2, <1>3, <2>2
<1>6. CASE Of(Fused(hits), u, "graph") # {}
  <2>1. PICK x \in Candidates("graph") : Of(Fused(hits), u, "graph") = {x}  BY <1>4, <1>6, OfOne
  <2>2. PICK d \in Nat : d = x.depth  BY DEF Candidates
  <2>3. {y.depth : y \in Of(Fused(hits), u, "graph")} = {d, d}  BY <2>1, <2>2
  <2>4. Min({d, d}) = d  BY LesserOfTwo
  <2>5. Nearness(Fused(hits), u) = Proximity(d)  BY <2>3, <2>4 DEF Nearness
  <2>6. Nearness(Fused(hits), u) \in 0..ScoreUnit  BY <2>5, Proximate
  <2> QED BY <1>1, <1>3, <1>6, <2>6
<1> QED BY <1>5, <1>6

LEMMA ScoreIs ==
    ASSUME NEW candidates, NEW u, NEW v \in 0..ScoreUnit, NEW k \in 0..ScoreUnit, NEW g \in 0..ScoreUnit,
           v = Evidence(candidates, u, "vector"), k = Evidence(candidates, u, "metadata"),
           g = Nearness(candidates, u)
    PROVE  Scored(candidates, u) = 35 * (IF k > v THEN k ELSE v) + 25 * g
<1>1. v \in Int /\ k \in Int /\ g \in Int  BY DEF ScoreUnit
<1>2. Clip(v) = v  BY DEF Clip, ScoreUnit
<1> DEFINE prov == GroupByUnit(candidates, u)
<1>3. /\ prov.cosine = v /\ prov.keyword = k
      /\ prov.depths = {x.depth : x \in Of(candidates, u, "graph")}
  BY DEF GroupByUnit, Evidence
<1> HIDE DEF prov
<1>4. Semantic(prov) = IF k > v THEN k ELSE v
  <2>1. Max({v, k}) = IF k > v THEN k ELSE v  BY <1>1, GreaterOfTwo
  <2> QED BY <1>2, <1>3, <2>1 DEF Semantic
<1>5. (IF prov.depths = {} THEN 0 ELSE Proximity(Min(prov.depths))) = g  BY <1>3 DEF Nearness
<1>6. PICK m \in Int : m = (IF k > v THEN k ELSE v)  BY <1>1
<1>7. DefaultFeatures(prov) = [semantic |-> m, graph |-> g, recency |-> 0, importance |-> 0, feedback |-> 0]
  BY <1>4, <1>5, <1>6 DEF DefaultFeatures
<1>8. FinalScore([semantic |-> m, graph |-> g, recency |-> 0, importance |-> 0, feedback |-> 0])
        = 35 * m + 25 * g
  <2>1. 35 * m + 25 * g + 20 * 0 + 15 * 0 + 5 * 0 = 35 * m + 25 * g  BY <1>1
  <2> QED BY <2>1 DEF FinalScore, Weight
<1>9. Scored(candidates, u) = FinalScore(DefaultFeatures(prov))  BY DEF Scored, prov
<1> QED BY <1>6, <1>7, <1>8, <1>9

LEMMA LossServes == SearchInv /\ FoundInv => LossNeverRaises
<1> SUFFICES ASSUME SearchInv, FoundInv, NEW c \in Channels
             PROVE  LET all  == ScoresOf(found)
                        less == ScoresOf([found EXCEPT ![c] = <<>>]) IN
                    DOMAIN less \subseteq DOMAIN all /\ \A u \in DOMAIN less : less[u] <= all[u]
  BY DEF LossNeverRaises
<1>1. world \in Worlds /\ query \in Queries  BY DEF SearchInv, SearchType
<1>2. DOMAIN found = Channels /\ \A d \in Channels : Finds(found[d], d)  BY DEF FoundInv, Finds
<1>3. PICK lost : lost = [found EXCEPT ![c] = <<>>]  OBVIOUS
<1>4. /\ DOMAIN lost = Channels /\ \A d \in Channels : Finds(lost[d], d)
      /\ \A d \in Channels : lost[d] = IF d = c THEN <<>> ELSE found[d]
  <2>1. Finds(<<>>, c)
    <3>1. <<>> \in Seq(Candidates(c)) /\ DOMAIN <<>> = {}  OBVIOUS
    <3> QED BY <3>1 DEF Finds
  <2> QED BY <1>2, <1>3, <2>1
<1>5. ASSUME NEW u, NEW d \in Channels
      PROVE  Of(Fused(lost), u, d) = IF d = c THEN {} ELSE Of(Fused(found), u, d)
  <2>1. Of(Fused(lost), u, d) = {x \in ToSet(lost[d]) : x.id = u}  BY <1>1, <1>4, OfOne
  <2>2. Of(Fused(found), u, d) = {x \in ToSet(found[d]) : x.id = u}  BY <1>1, <1>2, OfOne
  <2>3. ToSet(lost[d]) = IF d = c THEN {} ELSE ToSet(found[d])
    <3>1. ToSet(<<>>) = {}  BY DEF ToSet
    <3> QED BY <1>4, <3>1
  <2> QED BY <2>1, <2>2, <2>3
<1>6. UnitsOf(Fused(lost)) \subseteq UnitsOf(Fused(found))
  <2>1. ToSet(Fused(lost)) = Together(lost) /\ ToSet(Fused(found)) = Together(found)
    BY <1>1, <1>2, <1>4, FusedLists, ListsHas
  <2>2. Together(lost) \subseteq Together(found)
    <3>1. \A d \in Channels : ToSet(lost[d]) \subseteq ToSet(found[d])
      <4>1. ToSet(<<>>) = {}  BY DEF ToSet
      <4> QED BY <1>4, <4>1
    <3> QED BY <3>1 DEF Together, Channels
  <2> QED BY <2>1, <2>2 DEF UnitsOf
<1>7. ASSUME NEW u PROVE Scored(Fused(lost), u) <= Scored(Fused(found), u)
  <2>1. /\ \A d \in Channels : Evidence(Fused(found), u, d) \in 0..ScoreUnit
        /\ Nearness(Fused(found), u) \in 0..ScoreUnit
    BY <1>1, <1>2, EvidenceBounded
  <2>2. /\ \A d \in Channels : Evidence(Fused(lost), u, d) \in 0..ScoreUnit
        /\ \A d \in Channels : Of(Fused(lost), u, d) = {} => Evidence(Fused(lost), u, d) = 0
        /\ Nearness(Fused(lost), u) \in 0..ScoreUnit
        /\ Of(Fused(lost), u, "graph") = {} => Nearness(Fused(lost), u) = 0
    BY <1>1, <1>4, EvidenceBounded
  <2>3. \A d \in Channels : Evidence(Fused(lost), u, d) \in {0, Evidence(Fused(found), u, d)}
    <3> SUFFICES ASSUME NEW d \in Channels
                 PROVE  Evidence(Fused(lost), u, d) \in {0, Evidence(Fused(found), u, d)}
      OBVIOUS
    <3>1. CASE d = c  BY <1>5, <2>2, <3>1
    <3>2. CASE d # c
      <4>1. Of(Fused(lost), u, d) = Of(Fused(found), u, d)  BY <1>5, <3>2
      <4> QED BY <4>1 DEF Evidence
    <3> QED BY <3>1, <3>2
  <2>4. Nearness(Fused(lost), u) \in {0, Nearness(Fused(found), u)}
    <3>0. "graph" \in Channels  BY DEF Channels
    <3>1. CASE "graph" = c  BY <1>5, <2>2, <3>0, <3>1
    <3>2. CASE "graph" # c
      <4>1. Of(Fused(lost), u, "graph") = Of(Fused(found), u, "graph")  BY <1>5, <3>0, <3>2
      <4> QED BY <4>1 DEF Nearness
    <3> QED BY <3>1, <3>2
  <2>5. "vector" \in Channels /\ "metadata" \in Channels  BY DEF Channels
  <2>6. PICK v \in 0..ScoreUnit : v = Evidence(Fused(found), u, "vector")  BY <2>1, <2>5
  <2>7. PICK k \in 0..ScoreUnit : k = Evidence(Fused(found), u, "metadata")  BY <2>1, <2>5
  <2>8. PICK g \in 0..ScoreUnit : g = Nearness(Fused(found), u)  BY <2>1
  <2>9. PICK w \in 0..ScoreUnit : w = Evidence(Fused(lost), u, "vector") /\ w \in {0, v}
    BY <2>2, <2>3, <2>5, <2>6
  <2>10. PICK l \in 0..ScoreUnit : l = Evidence(Fused(lost), u, "metadata") /\ l \in {0, k}
    BY <2>2, <2>3, <2>5, <2>7
  <2>11. PICK h \in 0..ScoreUnit : h = Nearness(Fused(lost), u) /\ h \in {0, g}  BY <2>2, <2>4, <2>8
  <2>12. Scored(Fused(found), u) = 35 * (IF k > v THEN k ELSE v) + 25 * g
    BY <2>6, <2>7, <2>8, ScoreIs
  <2>13. Scored(Fused(lost), u) = 35 * (IF l > w THEN l ELSE w) + 25 * h
    BY <2>9, <2>10, <2>11, ScoreIs
  <2>14. 35 * (IF l > w THEN l ELSE w) + 25 * h <= 35 * (IF k > v THEN k ELSE v) + 25 * g
    BY <2>9, <2>10, <2>11, SMTT(30) DEF ScoreUnit
  <2> QED BY <2>12, <2>13, <2>14
<1>8. /\ DOMAIN ScoresOf(found) = UnitsOf(Fused(found))
      /\ \A u \in UnitsOf(Fused(found)) : ScoresOf(found)[u] = Scored(Fused(found), u)
      /\ DOMAIN ScoresOf(lost) = UnitsOf(Fused(lost))
      /\ \A u \in UnitsOf(Fused(lost)) : ScoresOf(lost)[u] = Scored(Fused(lost), u)
  BY DEF ScoresOf
<1> QED BY <1>3, <1>6, <1>7, <1>8

---------------------------------------------------------------------------
(* Retrieval: the packet.                                                  *)

LEMMA RoomIs ==
    ASSUME NEW order, NEW n \in Nat, n = Len(order),
           \A k \in 1..n : ApproxTokens(order[k]) \in Nat
    PROVE  /\ Room(order)[0] = MaxContextTokens
           /\ \A k \in 1..n : Room(order)[k] =
                 IF ApproxTokens(order[k]) > Room(order)[k - 1] THEN Room(order)[k - 1]
                 ELSE Room(order)[k - 1] - ApproxTokens(order[k])
           /\ \A k \in 0..n : Room(order)[k] \in 0..MaxContextTokens
<1>1. PICK M \in Nat : M = MaxContextTokens  BY RetrievalAssumption
<1>2. PICK t \in [1..n -> Nat] : \A k \in 1..n : t[k] = ApproxTokens(order[k])
  <2> DEFINE t == [k \in 1..n |-> ApproxTokens(order[k])]
  <2>1. t \in [1..n -> Nat] /\ \A k \in 1..n : t[k] = ApproxTokens(order[k])  OBVIOUS
  <2> QED BY <2>1
<1>3. PICK room \in [0..n -> Int] :
         /\ room[0] = M
         /\ \A k \in 1..n : room[k] = IF t[k] > room[k - 1] THEN room[k - 1] ELSE room[k - 1] - t[k]
  <2> DEFINE step == [k \in 1..n |-> [x \in Int |-> IF t[k] > x THEN x ELSE x - t[k]]]
  <2>1. step \in [1..n -> [Int -> Int]]  OBVIOUS
  <2>2. \A k \in 1..n : \A x \in Int : step[k][x] = IF t[k] > x THEN x ELSE x - t[k]  OBVIOUS
  <2> HIDE DEF step
  <2>0. M \in Int  OBVIOUS
  <2>3. PICK room \in [0..n -> Int] : room[0] = M /\ \A k \in 1..n : room[k] = step[k][room[k - 1]]
    <3>1. Recurs(n, Int, M, step)  BY <2>0, <2>1, Recursion
    <3> QED BY <3>1 DEF Recurs
  <2>4. \A k \in 1..n : k - 1 \in 0..n  OBVIOUS
  <2>5. \A k \in 1..n : room[k] = IF t[k] > room[k - 1] THEN room[k - 1] ELSE room[k - 1] - t[k]
    BY <2>2, <2>3, <2>4
  <2> QED BY <2>3, <2>5
<1> DEFINE Step(f, k) == IF k = 0 THEN M
                         ELSE LET left == f[k - 1] IN
                              IF ApproxTokens(order[k]) > left THEN left ELSE left - ApproxTokens(order[k])
<1>4. \A k \in 0..n : room[k] = Step(room, k)
  <2> SUFFICES ASSUME NEW k \in 0..n PROVE room[k] = Step(room, k)  OBVIOUS
  <2>1. CASE k = 0  BY <1>3, <2>1
  <2>2. CASE k # 0
    <3>1. k \in 1..n  BY <2>2
    <3> QED BY <1>2, <1>3, <2>2, <3>1
  <2> QED BY <2>1, <2>2
<1>5. room = [k \in 0..n |-> Step(room, k)]
  <2>1. room = [k \in 0..n |-> room[k]]  BY <1>3
  <2> HIDE DEF Step
  <2> QED BY <1>4, <2>1
<1>6. Room(order) = CHOOSE f : f = [k \in 0..n |-> Step(f, k)]  BY <1>1 DEF Room
<1>7. PICK r : r = Room(order)  OBVIOUS
<1>8. r = [k \in 0..n |-> Step(r, k)]
  <2> HIDE DEF Step
  <2> QED BY <1>5, <1>6, <1>7
<1>9. \A k \in 0..n : r[k] = Step(r, k)
  <2> HIDE DEF Step
  <2> QED BY <1>8
<1>10. r[0] = M
  <2>1. 0 \in 0..n  OBVIOUS
  <2> QED BY <1>9, <2>1
<1>11. \A k \in 1..n : r[k] = IF t[k] > r[k - 1] THEN r[k - 1] ELSE r[k - 1] - t[k]
  <2> SUFFICES ASSUME NEW k \in 1..n
               PROVE  r[k] = IF t[k] > r[k - 1] THEN r[k - 1] ELSE r[k - 1] - t[k]
    OBVIOUS
  <2>1. k \in 0..n /\ k # 0  OBVIOUS
  <2> QED BY <1>2, <1>9, <2>1
<1>12. \A k \in 0..n : r[k] \in 0..M
  <2> DEFINE C == {k \in 0..n : r[k] \in 0..M}
  <2>1. 0 \in C  BY <1>10
  <2>2. \A k \in 1..n : k - 1 \in C => k \in C
    <3> SUFFICES ASSUME NEW k \in 1..n, r[k - 1] \in 0..M PROVE r[k] \in 0..M /\ k \in 0..n  OBVIOUS
    <3>1. t[k] \in Nat  BY <1>2
    <3> QED BY <1>11, <3>1
  <2> HIDE DEF C
  <2>3. \A k \in 0..n : k \in C  BY <2>1, <2>2, Upward
  <2> QED BY <2>3 DEF C
<1> QED BY <1>1, <1>2, <1>7, <1>10, <1>11, <1>12

\* What the first entries took.
Spends(entries, n, spent) ==
    /\ PacketTokens(entries) = spent[n] /\ spent[0] = 0
    /\ \A k \in 1..n : spent[k] = spent[k - 1] + ApproxTokens(entries[k])

LEMMA SpentIs ==
    ASSUME NEW entries, NEW n \in Nat, n = Len(entries),
           \A k \in 1..n : ApproxTokens(entries[k]) \in Nat
    PROVE  \E spent : Spends(entries, n, spent)
<1>1. PICK t \in [1..n -> Nat] : \A k \in 1..n : t[k] = ApproxTokens(entries[k])
  <2> DEFINE t == [k \in 1..n |-> ApproxTokens(entries[k])]
  <2>1. t \in [1..n -> Nat] /\ \A k \in 1..n : t[k] = ApproxTokens(entries[k])  OBVIOUS
  <2> QED BY <2>1
<1>2. PICK f \in [0..n -> Int] : f[0] = 0 /\ \A k \in 1..n : f[k] = f[k - 1] + t[k]
  <2> DEFINE step == [k \in 1..n |-> [x \in Int |-> x + t[k]]]
  <2>1. step \in [1..n -> [Int -> Int]]  OBVIOUS
  <2>2. \A k \in 1..n : \A x \in Int : step[k][x] = x + t[k]  OBVIOUS
  <2> HIDE DEF step
  <2>0. 0 \in Int  OBVIOUS
  <2>3. PICK f \in [0..n -> Int] : f[0] = 0 /\ \A k \in 1..n : f[k] = step[k][f[k - 1]]
    <3>1. Recurs(n, Int, 0, step)  BY <2>0, <2>1, Recursion
    <3> QED BY <3>1 DEF Recurs
  <2>4. \A k \in 1..n : k - 1 \in 0..n  OBVIOUS
  <2>5. \A k \in 1..n : f[k] = f[k - 1] + t[k]  BY <2>2, <2>3, <2>4
  <2> QED BY <2>3, <2>5
<1> DEFINE Step(g, k) == IF k = 0 THEN 0 ELSE g[k - 1] + ApproxTokens(entries[k])
<1>3. \A k \in 0..n : f[k] = Step(f, k)
  <2> SUFFICES ASSUME NEW k \in 0..n PROVE f[k] = Step(f, k)  OBVIOUS
  <2>1. CASE k = 0  BY <1>2, <2>1
  <2>2. CASE k # 0
    <3>1. k \in 1..n  BY <2>2
    <3> QED BY <1>1, <1>2, <2>2, <3>1
  <2> QED BY <2>1, <2>2
<1>4. f = [k \in 0..n |-> Step(f, k)]
  <2>1. f = [k \in 0..n |-> f[k]]  BY <1>2
  <2> HIDE DEF Step
  <2> QED BY <1>3, <2>1
<1>5. PacketTokens(entries) = (CHOOSE g : g = [k \in 0..n |-> Step(g, k)])[n]  BY DEF PacketTokens
<1>6. PICK spent : spent = CHOOSE g : g = [k \in 0..n |-> Step(g, k)]  OBVIOUS
<1>7. spent = [k \in 0..n |-> Step(spent, k)]
  <2> HIDE DEF Step
  <2> QED BY <1>4, <1>6
<1>8. \A k \in 0..n : spent[k] = Step(spent, k)
  <2> HIDE DEF Step
  <2> QED BY <1>7
<1>9. spent[0] = 0
  <2>1. 0 \in 0..n  OBVIOUS
  <2> QED BY <1>8, <2>1
<1>10. \A k \in 1..n : spent[k] = spent[k - 1] + ApproxTokens(entries[k])
  <2> SUFFICES ASSUME NEW k \in 1..n PROVE spent[k] = spent[k - 1] + ApproxTokens(entries[k])  OBVIOUS
  <2>1. k \in 0..n /\ k # 0  OBVIOUS
  <2> QED BY <1>8, <2>1
<1>11. PacketTokens(entries) = spent[n]
  <2> HIDE DEF Step
  <2> QED BY <1>5, <1>6
<1>12. Spends(entries, n, spent)  BY <1>9, <1>10, <1>11 DEF Spends
<1> QED BY <1>12

\* The positions that are picked, in their order.
Selects(s, at, f) ==
    /\ f \in [1..Cardinality(at) -> at] /\ Cardinality(at) \in Nat
    /\ Picked(s, at) = [i \in 1..Cardinality(at) |-> s[f[i]]]
    /\ \A k \in at : \E i \in 1..Cardinality(at) : f[i] = k
    /\ \A i, j \in 1..Cardinality(at) : (i < j <=> f[i] < f[j]) /\ (f[i] = f[j] => i = j)

LEMMA PickedSelects ==
    ASSUME NEW D, NEW s \in Seq(D), NEW at \in SUBSET DOMAIN s
    PROVE  \E f : Selects(s, at, f)
<1>1. PICK f \in [1..Cardinality(at) -> at] :
         /\ Cardinality(at) \in Nat
         /\ Picked(s, at) = [i \in 1..Cardinality(at) |-> s[f[i]]]
         /\ \A k \in at : \E i \in 1..Cardinality(at) : f[i] = k
         /\ \A i, j \in 1..Cardinality(at) : (i < j <=> f[i] < f[j]) /\ (f[i] = f[j] => i = j)
  BY PickedSorts
<1>2. Selects(s, at, f)  BY <1>1 DEF Selects
<1> QED BY <1>2

(* What was spent and what is left make the budget; what was skipped was   *)
(* too large for what was left, and no more was left at the end.           *)
LEMMA PackedRight ==
    ASSUME NEW S, NEW order, Lists(order, S), \A r \in S : ApproxTokens(r) \in Nat,
           NEW entries, entries = Picked(order, Fitting(order))
    PROVE  /\ Part(entries, S)
           /\ PacketTokens(entries) <= MaxContextTokens
           /\ \A r \in S \ ToSet(entries) : PacketTokens(entries) + ApproxTokens(r) > MaxContextTokens
<1>1. PICK M \in Nat : M = MaxContextTokens  BY RetrievalAssumption
<1>2. PICK n \in Nat : n = Len(order) /\ DOMAIN order = 1..n /\ order \in Seq(S)  BY DEF Lists
<1>3. PICK t \in [1..n -> Nat] : \A k \in 1..n : t[k] = ApproxTokens(order[k])
  <2> DEFINE t == [k \in 1..n |-> ApproxTokens(order[k])]
  <2>1. \A k \in 1..n : order[k] \in S  BY <1>2 DEF Lists
  <2>2. t \in [1..n -> Nat] /\ \A k \in 1..n : t[k] = ApproxTokens(order[k])  BY <2>1
  <2> QED BY <2>2
<1>4. PICK room : room = Room(order)  OBVIOUS
<1>5. /\ room[0] = M
      /\ \A k \in 1..n : room[k] = IF t[k] > room[k - 1] THEN room[k - 1] ELSE room[k - 1] - t[k]
      /\ \A k \in 0..n : room[k] \in 0..M
  <2>1. \A k \in 1..n : ApproxTokens(order[k]) \in Nat  BY <1>3
  <2> QED BY <1>1, <1>2, <1>3, <1>4, <2>1, RoomIs
<1>6. PICK at : at = Fitting(order)  OBVIOUS
<1>7. at \in SUBSET 1..n /\ \A k \in 1..n : k \in at <=> t[k] <= room[k - 1]
  BY <1>2, <1>3, <1>4, <1>6 DEF Fitting
<1>8. PICK m \in Nat : \E f \in [1..m -> at] :
         /\ entries = [i \in 1..m |-> order[f[i]]]
         /\ \A k \in at : \E i \in 1..m : f[i] = k
         /\ \A i, j \in 1..m : (i < j <=> f[i] < f[j]) /\ (f[i] = f[j] => i = j)
  <2>0. order \in Seq(S)  BY <1>2
  <2>1. at \in SUBSET DOMAIN order  BY <1>2, <1>7
  <2>2. PICK f : Selects(order, at, f)  BY <2>0, <2>1, PickedSelects
  <2> QED BY <1>6, <2>2 DEF Selects
<1>a. PICK f \in [1..m -> at] :
         /\ entries = [i \in 1..m |-> order[f[i]]]
         /\ \A k \in at : \E i \in 1..m : f[i] = k
         /\ \A i, j \in 1..m : (i < j <=> f[i] < f[j]) /\ (f[i] = f[j] => i = j)
  BY <1>8
<1>9. \A i \in 1..m : /\ f[i] \in 1..n /\ f[i] \in at /\ entries[i] = order[f[i]] /\ entries[i] \in S
                      /\ ApproxTokens(entries[i]) = t[f[i]] /\ t[f[i]] \in Nat
  <2> SUFFICES ASSUME NEW i \in 1..m
               PROVE  /\ f[i] \in 1..n /\ f[i] \in at /\ entries[i] = order[f[i]] /\ entries[i] \in S
                      /\ ApproxTokens(entries[i]) = t[f[i]] /\ t[f[i]] \in Nat
    OBVIOUS
  <2>1. f[i] \in at /\ f[i] \in 1..n  BY <1>7, <1>a
  <2>2. entries[i] = order[f[i]]  BY <1>a
  <2>3. order[f[i]] \in S  BY <1>2, <2>1 DEF Lists
  <2> QED BY <1>3, <2>1, <2>2, <2>3
<1>10. entries \in Seq(S) /\ Len(entries) = m /\ DOMAIN entries = 1..m
  <2>1. entries \in [1..m -> S]  BY <1>a, <1>9
  <2> QED BY <2>1, FunctionIsSequence
<1>11. Part(entries, S)
  <2>1. ASSUME NEW i \in 1..m, NEW j \in 1..m, entries[i] = entries[j] PROVE i = j
    <3>1. order[f[i]] = order[f[j]] /\ f[i] \in DOMAIN order /\ f[j] \in DOMAIN order
      BY <1>2, <1>9, <2>1
    <3>2. f[i] = f[j]  BY <3>1 DEF Lists
    <3> QED BY <1>a, <3>2
  <2> QED BY <1>9, <1>10, <2>1 DEF Part
<1>12. PICK spent : /\ PacketTokens(entries) = spent[m] /\ spent[0] = 0
                    /\ \A i \in 1..m : spent[i] = spent[i - 1] + t[f[i]]
  <2>0. m = Len(entries)  BY <1>10
  <2>1. \A i \in 1..m : ApproxTokens(entries[i]) \in Nat  BY <1>9
  <2>2. PICK s : Spends(entries, m, s)  BY <2>0, <2>1, SpentIs
  <2>3. \A i \in 1..m : s[i] = s[i - 1] + t[f[i]]  BY <1>9, <2>2 DEF Spends
  <2> QED BY <2>2, <2>3 DEF Spends
<1> DEFINE Balanced(k, i) == spent[i] = M - room[k] /\ \A j \in 1..m : f[j] <= k <=> j <= i
<1>13. \A k \in 0..n : \E i \in 0..m : Balanced(k, i)
  <2> DEFINE C == {k \in 0..n : \E i \in 0..m : Balanced(k, i)}
  <2>1. 0 \in C
    <3>1. \A j \in 1..m : ~(f[j] <= 0) /\ ~(j <= 0)  BY <1>9
    <3>2. M - room[0] = 0  BY <1>5
    <3>3. Balanced(0, 0)  BY <1>12, <3>1, <3>2
    <3> QED BY <3>3
  <2>2. ASSUME NEW k \in 1..n, k - 1 \in C PROVE k \in C
    <3>1. PICK b \in 0..n : b = k - 1 /\ k = b + 1  OBVIOUS
    <3>2. PICK i \in 0..m : Balanced(b, i)  BY <2>2, <3>1
    <3>3. /\ room[k] = IF t[k] > room[b] THEN room[b] ELSE room[b] - t[k]
          /\ room[b] \in 0..M /\ t[k] \in Nat
          /\ k \in at <=> t[k] <= room[b]
      BY <1>3, <1>5, <1>7, <3>1
    <3>4. CASE k \notin at
      <4>1. room[k] = room[b]  BY <3>3, <3>4
      <4>2. \A j \in 1..m : f[j] <= k <=> f[j] <= b  BY <1>9, <3>1, <3>4
      <4>3. Balanced(k, i)  BY <3>2, <4>1, <4>2
      <4> QED BY <4>3
    <3>5. CASE k \in at
      <4>1. PICK h \in 1..m : f[h] = k  BY <1>a, <3>5
      <4>2. ~(h <= i)  BY <3>1, <3>2, <4>1
      <4>3. PICK l \in 1..m : l = i + 1  BY <4>2
      <4>4. f[l] >= k
        <5>1. ~(l <= i)  BY <4>3
        <5>2. ~(f[l] <= b)  BY <3>2, <5>1
        <5> QED BY <1>9, <3>1, <5>2
      <4>5. l = h
        <5>1. ~(h < l)  BY <4>2, <4>3
        <5>2. CASE l < h
          <6>1. f[l] < f[h]  BY <1>a, <5>2
          <6> QED BY <1>9, <4>1, <4>4, <6>1
        <5> QED BY <5>1, <5>2
      <4>6. spent[l] = M - room[k]
        <5>1. spent[l] = spent[l - 1] + t[f[l]] /\ l - 1 = i  BY <1>12, <4>3
        <5>2. spent[l] = (M - room[b]) + t[k]  BY <3>2, <4>1, <4>5, <5>1
        <5>3. room[k] = room[b] - t[k]  BY <3>3, <3>5
        <5> QED BY <3>3, <5>2, <5>3
      <4>7. \A j \in 1..m : f[j] <= k <=> j <= l
        <5> SUFFICES ASSUME NEW j \in 1..m PROVE f[j] <= k <=> j <= l  OBVIOUS
        <5>1. f[l] = k /\ (j < l <=> f[j] < f[l]) /\ (f[j] = f[l] => j = l)  BY <1>a, <4>1, <4>5
        <5>2. f[j] \in 1..n  BY <1>9
        <5>3. CASE j = l  BY <5>1, <5>3
        <5>4. CASE j # l  BY <5>1, <5>2, <5>4
        <5> QED BY <5>3, <5>4
      <4>8. Balanced(k, l) /\ l \in 0..m  BY <4>6, <4>7
      <4> QED BY <4>8
    <3> QED BY <3>4, <3>5
  <2> HIDE DEF C
  <2>3. \A k \in 0..n : k \in C  BY <2>1, <2>2, Upward
  <2> QED BY <2>3 DEF C
<1>14. PacketTokens(entries) = M - room[n]
  <2>1. PICK i \in 0..m : Balanced(n, i)
    <3>1. n \in 0..n  OBVIOUS
    <3> QED BY <1>13, <3>1
  <2>2. \A j \in 1..m : f[j] <= n  BY <1>9
  <2>3. i = m
    <3>1. CASE m = 0  BY <3>1
    <3>2. CASE m # 0
      <4>1. m \in 1..m  BY <3>2
      <4>2. m <= i  BY <2>1, <2>2, <4>1
      <4> QED BY <4>2
    <3> QED BY <3>1, <3>2
  <2> QED BY <1>12, <2>1, <2>3
<1>15. room[n] \in 0..M  BY <1>5
<1>16. ASSUME NEW r \in S \ ToSet(entries) PROVE PacketTokens(entries) + ApproxTokens(r) > M
  <2>1. PICK k \in 1..n : order[k] = r  BY <1>2 DEF Lists
  <2>2. k \notin at
    <3> SUFFICES ASSUME k \in at PROVE FALSE  OBVIOUS
    <3>1. PICK i \in 1..m : f[i] = k  BY <1>a
    <3>2. entries[i] = r /\ i \in DOMAIN entries  BY <1>9, <1>10, <2>1, <3>1
    <3> QED BY <1>16, <3>2 DEF ToSet
  <2>3. PICK b \in 0..n : b = k - 1  OBVIOUS
  <2>4. ~(t[k] <= room[b]) /\ t[k] = ApproxTokens(r) /\ t[k] \in Nat /\ room[b] \in 0..M
    BY <1>3, <1>5, <1>7, <2>1, <2>2, <2>3
  <2>5. room[n] <= room[b]
    <3> DEFINE C == {j \in 0..n : b <= j => room[j] <= room[b]}
    <3>1. 0 \in C
      <4>1. b <= 0 => b = 0  OBVIOUS
      <4> QED BY <2>4, <4>1
    <3>2. ASSUME NEW j \in 1..n, j - 1 \in C PROVE j \in C
      <4>1. PICK a \in 0..n : a = j - 1 /\ j = a + 1  OBVIOUS
      <4>2. b <= a => room[a] <= room[b]  BY <3>2, <4>1
      <4>3. room[j] \in 0..M /\ room[a] \in 0..M /\ t[j] \in Nat
            /\ room[j] = IF t[j] > room[a] THEN room[a] ELSE room[a] - t[j]
        BY <1>3, <1>5, <4>1
      <4>4. room[j] <= room[a]  BY <4>3
      <4>5. CASE b <= a  BY <2>4, <4>2, <4>3, <4>4, <4>5
      <4>6. CASE b = j  BY <2>4, <4>6
      <4>7. CASE ~(b <= a) /\ b # j
        <5>1. ~(b <= j)  BY <4>1, <4>7
        <5> QED BY <5>1
      <4> QED BY <4>5, <4>6, <4>7
    <3> HIDE DEF C
    <3>3. \A j \in 0..n : j \in C  BY <3>1, <3>2, Upward
    <3>4. n \in C /\ b <= n  BY <3>3
    <3> QED BY <3>4 DEF C
  <2> QED BY <1>14, <1>15, <2>4, <2>5
<1>17. PacketTokens(entries) <= M  BY <1>14, <1>15
<1> QED BY <1>1, <1>11, <1>16, <1>17

LEMMA TokensCounted ==
    ASSUME world \in Worlds, query \in Queries,
           NEW r, r.id \in UnitIds, r.channels \subseteq Channels
    PROVE  ApproxTokens(r) \in Nat
<1>1. world.chars[r.id] \in Nat  BY Known
<1>2. Cardinality(r.channels) \in Nat
  <2>1. IsFiniteSet(Channels)
    <3>1. Channels = {"graph"} \union ({"metadata"} \union {"vector"})  BY DEF Channels
    <3> QED BY <3>1, FS_Singleton, FS_Union
  <2> QED BY <2>1, FS_Subset, FS_CardinalityType
<1>3. PICK a \in Nat, b \in Nat, k \in {0, 8} :
         a = world.chars[r.id] /\ b = Cardinality(r.channels) /\ k = IF r.kind = None THEN 0 ELSE 8
  BY <1>1, <1>2
<1>4. (a + k + 10 * b + 3) \div 4 \in Nat  BY <1>3
<1> QED BY <1>3, <1>4 DEF ApproxTokens

\* A ranked unit.
Ranked(S) ==
    /\ IsFiniteSet(S)
    /\ \A r \in S : r.id \in UnitIds /\ r.score \in Int /\ ApproxTokens(r) \in Nat
    /\ \A r, s \in S : r.id = s.id => r = s

LEMMA ResultsRanked ==
    ASSUME SearchInv, FoundInv
    PROVE  Ranked({Result(Fused(found), u) : u \in UnitsOf(Fused(found))})
<1> DEFINE F == Fused(found)
           T == UnitsOf(F)
           res == [u \in T |-> Result(F, u)]
           S == {Result(F, u) : u \in T}
<1>1. world \in Worlds /\ query \in Queries  BY DEF SearchInv, SearchType
<1>2. DOMAIN found = Channels /\ \A d \in Channels : Finds(found[d], d)  BY DEF FoundInv, Finds
<1>3. ToSet(F) = Together(found) /\ IsFiniteSet(Together(found))
      /\ \A x \in Together(found) : x.id \in UnitIds
  BY <1>1, <1>2, FusedLists, ListsHas, TogetherHas
<1>4. T = {x.id : x \in Together(found)}  BY <1>3 DEF UnitsOf
<1>5. IsFiniteSet(T) /\ T \subseteq UnitIds
  <2> HIDE DEF F, T
  <2>1. [x \in Together(found) |-> x.id] \in Surjection(Together(found), T)
    BY <1>4 DEF Surjection
  <2> QED BY <1>3, <1>4, <2>1, FS_Surjection
<1>6. ASSUME NEW u \in T PROVE /\ res[u].id = u /\ res[u].score \in Int /\ ApproxTokens(res[u]) \in Nat
  <2>1. res[u] = Result(F, u)  OBVIOUS
  <2> HIDE DEF res, T, F
  <2>2. /\ res[u].id = u /\ res[u].score = Scored(F, u)
        /\ res[u].channels = {c \in Channels : Of(F, u, c) # {}}
    BY <2>1 DEF Result, GroupByUnit
  <2>3. Scored(F, u) \in Int
    <3>1. "vector" \in Channels /\ "metadata" \in Channels  BY DEF Channels
    <3>2. /\ \A c \in Channels : Evidence(F, u, c) \in 0..ScoreUnit
          /\ Nearness(F, u) \in 0..ScoreUnit
      BY <1>1, <1>2, EvidenceBounded DEF F
    <3>3. PICK v \in 0..ScoreUnit : v = Evidence(F, u, "vector")  BY <3>1, <3>2
    <3>4. PICK k \in 0..ScoreUnit : k = Evidence(F, u, "metadata")  BY <3>1, <3>2
    <3>5. PICK g \in 0..ScoreUnit : g = Nearness(F, u)  BY <3>2
    <3>6. Scored(F, u) = 35 * (IF k > v THEN k ELSE v) + 25 * g  BY <3>3, <3>4, <3>5, ScoreIs
    <3>7. 35 * (IF k > v THEN k ELSE v) + 25 * g \in Int  BY DEF ScoreUnit
    <3> QED BY <3>6, <3>7
  <2>4. u \in UnitIds  BY <1>5
  <2>5. ApproxTokens(res[u]) \in Nat
    <3>1. res[u].id \in UnitIds /\ res[u].channels \subseteq Channels  BY <2>2, <2>4
    <3> QED BY <1>1, <3>1, TokensCounted
  <2> QED BY <2>2, <2>3, <2>5
<1>7. S = {res[u] : u \in T} /\ DOMAIN res = T /\ res = [u \in T |-> res[u]]  OBVIOUS
<1> HIDE DEF res, T, S
<1>8. IsFiniteSet(S)
  <2>1. res \in Surjection(T, S)  BY <1>7 DEF Surjection
  <2> QED BY <1>5, <2>1, FS_Surjection
<1>9. Ranked(S)  BY <1>5, <1>6, <1>7, <1>8 DEF Ranked
<1> QED BY <1>9 DEF S, T, F

LEMMA RankLists ==
    ASSUME NEW candidates, query \in Queries, world \in Worlds,
           Ranked({Result(candidates, u) : u \in UnitsOf(candidates)})
    PROVE  Part(RankUnits(candidates, query.topK), {Result(candidates, u) : u \in UnitsOf(candidates)})
<1> DEFINE S == {Result(candidates, u) : u \in UnitsOf(candidates)}
           R == {z \in S \X S : \/ z[1].score > z[2].score
                                \/ z[1].score = z[2].score /\ z[1].id < z[2].id}
<1>1. Ordered(S, LAMBDA a, b : a.score > b.score \/ (a.score = b.score /\ a.id < b.id)) = Sorted(S, R)
  <2>1. \A b \in S : {a \in S : a.score > b.score \/ (a.score = b.score /\ a.id < b.id)} = Below(S, R, b)
    <3> HIDE DEF S
    <3> QED BY DEF Below
  <2> HIDE DEF R, S
  <2>2. Ordered(S, LAMBDA a, b : a.score > b.score \/ (a.score = b.score /\ a.id < b.id))
          = [n \in 1..Cardinality(S) |-> CHOOSE b \in S :
               Cardinality({a \in S : a.score > b.score \/ (a.score = b.score /\ a.id < b.id)}) = n - 1]
    BY DEF Ordered
  <2> QED BY <2>1, <2>2 DEF Sorted
<1>2. RankUnits(candidates, query.topK) = SubSeq(Sorted(S, R), 1, Min({query.topK, Cardinality(S)}))
  <2>1. RankUnits(candidates, query.topK)
          = SubSeq(Ordered(S, LAMBDA a, b : a.score > b.score \/ (a.score = b.score /\ a.id < b.id)),
                   1, Min({query.topK, Cardinality(S)}))
    BY DEF RankUnits, Top
  <2> HIDE DEF R, S
  <2> QED BY <1>1, <2>1
<1>3. \A x, y \in S : <<x, y>> \in R <=> \/ x.score > y.score
                                         \/ x.score = y.score /\ x.id < y.id
  <2> HIDE DEF S
  <2> SUFFICES ASSUME NEW x \in S, NEW y \in S
               PROVE  <<x, y>> \in R <=> \/ x.score > y.score
                                         \/ x.score = y.score /\ x.id < y.id
    BY Zenon
  <2>1. <<x, y>> \in S \X S /\ <<x, y>>[1] = x /\ <<x, y>>[2] = y  OBVIOUS
  <2> QED BY <2>1, Zenon
<1>4. Ranked(S)  OBVIOUS
<1> HIDE DEF S, R
<1>5. IsFiniteSet(S) /\ (\A x \in S : x.id \in Int /\ x.score \in Int)
      /\ \A x, y \in S : x.id = y.id => x = y
  BY <1>4, Known DEF Ranked
<1>6. StrictTotal(S, R)
  <2> DEFINE p == [x \in S |-> 0 - x.score]
             q == [x \in S |-> x.id]
  <2>1. p \in [S -> Int] /\ q \in [S -> Int]  BY <1>5
  <2>2. \A x, y \in S : p[x] = p[y] /\ q[x] = q[y] /\ q[x] = q[y] => x = y  BY <1>5
  <2>3. \A x, y \in S : <<x, y>> \in R <=> \/ p[x] < p[y]
                                           \/ p[x] = p[y] /\ q[x] < q[y]
                                           \/ p[x] = p[y] /\ q[x] = q[y] /\ q[x] < q[y]
    <3> SUFFICES ASSUME NEW x \in S, NEW y \in S
                 PROVE  <<x, y>> \in R <=> \/ p[x] < p[y]
                                           \/ p[x] = p[y] /\ q[x] < q[y]
                                           \/ p[x] = p[y] /\ q[x] = q[y] /\ q[x] < q[y]
      OBVIOUS
    <3>1. /\ p[x] = 0 - x.score /\ p[y] = 0 - y.score /\ q[x] = x.id /\ q[y] = y.id
          /\ x.score \in Int /\ y.score \in Int /\ x.id \in Int /\ y.id \in Int
      BY <1>5
    <3>2. <<x, y>> \in R <=> x.score > y.score \/ (x.score = y.score /\ x.id < y.id)
      BY <1>3, Zenon
    <3> HIDE DEF p, q
    <3> QED BY <3>1, <3>2
  <2> HIDE DEF p, q
  <2>4. ByKeys(S, p, q, q, R)  BY <2>1, <2>2, <2>3 DEF ByKeys
  <2> QED BY <2>4, ByNumbers
<1>7. Part(RankUnits(candidates, query.topK), S)
  <2>1. Lists(Sorted(S, R), S)  BY <1>5, <1>6, SortedLists
  <2>2. query.topK \in Nat  BY Known
  <2> QED BY <1>2, <2>1, <2>2, FirstOf
<1> QED BY <1>7 DEF S

LEMMA PriorityIs == \A kind : Priority(kind) \in {3, 4, 5}
  BY DEF Priority

LEMMA PriorityLists ==
    ASSUME world \in Worlds, query \in Queries, NEW ranked, Ranked(ToSet(ranked))
    PROVE  Lists(ByPriority(ranked), ToSet(ranked))
<1> DEFINE S == ToSet(ranked)
           R == {z \in S \X S :
                   \/ Priority(z[1].kind) < Priority(z[2].kind)
                   \/ Priority(z[1].kind) = Priority(z[2].kind) /\ z[1].score > z[2].score
                   \/ /\ Priority(z[1].kind) = Priority(z[2].kind) /\ z[1].score = z[2].score
                      /\ z[1].id < z[2].id}
<1>1. ByPriority(ranked) = Sorted(S, R)
  <2>1. \A b \in S : {a \in S : \/ Priority(a.kind) < Priority(b.kind)
                                \/ Priority(a.kind) = Priority(b.kind) /\ a.score > b.score
                                \/ Priority(a.kind) = Priority(b.kind) /\ a.score = b.score /\ a.id < b.id}
                       = Below(S, R, b)
    <3> HIDE DEF S
    <3> QED BY DEF Below
  <2>2. ByPriority(ranked) = [n \in 1..Cardinality(S) |-> CHOOSE b \in S : Cardinality(
                 {a \in S : \/ Priority(a.kind) < Priority(b.kind)
                            \/ Priority(a.kind) = Priority(b.kind) /\ a.score > b.score
                            \/ Priority(a.kind) = Priority(b.kind) /\ a.score = b.score /\ a.id < b.id}) = n - 1]
    BY DEF ByPriority, Ordered
  <2> HIDE DEF R, S
  <2> QED BY <2>1, <2>2 DEF Sorted
<1>2. \A x, y \in S : <<x, y>> \in R <=>
          (\/ Priority(x.kind) < Priority(y.kind)
           \/ Priority(x.kind) = Priority(y.kind) /\ x.score > y.score
           \/ Priority(x.kind) = Priority(y.kind) /\ x.score = y.score /\ x.id < y.id)
  <2> HIDE DEF S
  <2> SUFFICES ASSUME NEW x \in S, NEW y \in S
               PROVE  <<x, y>> \in R <=>
                        (\/ Priority(x.kind) < Priority(y.kind)
                         \/ Priority(x.kind) = Priority(y.kind) /\ x.score > y.score
                         \/ Priority(x.kind) = Priority(y.kind) /\ x.score = y.score /\ x.id < y.id)
    BY Zenon
  <2>1. <<x, y>> \in S \X S /\ <<x, y>>[1] = x /\ <<x, y>>[2] = y  OBVIOUS
  <2> QED BY <2>1, Zenon
<1>3. Ranked(S)  OBVIOUS
<1> HIDE DEF S, R
<1>4. IsFiniteSet(S) /\ (\A x \in S : x.id \in Int /\ x.score \in Int /\ Priority(x.kind) \in Int)
      /\ \A x, y \in S : x.id = y.id => x = y
  BY <1>3, Known, PriorityIs DEF Ranked
<1>5. StrictTotal(S, R)
  <2> DEFINE p == [x \in S |-> Priority(x.kind)]
             q == [x \in S |-> 0 - x.score]
             r == [x \in S |-> x.id]
  <2>1. p \in [S -> Int] /\ q \in [S -> Int] /\ r \in [S -> Int]  BY <1>4
  <2>2. \A x, y \in S : p[x] = p[y] /\ q[x] = q[y] /\ r[x] = r[y] => x = y  BY <1>4
  <2>3. \A x, y \in S : <<x, y>> \in R <=> (\/ p[x] < p[y]
                                            \/ p[x] = p[y] /\ q[x] < q[y]
                                            \/ p[x] = p[y] /\ q[x] = q[y] /\ r[x] < r[y])
    <3> SUFFICES ASSUME NEW x \in S, NEW y \in S
                 PROVE  <<x, y>> \in R <=> (\/ p[x] < p[y]
                                            \/ p[x] = p[y] /\ q[x] < q[y]
                                            \/ p[x] = p[y] /\ q[x] = q[y] /\ r[x] < r[y])
      OBVIOUS
    <3>1. /\ q[x] = 0 - x.score /\ q[y] = 0 - y.score /\ r[x] = x.id /\ r[y] = y.id
          /\ p[x] = Priority(x.kind) /\ p[y] = Priority(y.kind)
          /\ x.score \in Int /\ y.score \in Int /\ x.id \in Int /\ y.id \in Int
          /\ p[x] \in Int /\ p[y] \in Int
      BY <1>4
    <3>2. <<x, y>> \in R <=>
            (\/ Priority(x.kind) < Priority(y.kind)
             \/ Priority(x.kind) = Priority(y.kind) /\ x.score > y.score
             \/ Priority(x.kind) = Priority(y.kind) /\ x.score = y.score /\ x.id < y.id)
      BY <1>2, Zenon
    <3> HIDE DEF p, q, r
    <3> QED BY <3>1, <3>2
  <2> HIDE DEF p, q, r
  <2>4. ByKeys(S, p, q, r, R)  BY <2>1, <2>2, <2>3 DEF ByKeys
  <2> QED BY <2>4, ByNumbers
<1>6. Lists(ByPriority(ranked), S)  BY <1>1, <1>4, <1>5, SortedLists
<1> QED BY <1>6 DEF S

LEMMA PackingKeeps ==
    ASSUME SearchInv, FoundInv, NEW ranked, NEW entries,
           ranked = RankUnits(Fused(found), query.topK), entries = Optimize(ranked)
    PROVE  /\ PacketTokens(entries) <= MaxContextTokens
           /\ \A i, j \in DOMAIN entries : entries[i].id = entries[j].id => i = j
           /\ \A r \in ToSet(ranked) \ ToSet(entries) :
                 PacketTokens(entries) + ApproxTokens(r) > MaxContextTokens
<1>1. world \in Worlds /\ query \in Queries  BY DEF SearchInv, SearchType
<1>2. PICK S : S = {Result(Fused(found), u) : u \in UnitsOf(Fused(found))}  OBVIOUS
<1>3. Ranked(S)  BY <1>2, ResultsRanked
<1>4. Part(ranked, S)  BY <1>1, <1>2, <1>3, RankLists
<1>5. PICK T : T = ToSet(ranked)  OBVIOUS
<1>6. Ranked(T)
  <2>1. IsFiniteSet(T) /\ T \subseteq S  BY <1>4, <1>5, ListOfFinite DEF Part
  <2> QED BY <1>3, <2>1 DEF Ranked
<1>7. PICK order : order = ByPriority(ranked)  OBVIOUS
<1>8. Lists(order, T)  BY <1>1, <1>5, <1>6, <1>7, PriorityLists
<1>9. entries = Picked(order, Fitting(order))  BY <1>7 DEF Optimize
<1>10. \A r \in T : ApproxTokens(r) \in Nat  BY <1>6 DEF Ranked
<1>11. /\ Part(entries, T)
       /\ PacketTokens(entries) <= MaxContextTokens
       /\ \A r \in T \ ToSet(entries) : PacketTokens(entries) + ApproxTokens(r) > MaxContextTokens
  BY <1>8, <1>9, <1>10, PackedRight
<1>12. \A i, j \in DOMAIN entries : entries[i].id = entries[j].id => i = j
  BY <1>6, <1>11 DEF Part, Ranked
<1> QED BY <1>5, <1>11, <1>12

(* The tokens of an entry are those of the world, which never changes.     *)
LEMMA PacketTokensStay == ASSUME world' = world, NEW e PROVE PacketTokens(e)' = PacketTokens(e)
  BY DEF PacketTokens, ApproxTokens

LEMMA TokensStay == ASSUME world' = world, NEW e PROVE ApproxTokens(e)' = ApproxTokens(e)
  BY DEF ApproxTokens

\* A packet as it must be.
Maximal(p) ==
    /\ PacketTokens(p.context) <= MaxContextTokens
    /\ \A i, j \in DOMAIN p.context : p.context[i].id = p.context[j].id => i = j
    /\ \A r \in ToSet(p.ranked) \ ToSet(p.context) :
          PacketTokens(p.context) + ApproxTokens(r) > MaxContextTokens

LEMMA PacketKeeps == SearchInv /\ FoundInv /\ PacketMaximal /\ [RetrievalNext]_retrievalVars => PacketMaximal'
<1> SUFFICES ASSUME SearchInv, FoundInv, PacketMaximal, [RetrievalNext]_retrievalVars PROVE PacketMaximal'
  OBVIOUS
<1>1. world' = world
  BY DEF RetrievalNext, PlanRun, VectorSearch, MetadataSearch, GraphStart, GraphStep, GraphReturn,
         Respond, retrievalVars
<1>2. \A e : PacketTokens(e)' = PacketTokens(e)  BY <1>1, PacketTokensStay
<1>3. \A e : ApproxTokens(e)' = ApproxTokens(e)  BY <1>1, TokensStay
<1>4. PICK p : p = packet'  OBVIOUS
<1>5. CASE p = None  BY <1>4, <1>5 DEF PacketMaximal
<1>6. CASE p # None
  <2>1. Maximal(p)
    <3>1. CASE packet' = packet  BY <1>4, <1>6, <3>1 DEF PacketMaximal, Maximal
    <3>2. CASE Respond
      <4>1. PICK ranked, entries, sure, failed :
               /\ ranked = RankUnits(Fused(found), query.topK) /\ entries = Optimize(ranked)
               /\ packet' = [ranked |-> ranked, context |-> entries, confidence |-> sure,
                             failed |-> failed]
        BY <3>2 DEF Respond
      <4>2. p.ranked = ranked /\ p.context = entries  BY <1>4, <4>1
      <4> QED BY <4>1, <4>2, PackingKeeps DEF Maximal
    <3> QED BY <3>1, <3>2
         DEF RetrievalNext, PlanRun, VectorSearch, MetadataSearch, GraphStart, GraphStep, GraphReturn,
             retrievalVars
  <2>2. /\ PacketTokens(p.context)' <= MaxContextTokens
        /\ \A i, j \in DOMAIN p.context : p.context[i].id = p.context[j].id => i = j
        /\ \A r \in ToSet(p.ranked) \ ToSet(p.context) :
              PacketTokens(p.context)' + ApproxTokens(r)' > MaxContextTokens
    BY <1>2, <1>3, <2>1 DEF Maximal
  <2> QED BY <1>4, <2>2 DEF PacketMaximal
<1> QED BY <1>5, <1>6

LEMMA RetrievalStarts == RetrievalInit => RetrievalInv
<1> SUFFICES ASSUME RetrievalInit PROVE RetrievalInv  OBVIOUS
<1>1. PacketMaximal  BY DEF RetrievalInit, PacketMaximal
<1> QED BY <1>1, SearchStarts, FoundStarts DEF RetrievalInv

LEMMA RetrievalKeeps == RetrievalInv /\ [RetrievalNext]_retrievalVars => RetrievalInv'
  BY SearchKeeps, FoundKeeps, PacketKeeps DEF RetrievalInv

(* The search of the graph returns every node within the depth, each with  *)
(* its true distance, whatever neighbours fail: the queue is kept in the   *)
(* order of the depths, and what is within a depth was visited or waits.   *)
THEOREM DistancesTrue == RetrievalSpec => []DepthsShortest
<1>1. RetrievalInv => DepthsShortest  BY SearchServes DEF RetrievalInv
<1> QED BY <1>1, RetrievalStarts, RetrievalKeeps, PTL DEF RetrievalSpec

(* A channel that fails never raises a score: a channel says at most one   *)
(* thing of a unit, and without it that part of the score is nothing.      *)
THEOREM LossesNeverRaise == RetrievalSpec => []LossNeverRaises
<1>1. RetrievalInv => LossNeverRaises  BY LossServes DEF RetrievalInv
<1> QED BY <1>1, RetrievalStarts, RetrievalKeeps, PTL DEF RetrievalSpec

(* The packet keeps the budget, repeats no unit, and leaves out none that  *)
(* would still fit: what was spent and what is left make the budget after  *)
(* every entry, and the room only shrinks.                                 *)
THEOREM PacketsMaximal == RetrievalSpec => []PacketMaximal
<1>1. RetrievalInv => PacketMaximal  BY DEF RetrievalInv
<1> QED BY <1>1, RetrievalStarts, RetrievalKeeps, PTL DEF RetrievalSpec

---------------------------------------------------------------------------
(* Compression, for any input, any units that fail and any chunk size.     *)

(* The input is one of the inputs, a record is of a unit of it, and the    *)
(* result, once there, is what the records give.                           *)
CompressionInv ==
    /\ input \in Inputs
    /\ cursor # None => cursor \in Ids
    /\ DOMAIN encoded \subseteq Ids
    /\ result # None => cursor = None /\ result = Compressed

(* The units are few and each has a number of its own.                     *)
LEMMA UnitsNumbered ==
    ASSUME input \in Inputs
    PROVE  /\ IsFiniteSet(input.units) /\ IsFiniteSet(Ids) /\ Ids \in SUBSET Int
           /\ \A i \in Ids : UnitOf(i) \in input.units /\ UnitOf(i).id = i
           /\ \A u \in input.units : u.id \in Ids /\ UnitOf(u.id) = u /\ u.chars \in Nat
<1>1. /\ IsFiniteSet(input.units)
      /\ \A u \in input.units : u.id \in Int /\ u.chars \in Nat
      /\ \A u, v \in input.units : u.id = v.id => u = v
  BY CompressionAssumption
<1>2. PICK U : U = input.units  OBVIOUS
<1>3. Ids = {u.id : u \in U}  BY <1>2 DEF Ids
<1>4. IsFiniteSet(Ids)
  <2>1. PICK f : f = [u \in U |-> u.id]  OBVIOUS
  <2>2. f \in Surjection(U, Ids)  BY <1>3, <2>1 DEF Surjection
  <2> QED BY <1>1, <1>2, <2>2, FS_Surjection
<1>5. \A i \in Ids : UnitOf(i) \in U /\ UnitOf(i).id = i
  <2> SUFFICES ASSUME NEW i \in Ids PROVE UnitOf(i) \in U /\ UnitOf(i).id = i  OBVIOUS
  <2>1. \E u \in U : u.id = i  BY <1>3
  <2>2. UnitOf(i) = CHOOSE u \in U : u.id = i  BY <1>2 DEF UnitOf
  <2> QED BY <2>1, <2>2
<1>6. \A u \in U : u.id \in Ids  BY <1>3
<1>7. \A u \in U : UnitOf(u.id) = u  BY <1>1, <1>2, <1>5, <1>6
<1>8. Ids \in SUBSET Int  BY <1>1, <1>2, <1>3
<1> QED BY <1>1, <1>2, <1>4, <1>5, <1>6, <1>7, <1>8

LEMMA HealthyFinite ==
    ASSUME input \in Inputs
    PROVE  IsFiniteSet(Healthy) /\ Healthy \subseteq input.units
<1>1. Healthy \in SUBSET input.units  BY DEF Healthy
<1> QED BY <1>1, UnitsNumbered, FS_Subset

(* The index of a name gives a unit of this name.                          *)
LEMMA IndexedNamed ==
    ASSUME input \in Inputs, NEW name, Named(name) # {}
    PROVE  Indexed(name) \in Named(name)
<1>1. PICK A : A = Named(name)  OBVIOUS
<1>2. A \in SUBSET Healthy /\ A # {}  BY <1>1 DEF Named
<1>3. PICK B : B = {u.id : u \in A}  OBVIOUS
<1>4. B \subseteq Ids  BY <1>2, <1>3, HealthyFinite, UnitsNumbered
<1>5. B \in SUBSET Int /\ B # {} /\ IsFiniteSet(B)
  BY <1>2, <1>3, <1>4, UnitsNumbered, FS_Subset
<1>6. Max(B) \in B  BY <1>5, GreatestIn
<1>7. PICK u \in A : u.id = Max(B)  BY <1>3, <1>6
<1>8. UnitOf(Max(B)) = u  BY <1>2, <1>7, HealthyFinite, UnitsNumbered
<1> QED BY <1>1, <1>3, <1>8 DEF Indexed

---------------------------------------------------------------------------
(* The module around a unit.                                               *)

Above(v) == IF v.kind = "mod" \/ Named(v.parent) = {} THEN v ELSE Indexed(v.parent)

Climb(u, up) ==
    /\ up \in [0..Cardinality(Healthy) -> Healthy]
    /\ up[0] = u
    /\ \A n \in 1..Cardinality(Healthy) : up[n] = Above(up[n - 1])
    /\ ModuleQname(u) = CASE up[Cardinality(Healthy)].kind = "mod" -> up[Cardinality(Healthy)].qname
                          [] up[Cardinality(Healthy)].kind # "mod" /\ up[Cardinality(Healthy)].parent = None
                               -> u.qname
                          [] OTHER -> up[Cardinality(Healthy)].parent

LEMMA AboveHealthy ==
    ASSUME input \in Inputs, NEW v \in Healthy
    PROVE  Above(v) \in Healthy
<1>1. CASE v.kind = "mod" \/ Named(v.parent) = {}  BY <1>1 DEF Above
<1>2. CASE ~(v.kind = "mod" \/ Named(v.parent) = {})
  <2>1. Indexed(v.parent) \in Named(v.parent)  BY <1>2, IndexedNamed
  <2> QED BY <1>2, <2>1 DEF Above, Named
<1> QED BY <1>1, <1>2

(* The climb of a unit of the batch, and the name found at its top.        *)
LEMMA Climbs ==
    ASSUME input \in Inputs, NEW u \in Healthy
    PROVE  \E up : Climb(u, up)
<1>1. PICK N \in Nat : N = Cardinality(Healthy)  BY HealthyFinite, FS_CardinalityType
<1>2. PICK H : H = Healthy  OBVIOUS
<1>3. PICK f \in [0..N -> H] : f[0] = u /\ \A n \in 1..N : f[n] = Above(f[n - 1])
  <2> DEFINE step == [n \in 1..N |-> [v \in H |-> Above(v)]]
  <2>1. \A v \in H : Above(v) \in H  BY <1>2, AboveHealthy
  <2>2. step \in [1..N -> [H -> H]]  BY <2>1
  <2>3. \A n \in 1..N : \A v \in H : step[n][v] = Above(v)  OBVIOUS
  <2> HIDE DEF step
  <2>4. u \in H  BY <1>2
  <2>5. PICK f \in [0..N -> H] : f[0] = u /\ \A n \in 1..N : f[n] = step[n][f[n - 1]]
    <3>1. Recurs(N, H, u, step)  BY <2>2, <2>4, Recursion
    <3> QED BY <3>1 DEF Recurs
  <2>6. \A n \in 1..N : n - 1 \in 0..N  OBVIOUS
  <2>7. \A n \in 1..N : f[n] = Above(f[n - 1])  BY <2>3, <2>5, <2>6
  <2> QED BY <2>5, <2>7
<1> DEFINE Step(g, n) == IF n = 0 THEN u
                         ELSE LET v == g[n - 1] IN
                              IF v.kind = "mod" \/ Named(v.parent) = {} THEN v ELSE Indexed(v.parent)
           Name(t) == CASE t.kind = "mod" -> t.qname
                       [] t.kind # "mod" /\ t.parent = None -> u.qname
                       [] OTHER -> t.parent
<1>4. \A g : \A n \in 1..N : Step(g, n) = Above(g[n - 1])  BY DEF Above
<1>5. \A n \in 0..N : f[n] = Step(f, n)
  <2> SUFFICES ASSUME NEW n \in 0..N PROVE f[n] = Step(f, n)  OBVIOUS
  <2>1. CASE n = 0  BY <1>3, <2>1
  <2>2. CASE n # 0
    <3>1. n \in 1..N  BY <2>2
    <3> HIDE DEF Step
    <3> QED BY <1>3, <1>4, <3>1
  <2> QED BY <2>1, <2>2
<1>6. f = [n \in 0..N |-> Step(f, n)]
  <2>1. f = [n \in 0..N |-> f[n]]  BY <1>3
  <2> HIDE DEF Step
  <2> QED BY <1>5, <2>1
<1>7. PICK r : r = CHOOSE g : g = [n \in 0..N |-> Step(g, n)]  OBVIOUS
<1>8. r = [n \in 0..N |-> Step(r, n)]
  <2> HIDE DEF Step
  <2> QED BY <1>6, <1>7
<1>9. ModuleQname(u) = Name(r[N])  BY <1>1, <1>7 DEF ModuleQname
<1>10. r[0] = u
  <2>1. 0 \in 0..N  OBVIOUS
  <2> QED BY <1>8, <2>1
<1>11. \A n \in 1..N : r[n] = Above(r[n - 1])
  <2> SUFFICES ASSUME NEW n \in 1..N PROVE r[n] = Above(r[n - 1])  OBVIOUS
  <2>1. n \in 0..N  OBVIOUS
  <2> HIDE DEF Step
  <2> QED BY <1>4, <1>8, <2>1
<1>12. \A n \in 0..N : r[n] \in H
  <2>1. PICK C : C = {n \in 0..N : r[n] \in H}  OBVIOUS
  <2>2. 0 \in C  BY <1>2, <1>10, <2>1
  <2>3. \A n \in 1..N : n - 1 \in C => n \in C
    <3>1. \A v \in H : Above(v) \in H  BY <1>2, AboveHealthy
    <3> QED BY <1>11, <2>1, <3>1
  <2>4. \A n \in 0..N : n \in C  BY <2>2, <2>3, Upward
  <2> QED BY <2>1, <2>4
<1>13. r \in [0..N -> H]
  <2> HIDE DEF Step
  <2> QED BY <1>8, <1>12
<1>14. Climb(u, r)  BY <1>1, <1>2, <1>9, <1>10, <1>11, <1>13 DEF Climb
<1> QED BY <1>14

(* The climb stops at the first module it meets.                           *)
LEMMA ModuleMet ==
    ASSUME input \in Inputs, NEW u, NEW up, Climb(u, up),
           NEW j \in 0..Cardinality(Healthy), Cardinality(Healthy) \in Nat, up[j].kind = "mod"
    PROVE  ModuleQname(u) = up[j].qname
<1>1. PICK N \in Nat : N = Cardinality(Healthy)  OBVIOUS
<1>2. j \in 0..N  BY <1>1
<1>3. PICK C : C = {n \in 0..N : j <= n => up[n] = up[j]}  OBVIOUS
<1>4. 0 \in C  BY <1>2, <1>3
<1>5. \A n \in 1..N : n - 1 \in C => n \in C
  <2> SUFFICES ASSUME NEW n \in 1..N, n - 1 \in C, j <= n PROVE up[n] = up[j]
    BY <1>3
  <2>1. CASE j = n  BY <2>1
  <2>2. CASE j # n
    <3>1. up[n - 1] = up[j]  BY <1>2, <1>3, <2>2
    <3>2. up[n] = Above(up[n - 1])  BY <1>1 DEF Climb
    <3> QED BY <3>1, <3>2 DEF Above
  <2> QED BY <2>1, <2>2
<1>6. \A n \in 0..N : n \in C  BY <1>4, <1>5, Upward
<1>7. up[N] = up[j]  BY <1>2, <1>3, <1>6
<1>8. up[N].kind = "mod"  BY <1>7
<1> QED BY <1>1, <1>7, <1>8 DEF Climb

(* Units of one name being alike, what is declared at the top of a module  *)
(* is in it, and so is what is declared in a class of it.                  *)
LEMMA InItsModule ==
    ASSUME input \in Inputs, NamesClear, NEW m \in Modules,
           NEW u \in Healthy, u.kind # "mod", u.parent = m.qname
    PROVE  /\ ModuleQname(u) = m.qname
           /\ \A v \in Healthy : v.kind # "mod" /\ v.parent = u.qname => ModuleQname(v) = m.qname
<1>1. m \in Healthy /\ m.kind = "mod"  BY DEF Modules
<1>2. PICK N \in Nat : N = Cardinality(Healthy)  BY HealthyFinite, FS_CardinalityType
<1>3. N >= 2
  <2>1. {u, m} \subseteq Healthy /\ u # m  BY <1>1
  <2>2. Cardinality({u, m}) = 2
    <3>1. IsFiniteSet({m}) /\ Cardinality({m}) = 1  BY FS_Singleton
    <3>2. Cardinality({m} \union {u}) = 1 + 1  BY <2>1, <3>1, FS_AddElement
    <3>3. {m} \union {u} = {u, m}  OBVIOUS
    <3> QED BY <3>2, <3>3
  <2>3. 2 <= N  BY <1>2, <2>1, <2>2, HealthyFinite, FS_Subset
  <2> QED BY <2>3
<1>4. Indexed(m.qname) \in Named(m.qname)
  <2>1. m \in Named(m.qname)  BY <1>1 DEF Named
  <2> QED BY <2>1, IndexedNamed
<1>5. Indexed(m.qname).kind = "mod" /\ Indexed(m.qname).qname = m.qname
  BY <1>1, <1>4 DEF Named, NamesClear
<1>6. ASSUME NEW w \in Healthy, w.kind # "mod", w.parent = m.qname
      PROVE  Above(w) = Indexed(m.qname)
  BY <1>4, <1>6 DEF Above
<1>7. ModuleQname(u) = m.qname
  <2>1. PICK up : Climb(u, up)  BY Climbs
  <2>2. 1 \in 0..N /\ 1 \in 1..N /\ 1 - 1 = 0  BY <1>3
  <2>3. up[1] = Above(u)  BY <1>2, <2>1, <2>2 DEF Climb
  <2>4. up[1].kind = "mod" /\ up[1].qname = m.qname  BY <1>5, <1>6, <2>3
  <2>5. 1 \in 0..Cardinality(Healthy) /\ Cardinality(Healthy) \in Nat  BY <1>2, <2>2
  <2> QED BY <2>1, <2>4, <2>5, ModuleMet
<1>8. ASSUME NEW v \in Healthy, v.kind # "mod", v.parent = u.qname
      PROVE  ModuleQname(v) = m.qname
  <2>1. PICK up : Climb(v, up)  BY Climbs
  <2>2. 1 \in 0..N /\ 1 \in 1..N /\ 1 - 1 = 0 /\ 2 \in 0..N /\ 2 \in 1..N /\ 2 - 1 = 1  BY <1>3
  <2>3. up[1] = Above(v) /\ up[2] = Above(up[1])  BY <1>2, <2>1, <2>2 DEF Climb
  <2>4. Indexed(u.qname) \in Named(u.qname)
    <3>1. u \in Named(u.qname)  BY DEF Named
    <3> QED BY <3>1, IndexedNamed
  <2>5. /\ up[1] = Indexed(u.qname) /\ up[1] \in Healthy
        /\ up[1].kind # "mod" /\ up[1].parent = m.qname
    BY <1>8, <2>3, <2>4 DEF Above, Named, NamesClear
  <2>6. up[2].kind = "mod" /\ up[2].qname = m.qname  BY <1>5, <1>6, <2>3, <2>5
  <2>7. 2 \in 0..Cardinality(Healthy) /\ Cardinality(Healthy) \in Nat  BY <1>2, <2>2
  <2> QED BY <2>1, <2>6, <2>7, ModuleMet
<1> QED BY <1>7, <1>8

---------------------------------------------------------------------------
(* Chunks.                                                                 *)

LEMMA ProductGrows ==
    ASSUME NEW s \in Nat, NEW a \in Nat, NEW b \in Nat, a <= b
    PROVE  /\ a * s \in Nat /\ b * s \in Nat /\ a * s <= b * s
           /\ (s > 0 /\ a < b) => a * s < b * s
<1>1. PICK d \in Nat : b = a + d  BY b - a \in Nat
<1>2. b * s = a * s + d * s  BY <1>1
<1>3. a * s \in Nat /\ b * s \in Nat /\ d * s \in Nat  OBVIOUS
<1>4. ASSUME s > 0, a < b PROVE d * s > 0
  <2>1. d > 0 /\ d \in Nat  BY <1>1, <1>4
  <2> QED BY <1>4, <2>1
<1> QED BY <1>2, <1>3, <1>4

LEMMA ProductBefore ==
    ASSUME NEW s \in Nat, NEW k \in Nat, k > 0
    PROVE  k - 1 \in Nat /\ (k - 1) * s \in Nat /\ k * s = (k - 1) * s + s
<1>1. PICK j \in Nat : j = k - 1 /\ k = j + 1  OBVIOUS
<1>2. (j + 1) * s = j * s + s  OBVIOUS
<1>3. j * s \in Nat  OBVIOUS
<1> QED BY <1>1, <1>2, <1>3

(* The steps at which the parts of a text begin.                           *)
CutAt(n, s, L, K) ==
    /\ L = ChunkChars /\ s <= L
    /\ \A k \in 0..n : k \in K <=> k * s < n /\ (k = 0 \/ (k - 1) * s + L < n)
    /\ \A c \in Chunks(n) : \E k \in K :
          c.from = k * s /\ c.to = IF k * s + L < n THEN k * s + L ELSE n
    /\ \A k \in K : \E c \in Chunks(n) :
          c.from = k * s /\ c.to = IF k * s + L < n THEN k * s + L ELSE n
    /\ \A c, d \in Chunks(n) : c.from = d.from => c = d

LEMMA ChunksAre ==
    ASSUME NEW n \in Nat
    PROVE  \E s \in Nat \ {0}, L \in Nat \ {0}, K \in SUBSET (0..n) : CutAt(n, s, L, K)
<1>1. PICK L \in Nat \ {0} : L = ChunkChars  BY CompressionAssumption
<1>2. PICK s \in Nat \ {0} : s = ChunkChars - OverlapChars /\ s <= L
  BY <1>1, CompressionAssumption
<1>3. PICK K : K = {k \in 0..n : k * s < n /\ (k = 0 \/ (k - 1) * s + L < n)}  OBVIOUS
<1> DEFINE end(i) == IF i + L < n THEN i + L ELSE n
<1>4. Chunks(n) = {[seq |-> k, from |-> k * s, to |-> end(k * s)] : k \in K}
  BY <1>1, <1>2, <1>3 DEF Chunks
<1>5. \A c \in Chunks(n) : \E k \in K : c = [seq |-> k, from |-> k * s, to |-> end(k * s)]
  BY <1>4
<1>6. \A k \in K : [seq |-> k, from |-> k * s, to |-> end(k * s)] \in Chunks(n)  BY <1>4
<1>7. ASSUME NEW c \in Chunks(n), NEW d \in Chunks(n), c.from = d.from PROVE c = d
  <2> HIDE DEF end
  <2>1. PICK k \in K : c = [seq |-> k, from |-> k * s, to |-> end(k * s)]  BY <1>5
  <2>2. PICK l \in K : d = [seq |-> l, from |-> l * s, to |-> end(l * s)]  BY <1>5
  <2>3. k * s = l * s  BY <1>7, <2>1, <2>2
  <2>4. k \in Nat /\ l \in Nat /\ s \in Nat /\ s > 0  BY <1>3
  <2>5. CASE k < l
    <3>1. k * s < l * s /\ k * s \in Nat  BY <2>4, <2>5, ProductGrows
    <3> QED BY <2>3, <3>1
  <2>6. CASE l < k
    <3>1. l * s < k * s /\ l * s \in Nat  BY <2>4, <2>6, ProductGrows
    <3> QED BY <2>3, <3>1
  <2>7. CASE k = l  BY <2>1, <2>2, <2>7
  <2> QED BY <2>4, <2>5, <2>6, <2>7
<1>8. \A c \in Chunks(n) : \E k \in K : c.from = k * s /\ c.to = end(k * s)
  <2> HIDE DEF end
  <2> QED BY <1>5
<1>9. \A k \in K : \E c \in Chunks(n) : c.from = k * s /\ c.to = end(k * s)
  <2> HIDE DEF end
  <2> QED BY <1>6
<1>10. /\ K \in SUBSET (0..n)
       /\ \A k \in 0..n : k \in K <=> k * s < n /\ (k = 0 \/ (k - 1) * s + L < n)
  BY <1>3
<1>11. CutAt(n, s, L, K)  BY <1>1, <1>2, <1>7, <1>8, <1>9, <1>10 DEF CutAt
<1> QED BY <1>10, <1>11

(* The parts cover the text, are no longer than a chunk may be, and none   *)
(* is within another.                                                      *)
LEMMA ChunksCover ==
    ASSUME NEW n \in Nat
    PROVE  /\ \A c \in 0..(n - 1) : \E k \in Chunks(n) : k.from <= c /\ c < k.to
           /\ \A k, l \in Chunks(n) : /\ k.to - k.from \in 1..ChunkChars
                                      /\ k.from <= l.from /\ l.to <= k.to => k = l
           /\ Chunks(n) # {} <=> n > 0
<1>0. PICK s \in Nat \ {0}, L \in Nat \ {0}, K \in SUBSET (0..n) : CutAt(n, s, L, K)
  BY ChunksAre
<1>1. /\ L = ChunkChars /\ s <= L
      /\ \A k \in 0..n : k \in K <=> k * s < n /\ (k = 0 \/ (k - 1) * s + L < n)
      /\ \A c \in Chunks(n) : \E k \in K :
            c.from = k * s /\ c.to = IF k * s + L < n THEN k * s + L ELSE n
      /\ \A k \in K : \E c \in Chunks(n) :
            c.from = k * s /\ c.to = IF k * s + L < n THEN k * s + L ELSE n
      /\ \A c, d \in Chunks(n) : c.from = d.from => c = d
  BY <1>0 DEF CutAt
<1>2. s \in Nat /\ s > 0 /\ L \in Nat /\ L > 0 /\ s <= L  BY <1>1
<1>3. \A k \in 0..n : k \in Nat /\ k * s \in Nat
  <2> SUFFICES ASSUME NEW k \in 0..n PROVE k \in Nat /\ k * s \in Nat  OBVIOUS
  <2>1. k \in Nat  OBVIOUS
  <2> QED BY <1>2, <2>1, ProductGrows
<1>4. ASSUME NEW c \in 0..(n - 1)
      PROVE  \E k \in Chunks(n) : k.from <= c /\ c < k.to
  <2>0. c \in Nat /\ n \in Nat /\ c < n  BY <1>4
  <2>1. PICK B : B = {k \in 0..n : c < k * s + L}  OBVIOUS
  <2>2. n \in B
    <3>1. n * 1 <= n * s
      <4>1. PICK d \in Nat : s = d + 1  BY <1>2, s - 1 \in Nat
      <4>2. n * s = n * d + n /\ n * d \in Nat  BY <4>1
      <4> QED BY <4>2
    <3>2. n \in 0..n /\ n * s \in Nat  BY <1>3
    <3> QED BY <1>2, <2>0, <2>1, <3>1, <3>2
  <2>3. B \in SUBSET Int /\ IsFiniteSet(B) /\ B # {}
    <3>1. IsFiniteSet(0..n)  BY FS_Interval
    <3>2. B \in SUBSET (0..n)  BY <2>1
    <3>3. IsFiniteSet(B)  BY <3>1, <3>2, FS_Subset
    <3>4. B # {}  BY <2>2
    <3>5. B \in SUBSET Int  BY <3>2
    <3> QED BY <3>3, <3>4, <3>5
  <2>4. PICK k \in B : \A j \in B : k <= j  BY <2>3, LeastElement
  <2>5. k \in 0..n /\ k \in Nat /\ k * s \in Nat /\ c < k * s + L  BY <1>3, <2>1, <2>4
  <2>6. k * s <= c /\ (k = 0 \/ (k - 1) * s + L <= c)
    <3>1. CASE k = 0
      <4>1. k * s = 0  BY <3>1, <1>2
      <4> QED BY <2>0, <3>1, <4>1
    <3>2. CASE k # 0
      <4>1. k - 1 \in Nat /\ (k - 1) * s \in Nat /\ k * s = (k - 1) * s + s
        BY <1>2, <2>5, <3>2, ProductBefore
      <4>2. k - 1 \in 0..n /\ ~(k <= k - 1)  BY <2>5, <3>2
      <4>3. k - 1 \notin B  BY <2>4, <4>2
      <4>4. (k - 1) * s + L <= c  BY <1>2, <2>0, <2>1, <4>1, <4>2, <4>3
      <4> QED BY <1>2, <2>0, <4>1, <4>4
    <3> QED BY <3>1, <3>2
  <2>7. k \in K
    <3>1. k * s < n  BY <2>0, <2>5, <2>6
    <3>2. k = 0 \/ (k - 1) * s + L < n
      <4>1. k = 0 \/ (k - 1) * s \in Nat  BY <1>2, <2>5, ProductBefore
      <4> QED BY <1>2, <2>0, <2>6, <4>1
    <3> QED BY <1>1, <2>5, <3>1, <3>2
  <2>8. PICK r \in Chunks(n) : r.from = k * s /\ r.to = IF k * s + L < n THEN k * s + L ELSE n
    BY <1>1, <2>7
  <2>9. r.from <= c /\ c < r.to  BY <2>0, <2>5, <2>6, <2>8
  <2> QED BY <2>9
<1>5. ASSUME NEW k \in Chunks(n), NEW l \in Chunks(n)
      PROVE  /\ k.to - k.from \in 1..L
             /\ k.from <= l.from /\ l.to <= k.to => k = l
  <2>1. PICK a \in K : k.from = a * s /\ k.to = IF a * s + L < n THEN a * s + L ELSE n  BY <1>1
  <2>2. PICK b \in K : l.from = b * s /\ l.to = IF b * s + L < n THEN b * s + L ELSE n  BY <1>1
  <2>3. /\ a \in 0..n /\ b \in 0..n /\ a * s < n /\ b * s < n
        /\ b = 0 \/ (b - 1) * s + L < n
        /\ a \in Nat /\ b \in Nat /\ a * s \in Nat /\ b * s \in Nat
    BY <1>1, <1>3
  <2>4. k.to - k.from \in 1..L  BY <1>2, <2>1, <2>3
  <2>5. ASSUME k.from <= l.from, l.to <= k.to PROVE k = l
    <3>1. a * s <= b * s  BY <2>1, <2>2, <2>5
    <3>2. CASE a = b  BY <1>1, <2>1, <2>2, <3>2
    <3>3. CASE b < a
      <4>1. b * s < a * s  BY <1>2, <2>3, <3>3, ProductGrows
      <4> QED BY <2>3, <3>1, <4>1
    <3>4. CASE a < b
      <4>1. b - 1 \in Nat /\ (b - 1) * s \in Nat /\ b * s = (b - 1) * s + s
        BY <1>2, <2>3, <3>4, ProductBefore
      <4>2. a <= b - 1  BY <2>3, <3>4
      <4>3. a * s <= (b - 1) * s  BY <1>2, <2>3, <4>1, <4>2, ProductGrows
      <4>4. a * s + L < n
        <5>1. b # 0  BY <2>3, <3>4
        <5>2. (b - 1) * s + L < n  BY <2>3, <5>1
        <5> QED BY <1>2, <2>3, <4>1, <4>3, <5>2
      <4>5. k.to = a * s + L  BY <2>1, <4>4
      <4>6. a * s < b * s  BY <1>2, <2>3, <3>4, ProductGrows
      <4>7. k.to < l.to  BY <1>2, <2>2, <2>3, <4>4, <4>5, <4>6
      <4>8. k.to \in Int /\ l.to \in Int  BY <1>2, <2>2, <2>3, <4>5
      <4> QED BY <2>5, <4>7, <4>8
    <3> QED BY <2>3, <3>2, <3>3, <3>4
  <2> QED BY <2>4, <2>5
<1>6. Chunks(n) # {} <=> n > 0
  <2>1. ASSUME n > 0 PROVE Chunks(n) # {}
    <3>1. 0 \in 0..(n - 1)  BY <2>1
    <3> QED BY <1>4, <3>1
  <2>2. ASSUME NEW c \in Chunks(n) PROVE n > 0
    <3>1. PICK k \in K : TRUE  BY <1>1, <2>2
    <3>2. k * s < n /\ k * s \in Nat  BY <1>1, <1>3, <3>1
    <3> QED BY <3>2
  <2> QED BY <2>1, <2>2
<1> QED BY <1>1, <1>4, <1>5, <1>6

---------------------------------------------------------------------------
(* The summaries.                                                          *)

LEMMA PublicInModule ==
    ASSUME input \in Inputs, NamesClear, NEW a \in DenseApis
    PROVE  \E m \in DenseModules : /\ m.id = a.id
                                   /\ \A name \in a.api : Listed(name, m, "fn", m.fn)
                                   /\ \A name \in a.cls : Listed(name, m, "cls", m.cls)
<1> DEFINE Group(m) == {u \in Healthy : ModuleQname(u) = m.qname}
           Leaves(m, kind) == {u.leaf : u \in {v \in Group(m) : v.kind = kind /\ v.parent = m.qname}}
           Public(m, kind) == {u.name : u \in {v \in Healthy :
                                  /\ v.parent = m.qname /\ v.public /\ v.kind = kind}}
<1>1. PICK m \in Modules :
         a = [id |-> m.qname, api |-> Public(m, "fn"), cls |-> Public(m, "cls")]
  BY DEF DenseApis
<1>2. PICK r \in DenseModules : /\ r.id = m.qname /\ r.fn = Leaves(m, "fn")
                                /\ r.cls = {u.leaf : u \in {v \in Group(m) : v.kind = "cls"}}
  <2> DEFINE Classes(x) == {u.leaf : u \in {v \in Group(x) : v.kind = "cls"}}
             Anchor(x) == UnitOf(Min({u.id : u \in {v \in Modules : v.qname = x.qname}}))
             Summary(x) == [id |-> x.qname, cls |-> Classes(x), fn |-> Leaves(x, "fn"),
                            const |-> Leaves(x, "const"), imp |-> Anchor(x).deps]
  <2>1. DenseModules = {Summary(x) : x \in Modules}  BY DEF DenseModules
  <2>2. Summary(m) \in DenseModules
    <3> HIDE DEF Summary
    <3> QED BY <2>1
  <2> QED BY <2>2
<1>3. ASSUME NEW u \in Healthy, u.kind # "mod", u.parent = m.qname PROVE u \in Group(m)
  BY <1>3, InItsModule
<1>4. \A name \in a.api : Listed(name, r, "fn", r.fn)  BY <1>1, <1>2, <1>3 DEF Listed
<1>5. \A name \in a.cls : Listed(name, r, "cls", r.cls)  BY <1>1, <1>2, <1>3 DEF Listed
<1> QED BY <1>1, <1>2, <1>4, <1>5

LEMMA SummaryOfModule ==
    ASSUME input \in Inputs, NEW m \in DenseModules
    PROVE  /\ \A leaf \in m.cls \union m.fn \union m.const : \E u \in Healthy : u.leaf = leaf
           /\ m.fn \subseteq {u.leaf : u \in {v \in Healthy : v.kind = "fn" /\ v.parent = m.id}}
           /\ NamesClear => \A u, v \in Healthy :
                 /\ u.kind = "fn" /\ u.parent = m.id => u.leaf \in m.fn
                 /\ u.kind = "cls" /\ u.parent = m.id => u.leaf \in m.cls
                 /\ /\ u.kind = "cls" /\ u.parent = m.id
                    /\ v.kind = "cls" /\ v.parent = u.qname
                    => v.leaf \in m.cls
<1> DEFINE Group(x) == {u \in Healthy : ModuleQname(u) = x.qname}
           Leaves(x, kind) == {u.leaf : u \in {v \in Group(x) : v.kind = kind /\ v.parent = x.qname}}
<1>1. PICK x \in Modules :
         /\ m.id = x.qname
         /\ m.cls = {u.leaf : u \in {v \in Group(x) : v.kind = "cls"}}
         /\ m.fn = Leaves(x, "fn") /\ m.const = Leaves(x, "const")
  <2> DEFINE Classes(x) == {u.leaf : u \in {v \in Group(x) : v.kind = "cls"}}
             Anchor(x) == UnitOf(Min({u.id : u \in {v \in Modules : v.qname = x.qname}}))
             Summary(x) == [id |-> x.qname, cls |-> Classes(x), fn |-> Leaves(x, "fn"),
                            const |-> Leaves(x, "const"), imp |-> Anchor(x).deps]
  <2>1. DenseModules = {Summary(x) : x \in Modules}  BY DEF DenseModules
  <2>2. PICK x \in Modules : m = Summary(x)
    <3> HIDE DEF Summary
    <3> QED BY <2>1
  <2> QED BY <2>2
<1>2. \A leaf \in m.cls \union m.fn \union m.const : \E u \in Healthy : u.leaf = leaf  BY <1>1
<1>3. m.fn \subseteq {u.leaf : u \in {v \in Healthy : v.kind = "fn" /\ v.parent = m.id}}  BY <1>1
<1>4. ASSUME NamesClear, NEW u \in Healthy, u.parent = m.id, u.kind \in {"fn", "cls"}
      PROVE  /\ u \in Group(x)
             /\ \A v \in Healthy : v.kind = "cls" /\ v.parent = u.qname => v \in Group(x)
  <2>1. u.kind # "mod" /\ u.parent = x.qname  BY <1>1, <1>4
  <2> QED BY <1>4, <2>1, InItsModule
<1>5. ASSUME NamesClear, NEW u \in Healthy, NEW v \in Healthy
      PROVE  /\ u.kind = "fn" /\ u.parent = m.id => u.leaf \in m.fn
             /\ u.kind = "cls" /\ u.parent = m.id => u.leaf \in m.cls
             /\ /\ u.kind = "cls" /\ u.parent = m.id
                /\ v.kind = "cls" /\ v.parent = u.qname
                => v.leaf \in m.cls
  BY <1>1, <1>4, <1>5
<1> QED BY <1>2, <1>3, <1>5

LEMMA SlicesMeet ==
    ASSUME NEW s \in DenseSlices, NEW t \in DenseSlices
    PROVE  t.id \in s.o <=> s.id \in t.i
<1>1. \A r \in DenseSlices : /\ r.o = {e[2] : e \in {x \in input.edges : x[1] = r.id}}
                             /\ r.i = {e[1] : e \in {x \in input.edges : x[2] = r.id}}
  <2> DEFINE Out(n) == {e[2] : e \in {x \in input.edges : x[1] = n.id}}
             In(n) == {e[1] : e \in {x \in input.edges : x[2] = n.id}}
             Slice(n) == [id |-> n.id, o |-> Out(n), i |-> In(n),
                          deg |-> Cardinality(Out(n)) + Cardinality(In(n))]
  <2>1. DenseSlices = {Slice(n) : n \in {x \in input.nodes : x.kind # "External"}}
    BY DEF DenseSlices
  <2> SUFFICES ASSUME NEW r \in DenseSlices PROVE r.o = Out(r) /\ r.i = In(r)  OBVIOUS
  <2>2. PICK n : r = Slice(n)
    <3> HIDE DEF Slice
    <3> QED BY <2>1
  <2>3. r.id = n.id /\ r.o = Out(n) /\ r.i = In(n)
    <3> HIDE DEF Out, In
    <3> QED BY <2>2
  <2> QED BY <2>3
<1> QED BY <1>1

(* What the invariant says of a result is what the property asks of it.    *)
LEMMA InvAgrees ==
    ASSUME CompressionInv
    PROVE  SummariesAgree
<1> SUFFICES ASSUME result # None PROVE SummariesAgree  BY DEF SummariesAgree
<1>1. input \in Inputs /\ DOMAIN encoded \subseteq Ids /\ result = Compressed  BY DEF CompressionInv
<1>2. /\ result.modules = DenseModules /\ result.apis = DenseApis /\ result.slices = DenseSlices
      /\ result.chunks = [i \in DOMAIN encoded |-> Chunks(UnitOf(i).chars)]
      /\ result.points = [i \in DOMAIN encoded |-> Chunks(UnitOf(i).chars) # {}]
  BY <1>1 DEF Compressed
<1>3. NamesClear => \A a \in result.apis : \E m \in result.modules :
         /\ m.id = a.id
         /\ \A name \in a.api : Listed(name, m, "fn", m.fn)
         /\ \A name \in a.cls : Listed(name, m, "cls", m.cls)
  BY <1>1, <1>2, PublicInModule
<1>4. \A s, t \in result.slices : t.id \in s.o <=> s.id \in t.i  BY <1>2, SlicesMeet
<1>5. ASSUME NEW i \in DOMAIN result.chunks
      PROVE  LET n == UnitOf(i).chars
                 cs == result.chunks[i] IN
             /\ \A c \in 0..(n - 1) : \E k \in cs : k.from <= c /\ c < k.to
             /\ \A k, l \in cs : /\ k.to - k.from \in 1..ChunkChars
                                 /\ k.from <= l.from /\ l.to <= k.to => k = l
             /\ result.points[i] = (n > 0)
  <2>1. i \in DOMAIN encoded /\ i \in Ids  BY <1>1, <1>2, <1>5
  <2>2. PICK n \in Nat : n = UnitOf(i).chars  BY <1>1, <2>1, UnitsNumbered
  <2>3. result.chunks[i] = Chunks(n) /\ result.points[i] = (Chunks(n) # {})  BY <1>2, <2>1, <2>2
  <2> QED BY <2>2, <2>3, ChunksCover
<1>6. ASSUME NEW m \in result.modules
      PROVE  /\ \A leaf \in m.cls \union m.fn \union m.const : \E u \in Healthy : u.leaf = leaf
             /\ m.fn \subseteq {u.leaf : u \in {v \in Healthy : v.kind = "fn" /\ v.parent = m.id}}
             /\ NamesClear => \A u, v \in Healthy :
                   /\ u.kind = "fn" /\ u.parent = m.id => u.leaf \in m.fn
                   /\ u.kind = "cls" /\ u.parent = m.id => u.leaf \in m.cls
                   /\ /\ u.kind = "cls" /\ u.parent = m.id
                      /\ v.kind = "cls" /\ v.parent = u.qname
                      => v.leaf \in m.cls
  BY <1>1, <1>2, SummaryOfModule
<1> QED BY <1>3, <1>4, <1>5, <1>6, Zenon DEF SummariesAgree

---------------------------------------------------------------------------
(* The run.                                                                *)

LEMMA CompressionBegins == CompressionInit => CompressionInv
<1> SUFFICES ASSUME CompressionInit PROVE CompressionInv  OBVIOUS
<1>1. input \in Inputs /\ cursor = First(Ids) /\ encoded = <<>> /\ result = None
  BY DEF CompressionInit
<1>2. cursor # None => cursor \in Ids  BY <1>1, UnitsNumbered, LeastIn DEF First
<1> QED BY <1>1, <1>2 DEF CompressionInv

LEMMA AfterIn ==
    ASSUME input \in Inputs, NEW i, After(i) # None
    PROVE  After(i) \in Ids
<1>1. PICK J : J = {j \in Ids : j > i}  OBVIOUS
<1>2. J \in SUBSET Ids /\ J # {}  BY <1>1 DEF After, First
<1>3. J \in SUBSET Int /\ IsFiniteSet(J)  BY <1>2, UnitsNumbered, FS_Subset
<1>4. Min(J) \in J  BY <1>2, <1>3, LeastIn
<1> QED BY <1>1, <1>2, <1>4 DEF After, First

LEMMA SameSummary ==
    ASSUME input' = input, encoded' = encoded
    PROVE  Compressed' = Compressed
BY DEF Compressed, DenseModules, DenseApis, DenseSlices, Chunks, ModuleQname, Modules, Indexed,
       Named, Healthy, Ids, UnitOf

LEMMA CompressionSteps ==
    ASSUME CompressionInv, [CompressionNext]_compressVars
    PROVE  CompressionInv'
<1>1. CASE EncodeUnit
  <2>1. /\ cursor \in Ids /\ input' = input /\ cursor' = After(cursor)
        /\ DOMAIN encoded' = DOMAIN encoded \union {cursor} /\ result' = None
    BY <1>1 DEF EncodeUnit, CompressionInv
  <2>2. Ids' = Ids  BY <2>1 DEF Ids
  <2> QED BY <2>1, <2>2, AfterIn DEF CompressionInv
<1>2. CASE EncodeFails
  <2>1. /\ input' = input /\ cursor' = After(cursor) /\ encoded' = encoded /\ result' = None
    BY <1>2 DEF EncodeFails, CompressionInv
  <2>2. Ids' = Ids  BY <2>1 DEF Ids
  <2> QED BY <2>1, <2>2, AfterIn DEF CompressionInv
<1>3. CASE Finish
  <2>1. /\ cursor' = None /\ input' = input /\ encoded' = encoded /\ result' = Compressed
    BY <1>3 DEF Finish
  <2>2. Ids' = Ids  BY <2>1 DEF Ids
  <2>3. Compressed' = Compressed  BY <2>1, SameSummary
  <2> QED BY <2>1, <2>2, <2>3 DEF CompressionInv
<1>4. CASE UNCHANGED compressVars
  <2>1. /\ cursor' = cursor /\ input' = input /\ encoded' = encoded /\ result' = result
    BY <1>4 DEF compressVars
  <2>2. Ids' = Ids  BY <2>1 DEF Ids
  <2>3. Compressed' = Compressed  BY <2>1, SameSummary
  <2> QED BY <2>1, <2>2, <2>3 DEF CompressionInv
<1> QED BY <1>1, <1>2, <1>3, <1>4 DEF CompressionNext

(* The summaries of a run always agree: whatever units fail, what the API, *)
(* the modules, the graph slices and the chunks say of the repository is   *)
(* one story (SummariesAgree).                                             *)
THEOREM SummariesAlwaysAgree == CompressionSpec => []SummariesAgree
<1>1. CompressionInv /\ [CompressionNext]_compressVars => CompressionInv'  BY CompressionSteps
<1>2. CompressionInv => SummariesAgree  BY InvAgrees
<1> QED BY CompressionBegins, <1>1, <1>2, PTL DEF CompressionSpec

---------------------------------------------------------------------------
(* The unit table and the tools that answer from it, for any rows, names,  *)
(* limits and budget.  The invariant: finitely many rows, as the files'    *)
(* ingests give them.                                                      *)

TableInv ==
    /\ IsFiniteSet(DOMAIN rows) /\ DOMAIN rows \subseteq Int
    /\ \A i \in DOMAIN rows : /\ {rows[i].repo, rows[i].last} \subseteq Int
                              /\ rows[i].first \in Nat \ {0}
                              /\ rows[i].qname \in DOMAIN NameRank

LEMMA TableStart == TableInit => TableInv
<1> SUFFICES ASSUME TableInit PROVE TableInv  OBVIOUS
<1>1. DOMAIN rows = {}  BY DEF TableInit
<1> QED BY <1>1, FS_EmptySet DEF TableInv

LEMMA TableStep ==
    ASSUME TableInv, [TableNext]_rows
    PROVE  TableInv'
<1>1. ASSUME NEW batch \in Batches, UpsertUnits(batch) PROVE TableInv'
  <2>1. PICK written : written = {u \in batch : Changes(u)}  OBVIOUS
  <2>2. PICK ids : ids = {u.id : u \in written}  OBVIOUS
  <2> DEFINE From(i) == CHOOSE u \in written : u.id = i
  <2>3. \A i \in ids : From(i) \in written  BY <2>2
  <2> HIDE DEF From
  <2>4. rows' = [i \in DOMAIN rows \union ids |-> IF i \in ids THEN Row(From(i)) ELSE rows[i]]
    BY <1>1, <2>1, <2>2 DEF UpsertUnits, From
  <2>5. IsFiniteSet(written) /\ written \subseteq batch  BY <2>1, TableAssumption, FS_Subset
  <2>6. \A u \in written : /\ {u.id, u.repo, u.last} \subseteq Int /\ u.first \in Nat \ {0}
                           /\ u.qname \in DOMAIN NameRank
    BY <2>5, TableAssumption
  <2>7. IsFiniteSet(ids)
    <3>1. PICK id : id = [u \in written |-> u.id]  OBVIOUS
    <3>2. id \in Surjection(written, ids)  BY <2>2, <3>1 DEF Surjection
    <3> QED BY <2>5, <3>2, FS_Surjection
  <2>8. DOMAIN rows' = DOMAIN rows \union ids  BY <2>4
  <2>9. IsFiniteSet(DOMAIN rows') /\ DOMAIN rows' \subseteq Int
    <3>1. IsFiniteSet(DOMAIN rows \union ids)  BY <2>7, FS_Union DEF TableInv
    <3> QED BY <2>2, <2>6, <2>8, <3>1 DEF TableInv
  <2>10. ASSUME NEW i \in DOMAIN rows'
         PROVE  /\ {rows'[i].repo, rows'[i].last} \subseteq Int /\ rows'[i].first \in Nat \ {0}
                /\ rows'[i].qname \in DOMAIN NameRank
    <3>1. CASE i \in ids
      <4>1. rows'[i] = Row(From(i)) /\ From(i) \in written  BY <2>3, <2>4, <3>1
      <4> QED BY <2>6, <4>1 DEF Row
    <3>2. CASE i \notin ids
      <4>1. rows'[i] = rows[i] /\ i \in DOMAIN rows  BY <2>4, <2>8, <3>2
      <4> QED BY <4>1 DEF TableInv
    <3> QED BY <3>1, <3>2
  <2> QED BY <2>9, <2>10 DEF TableInv
<1>2. ASSUME NEW j \in DOMAIN rows, DeleteUnitsForFile(rows[j].repo, rows[j].file) PROVE TableInv'
  <2>1. PICK left \in SUBSET DOMAIN rows : rows' = [i \in left |-> rows[i]]
    BY <1>2 DEF DeleteUnitsForFile
  <2>2. DOMAIN rows' = left /\ IsFiniteSet(left)  BY <2>1, FS_Subset DEF TableInv
  <2> QED BY <2>1, <2>2 DEF TableInv
<1>3. CASE UNCHANGED rows  BY <1>3 DEF TableInv
<1> QED BY <1>1, <1>2, <1>3 DEF TableNext

---------------------------------------------------------------------------

(* The first n of a sequence.                                              *)
LEMMA TakeIs ==
    ASSUME NEW S, NEW s \in Seq(S), NEW n \in Nat
    PROVE  /\ Take(s, n) \in Seq(S) /\ Len(Take(s, n)) = IF n < Len(s) THEN n ELSE Len(s)
           /\ \A k \in 1..Len(Take(s, n)) : k \in 1..Len(s) /\ Take(s, n)[k] = s[k]
<1>1. PICK m \in Nat : m = (IF n < Len(s) THEN n ELSE Len(s)) /\ m <= Len(s)  OBVIOUS
<1>2. Take(s, n) = SubSeq(s, 1, m)  BY <1>1 DEF Take, LesserOf
<1>3. \A i \in 1..m : s[i] \in S /\ i \in 1..Len(s)  BY <1>1
<1>4. /\ SubSeq(s, 1, m) \in Seq(S) /\ Len(SubSeq(s, 1, m)) = IF 1 <= m THEN m - 1 + 1 ELSE 0
      /\ \A i \in 1..(m - 1 + 1) : SubSeq(s, 1, m)[i] = s[1 + i - 1]
  BY <1>3, SubSeqProperties
<1>5. PICK t : t = SubSeq(s, 1, m)  OBVIOUS
<1>6. Len(t) = m
  <2>1. CASE 1 <= m
    <3>1. m - 1 + 1 = m  OBVIOUS
    <3> QED BY <1>4, <1>5, <2>1, <3>1
  <2>2. CASE m = 0  BY <1>4, <1>5, <2>2
  <2> QED BY <2>1, <2>2
<1>7. ASSUME NEW k \in 1..m PROVE t[k] = s[k]
  <2>1. k \in 1..(m - 1 + 1) /\ 1 + k - 1 = k  OBVIOUS
  <2> QED BY <1>4, <1>5, <2>1
<1> QED BY <1>1, <1>2, <1>3, <1>4, <1>5, <1>6, <1>7

LEMMA TakeTwice ==
    ASSUME NEW S, NEW s \in Seq(S), NEW n \in Nat
    PROVE  Take(Take(s, n + 1), n) = Take(s, n)
<1>1. PICK m \in Nat : m = n + 1  OBVIOUS
<1>2. PICK t \in Seq(S) : t = Take(s, m) /\ Len(t) = (IF m < Len(s) THEN m ELSE Len(s))
                          /\ \A k \in 1..Len(t) : t[k] = s[k]
  BY TakeIs
<1>3. PICK u \in Seq(S) : u = Take(t, n) /\ Len(u) = (IF n < Len(t) THEN n ELSE Len(t))
                          /\ \A k \in 1..Len(u) : k \in 1..Len(t) /\ u[k] = t[k]
  BY TakeIs
<1>4. PICK v \in Seq(S) : v = Take(s, n) /\ Len(v) = (IF n < Len(s) THEN n ELSE Len(s))
                          /\ \A k \in 1..Len(v) : v[k] = s[k]
  BY TakeIs
<1>5. Len(u) = Len(v)  BY <1>1, <1>2, <1>3, <1>4
<1>6. \A k \in 1..Len(u) : u[k] = v[k]  BY <1>2, <1>3, <1>4, <1>5
<1>7. u = v  BY <1>5, <1>6, SeqEqual
<1> QED BY <1>1, <1>2, <1>3, <1>4, <1>7

(* What the first of a set in some order are: as many as asked for or      *)
(* there are, and before all the others.                                   *)
FirstIn(t, S, R, n) ==
    /\ t \in Seq(S) /\ ToSet(t) \subseteq S
    /\ Len(t) = (IF n < Cardinality(S) THEN n ELSE Cardinality(S))
    /\ Cardinality(ToSet(t)) = Len(t) /\ IsFiniteSet(ToSet(t))
    /\ Cardinality(S) <= n => ToSet(t) = S
    /\ \A i \in ToSet(t), j \in S \ ToSet(t) : <<i, j>> \in R

LEMMA FirstTaken ==
    ASSUME NEW S, IsFiniteSet(S), NEW R, StrictTotal(S, R), NEW n \in Nat
    PROVE  FirstIn(Take(Sorted(S, R), n), S, R, n)
<1>1. PICK N \in Nat : N = Cardinality(S)  BY FS_CardinalityType
<1>2. PICK s : s = Sorted(S, R)  OBVIOUS
<1>3. /\ s \in [1..N -> S] /\ \A x \in S : \E k \in 1..N : s[k] = x
      /\ \A k, m \in 1..N : (k < m <=> <<s[k], s[m]>> \in R) /\ (s[k] = s[m] => k = m)
  <2>1. /\ Sorted(S, R) \in [1..Cardinality(S) -> S]
        /\ \A x \in S : \E k \in 1..Cardinality(S) : Sorted(S, R)[k] = x
        /\ \A k, m \in 1..Cardinality(S) :
              /\ k < m <=> <<Sorted(S, R)[k], Sorted(S, R)[m]>> \in R
              /\ Sorted(S, R)[k] = Sorted(S, R)[m] => k = m
    BY SortedInOrder
  <2> QED BY <1>1, <1>2, <2>1
<1>4. s \in Seq(S) /\ Len(s) = N  BY <1>3, FunctionIsSequence
<1>5. PICK t : t = Take(s, n)  OBVIOUS
<1>6. PICK m \in Nat : m = (IF n < N THEN n ELSE N) /\ m <= N  BY <1>1
<1>7. t \in Seq(S) /\ Len(t) = m /\ DOMAIN t = 1..m /\ \A k \in 1..m : k \in 1..N /\ t[k] = s[k]
  <2>1. /\ Take(s, n) \in Seq(S) /\ Len(Take(s, n)) = IF n < Len(s) THEN n ELSE Len(s)
        /\ \A k \in 1..Len(Take(s, n)) : k \in 1..Len(s) /\ Take(s, n)[k] = s[k]
    BY <1>4, TakeIs
  <2>2. Len(t) = m  BY <1>4, <1>5, <1>6, <2>1
  <2>3. t \in Seq(S)  BY <1>5, <2>1
  <2>4. DOMAIN t = 1..m  BY <2>2, <2>3
  <2>5. \A k \in 1..m : k \in 1..N /\ t[k] = s[k]  BY <1>4, <1>5, <2>1, <2>2
  <2> QED BY <2>2, <2>3, <2>4, <2>5
<1>8. ToSet(t) = {s[k] : k \in 1..m}  BY <1>7 DEF ToSet
<1>9. ToSet(t) \subseteq S  BY <1>3, <1>7, <1>8
<1>10. IsFiniteSet(ToSet(t)) /\ Cardinality(ToSet(t)) = m
  <2>1. PICK f : f = [k \in 1..m |-> s[k]]  OBVIOUS
  <2>2. f \in Bijection(1..m, ToSet(t))
    <3>1. f \in [1..m -> ToSet(t)]  BY <1>8, <2>1
    <3>2. f \in Surjection(1..m, ToSet(t))  BY <1>8, <2>1, <3>1 DEF Surjection
    <3>3. \A a, b \in 1..m : f[a] = f[b] => a = b  BY <1>3, <1>7, <2>1
    <3>4. f \in Injection(1..m, ToSet(t))  BY <3>1, <3>3 DEF Injection, IsInjective
    <3> QED BY <3>2, <3>4 DEF Bijection
  <2>3. IsFiniteSet(1..m) /\ Cardinality(1..m) = m
    <3>1. IsFiniteSet(1..m) /\ Cardinality(1..m) = IF 1 > m THEN 0 ELSE m - 1 + 1  BY FS_Interval
    <3> QED BY <3>1
  <2> QED BY <2>2, <2>3, FS_Bijection DEF ExistsBijection
<1>11. N <= n => ToSet(t) = S
  <2> SUFFICES ASSUME N <= n PROVE S \subseteq ToSet(t)  BY <1>9
  <2>1. m = N  BY <1>6
  <2> QED BY <1>3, <1>8, <2>1
<1>12. ASSUME NEW i \in ToSet(t), NEW j \in S \ ToSet(t) PROVE <<i, j>> \in R
  <2>1. PICK k \in 1..m : i = s[k]  BY <1>8
  <2>2. PICK h \in 1..N : j = s[h]  BY <1>3
  <2>3. ~(h \in 1..m)  BY <1>8, <2>2
  <2>4. k \in 1..N /\ k < h  BY <1>6, <1>7, <2>3
  <2> QED BY <1>3, <2>1, <2>2, <2>4
<1> QED BY <1>1, <1>2, <1>5, <1>6, <1>7, <1>9, <1>10, <1>11, <1>12 DEF FirstIn

(* What is cut in parts and merged: the first of what the parts gave are   *)
(* the first of all, if each that was cut off had n before it.             *)
CutAfter(S, T, R, n) ==
    \A j \in S \ T :
        \E F \in SUBSET T : Cardinality(F) = n /\ IsFiniteSet(F) /\ \A x \in F : <<x, j>> \in R

Ahead(t, S, R) == \A i \in ToSet(t), j \in S \ ToSet(t) : <<i, j>> \in R

LEMMA MergedFirst ==
    ASSUME NEW S, NEW R, StrictTotal(S, R), NEW T \in SUBSET S, NEW n \in Nat, NEW t, FirstIn(t, T, R, n),
           CutAfter(S, T, R, n)
    PROVE  Ahead(t, S, R)
<1> SUFFICES ASSUME NEW i \in ToSet(t), NEW j \in S \ T PROVE <<i, j>> \in R  BY DEF FirstIn, Ahead
<1>1. i \in T /\ i # j  BY DEF FirstIn
<1>2. SUFFICES ASSUME <<j, i>> \in R PROVE FALSE  BY <1>1 DEF StrictTotal
<1>3. PICK F \in SUBSET T : Cardinality(F) = n /\ IsFiniteSet(F) /\ \A x \in F : <<x, j>> \in R
  BY DEF CutAfter
<1>4. \A x \in F : x \in S /\ <<x, i>> \in R  BY <1>1, <1>2, <1>3 DEF StrictTotal
<1>5. \A x \in F : <<i, x>> \notin R /\ x # i  BY <1>1, <1>4 DEF StrictTotal
<1>6. F \union {i} \in SUBSET ToSet(t)  BY <1>3, <1>5 DEF FirstIn
<1>7. Cardinality(F \union {i}) = n + 1
  <2>1. i \notin F  BY <1>5
  <2> QED BY <1>3, <2>1, FS_AddElement
<1>8. Cardinality(F \union {i}) <= Cardinality(ToSet(t))  BY <1>6, FS_Subset DEF FirstIn
<1>9. Cardinality(ToSet(t)) <= n
  <2>1. IsFiniteSet(ToSet(t)) /\ Cardinality(ToSet(t)) \in Nat  BY FS_CardinalityType DEF FirstIn
  <2> QED BY <2>1 DEF FirstIn
<1>10. Cardinality(ToSet(t)) \in Nat  BY FS_CardinalityType DEF FirstIn
<1> QED BY <1>7, <1>8, <1>9, <1>10

---------------------------------------------------------------------------
(* The orders of the answers.                                              *)

(* A list in a strict total order is sorted by its pairs.                  *)
LEMMA MatchesSorted ==
    ASSUME TableInv, NEW S \in SUBSET DOMAIN rows
    PROVE  \E R : /\ StrictTotal(S, R) /\ Ordered(S, MatchOrder) = Sorted(S, R)
                  /\ \A i, j \in S : <<i, j>> \in R <=> MatchOrder(i, j)
<1>1. PICK R : R = {p \in S \X S : MatchOrder(p[1], p[2])}  OBVIOUS
<1>2. \A i, j \in S : <<i, j>> \in R <=> MatchOrder(i, j)  BY <1>1
<1>3. PICK length : length = [i \in S |-> NameLength[rows[i].qname]]  OBVIOUS
<1>4. PICK rank : rank = [i \in S |-> NameRank[rows[i].qname]]  OBVIOUS
<1>5. PICK id : id = [i \in S |-> i]  OBVIOUS
<1>6. length \in [S -> Int] /\ rank \in [S -> Int] /\ id \in [S -> Int]
  BY <1>3, <1>4, <1>5, TableAssumption DEF TableInv
<1>7. \A i, j \in S : /\ rows[i].qname = rows[j].qname <=> rank[i] = rank[j]
                      /\ rows[i].qname = rows[j].qname => length[i] = length[j]
  BY <1>3, <1>4, TableAssumption DEF TableInv
<1>8. \A i, j \in S : MatchOrder(i, j) <=>
         (\/ length[i] < length[j]
          \/ length[i] = length[j] /\ rank[i] < rank[j]
          \/ length[i] = length[j] /\ rank[i] = rank[j] /\ id[i] < id[j])
  <2>1. \A i, j \in S : /\ ShorterName(rows[i].qname, rows[j].qname) <=>
                             length[i] < length[j] \/ (length[i] = length[j] /\ rank[i] < rank[j])
                        /\ i < j <=> id[i] < id[j]
    BY <1>3, <1>4, <1>5 DEF ShorterName
  <2> QED BY <1>7, <2>1 DEF MatchOrder
<1>9. ByKeys(S, length, rank, id, R)
  <2>1. \A i, j \in S : id[i] = id[j] => i = j  BY <1>5
  <2> QED BY <1>2, <1>6, <1>8, <2>1 DEF ByKeys
<1>10. StrictTotal(S, R)  BY <1>9, ByNumbers
<1>11. \A j \in S : {i \in S : MatchOrder(i, j)} = Below(S, R, j)  BY <1>2 DEF Below
<1>12. Ordered(S, MatchOrder)
         = [n \in 1..Cardinality(S) |-> CHOOSE j \in S : Cardinality({i \in S : MatchOrder(i, j)}) = n - 1]
  BY DEF Ordered
<1>13. Ordered(S, MatchOrder) = Sorted(S, R)  BY <1>11, <1>12 DEF Sorted
<1> QED BY <1>2, <1>10, <1>13

LEMMA MergeSorted ==
    ASSUME TableInv, NEW S \in SUBSET DOMAIN rows
    PROVE  \E R : /\ StrictTotal(DOMAIN rows, R) /\ Ordered(S, MergeOrder) = Sorted(S, R)
                  /\ \A i, j \in DOMAIN rows : <<i, j>> \in R <=> MergeOrder(i, j)
<1>1. PICK D : D = DOMAIN rows  OBVIOUS
<1>2. PICK R : R = {p \in D \X D : MergeOrder(p[1], p[2])}  OBVIOUS
<1>3. \A i, j \in D : <<i, j>> \in R <=> MergeOrder(i, j)  BY <1>2
<1>4. PICK length : length = [i \in D |-> NameLength[rows[i].qname]]  OBVIOUS
<1>5. PICK rank : rank = [i \in D |-> NameRank[rows[i].qname]]  OBVIOUS
<1>6. PICK repo : repo = [i \in D |-> rows[i].repo]  OBVIOUS
<1>7. \A i \in D : length[i] \in Int /\ rank[i] \in Int /\ repo[i] \in Int /\ i \in Int
  BY <1>1, <1>4, <1>5, <1>6, TableAssumption DEF TableInv
<1>8. \A i, j \in D : /\ rows[i].qname = rows[j].qname <=> rank[i] = rank[j]
                      /\ rows[i].qname = rows[j].qname => length[i] = length[j]
  BY <1>1, <1>4, <1>5, TableAssumption DEF TableInv
<1>9. \A i, j \in D : MergeOrder(i, j) <=>
         (\/ length[i] < length[j]
          \/ length[i] = length[j] /\ rank[i] < rank[j]
          \/ length[i] = length[j] /\ rank[i] = rank[j] /\ repo[i] < repo[j]
          \/ length[i] = length[j] /\ rank[i] = rank[j] /\ repo[i] = repo[j] /\ i < j)
  BY <1>4, <1>5, <1>6, <1>8 DEF MergeOrder, ShorterName
<1>10. \A i \in D : <<i, i>> \notin R  BY <1>3, <1>7, <1>9
<1>11. \A i, j, k \in D : <<i, j>> \in R /\ <<j, k>> \in R => <<i, k>> \in R  BY <1>3, <1>7, <1>9
<1>12. ASSUME NEW i \in D, NEW j \in D, <<i, j>> \notin R, <<j, i>> \notin R PROVE i = j
  <2>1. ~MergeOrder(i, j) /\ ~MergeOrder(j, i)  BY <1>3, <1>12
  <2>2. length[i] = length[j]  BY <1>7, <1>9, <2>1
  <2>3. rank[i] = rank[j]  BY <1>7, <1>9, <2>1, <2>2
  <2>4. repo[i] = repo[j]  BY <1>7, <1>9, <2>1, <2>2, <2>3
  <2> QED BY <1>7, <1>9, <2>1, <2>2, <2>3, <2>4
<1>13. StrictTotal(D, R)  BY <1>10, <1>11, <1>12 DEF StrictTotal
<1>14. \A j \in S : {i \in S : MergeOrder(i, j)} = Below(S, R, j)  BY <1>1, <1>3 DEF Below
<1>15. Ordered(S, MergeOrder)
         = [n \in 1..Cardinality(S) |-> CHOOSE j \in S : Cardinality({i \in S : MergeOrder(i, j)}) = n - 1]
  BY DEF Ordered
<1>16. Ordered(S, MergeOrder) = Sorted(S, R)  BY <1>14, <1>15 DEF Sorted
<1> QED BY <1>1, <1>3, <1>13, <1>16

LEMMA SubsetTotal ==
    ASSUME NEW S, NEW R, StrictTotal(S, R), NEW T \in SUBSET S
    PROVE  StrictTotal(T, R)
BY DEF StrictTotal

(* What one repository answers: its first matches, and whether there are   *)
(* more.                                                                   *)
MatchesIn(repo, names) == {i \in RowsOfRepo(repo) : rows[i].qname \in names}

AnswersFor(answer, M, limit) ==
    \E R : /\ FirstIn(Take(answer, limit), M, R, limit)
           /\ Len(answer) > limit <=> Cardinality(M) > limit
           /\ IsFiniteSet(M) /\ \A i, j \in M : <<i, j>> \in R <=> MatchOrder(i, j)

LEMMA OneRepoAnswers ==
    ASSUME TableInv, NEW repo, NEW names, NEW limit \in Nat
    PROVE  AnswersFor(FindInRepo(repo, names, limit), MatchesIn(repo, names), limit)
<1>0. PICK M : M = MatchesIn(repo, names)  OBVIOUS
<1>1. M \in SUBSET DOMAIN rows /\ IsFiniteSet(M)
  <2>1. M \in SUBSET DOMAIN rows  BY <1>0 DEF RowsOfRepo, MatchesIn
  <2> QED BY <2>1, FS_Subset DEF TableInv
<1>2. PICK R : /\ StrictTotal(M, R) /\ Ordered(M, MatchOrder) = Sorted(M, R)
               /\ \A i, j \in M : <<i, j>> \in R <=> MatchOrder(i, j)
  BY <1>1, MatchesSorted
<1>3. PICK m \in Nat : m = limit + 1  OBVIOUS
<1>4. PICK s : s = Sorted(M, R)  OBVIOUS
<1>5. FindInRepo(repo, names, limit) = Take(s, m)
  BY <1>0, <1>2, <1>3, <1>4 DEF FindInRepo, SearchQnames, MatchesIn
<1>6. FirstIn(Take(s, m), M, R, m) /\ FirstIn(Take(s, limit), M, R, limit)
  BY <1>1, <1>2, <1>4, FirstTaken
<1>7. s \in Seq(M)  BY <1>1, <1>2, <1>4, SortedLists DEF Lists
<1>8. Take(Take(s, m), limit) = Take(s, limit)  BY <1>3, <1>7, TakeTwice
<1>9. Cardinality(M) \in Nat  BY <1>1, FS_CardinalityType
<1>10. Len(Take(s, m)) > limit <=> Cardinality(M) > limit
  <2>1. Len(Take(s, m)) = (IF m < Cardinality(M) THEN m ELSE Cardinality(M))  BY <1>6 DEF FirstIn
  <2> QED BY <1>3, <1>9, <2>1
<1> QED BY <1>0, <1>1, <1>2, <1>5, <1>6, <1>8, <1>10 DEF AnswersFor

(* find_symbol, one question at a time.                                    *)
LEMMA OneSymbolHonest ==
    ASSUME TableInv, NEW q \in Searches, NEW tier1 \in Tiers, ~(q.meta /\ tier1 = "sqlite"),
           NEW all, all = {i \in DOMAIN rows : rows[i].qname \in q.matches /\ rows[i].repo \in TargetRepos(q)},
           NEW got, got = FindSymbol(q, tier1)
    PROVE  /\ got.truncated <=> Cardinality(all) > q.limit
           /\ Len(got.matches) = IF got.truncated THEN q.limit ELSE Cardinality(all)
           /\ \A i \in ToSet(got.matches), j \in all \ ToSet(got.matches) :
                 ~ShorterName(rows[j].qname, rows[i].qname)
<1>1. PICK limit \in Nat : limit = q.limit  BY TableAssumption
<1>2. PICK repos : repos = TargetRepos(q)  OBVIOUS
<1> DEFINE M(r) == MatchesIn(r, q.matches)
           A(r) == FindInRepo(r, q.matches, limit)
           G(r) == ToSet(Take(A(r), limit))
<1>3. ASSUME NEW r
      PROVE  /\ IsFiniteSet(M(r)) /\ G(r) \subseteq M(r) /\ IsFiniteSet(G(r))
             /\ Len(A(r)) > limit <=> Cardinality(M(r)) > limit
             /\ Cardinality(M(r)) <= limit => G(r) = M(r)
             /\ Cardinality(M(r)) > limit => Cardinality(G(r)) = limit
             /\ \A x \in G(r), j \in M(r) \ G(r) : MatchOrder(x, j)
  <2>1. PICK N : N = M(r)  OBVIOUS
  <2>2. AnswersFor(A(r), N, limit)  BY <2>1, OneRepoAnswers
  <2>3. IsFiniteSet(N)  BY <2>2 DEF AnswersFor
  <2>4. Cardinality(N) \in Nat  BY <2>3, FS_CardinalityType
  <2> HIDE DEF M, A
  <2>5. PICK R : /\ FirstIn(Take(A(r), limit), N, R, limit)
                 /\ Len(A(r)) > limit <=> Cardinality(N) > limit
                 /\ \A i, j \in N : <<i, j>> \in R <=> MatchOrder(i, j)
    BY <2>2 DEF AnswersFor
  <2> QED BY <2>1, <2>3, <2>4, <2>5 DEF FirstIn
<1>4. PICK T : T = UNION {G(r) : r \in repos}  OBVIOUS
<1>5. PICK order : order = Ordered(T, MergeOrder)  OBVIOUS
<1>6. got = [matches |-> Take(order, limit),
             truncated |-> (\E r \in repos : Len(A(r)) > limit) \/ Len(order) > limit]
  <2>1. Like(q, tier1) = q.matches  BY DEF Like
  <2> QED BY <1>1, <1>2, <1>4, <1>5, <2>1 DEF FindSymbol
<1>7. \A j : j \in all <=> \E r \in repos : j \in M(r) /\ rows[j].repo = r
  BY <1>2 DEF RowsOfRepo, MatchesIn
<1>8. \A r : \A j \in M(r) : rows[j].repo = r  BY DEF RowsOfRepo, MatchesIn
<1> HIDE DEF M, A, G
<1>9. T \in SUBSET all  BY <1>3, <1>4, <1>7, <1>8
<1>10. all \in SUBSET DOMAIN rows /\ IsFiniteSet(all) /\ IsFiniteSet(T)
       /\ Cardinality(all) \in Nat /\ Cardinality(T) \in Nat /\ Cardinality(T) <= Cardinality(all)
  <2>1. all \in SUBSET DOMAIN rows  OBVIOUS
  <2>2. IsFiniteSet(all)  BY <2>1, FS_Subset DEF TableInv
  <2>3. IsFiniteSet(T) /\ Cardinality(T) <= Cardinality(all)  BY <1>9, <2>2, FS_Subset
  <2> QED BY <2>1, <2>2, <2>3, FS_CardinalityType
<1>11. PICK R : /\ StrictTotal(DOMAIN rows, R) /\ order = Sorted(T, R)
                /\ \A i, j \in DOMAIN rows : <<i, j>> \in R <=> MergeOrder(i, j)
  <2>1. T \in SUBSET DOMAIN rows  BY <1>9, <1>10
  <2> QED BY <1>5, <2>1, MergeSorted
<1>12. StrictTotal(all, R) /\ StrictTotal(T, R)  BY <1>9, <1>10, <1>11, SubsetTotal
<1>13. PICK t : t = Take(order, limit)  OBVIOUS
<1>14. FirstIn(t, T, R, limit)  BY <1>10, <1>11, <1>12, <1>13, FirstTaken
<1>15. Len(order) = Cardinality(T)  BY <1>10, <1>11, <1>12, SortedLists DEF Lists
<1>16. \A r \in repos : Cardinality(M(r)) \in Nat /\ Cardinality(G(r)) \in Nat
  BY <1>3, FS_CardinalityType
<1>17. (\A r \in repos : ~(Cardinality(M(r)) > limit)) => T = all
  BY <1>3, <1>4, <1>7, <1>9, <1>16
<1>18. ASSUME NEW r \in repos, Cardinality(M(r)) > limit
       PROVE  limit < Cardinality(all) /\ limit <= Cardinality(T)
  <2>1. M(r) \in SUBSET all  BY <1>7, <1>8
  <2>2. G(r) \in SUBSET T  BY <1>4
  <2>3. Cardinality(M(r)) <= Cardinality(all)  BY <1>10, <2>1, FS_Subset
  <2>4. Cardinality(G(r)) <= Cardinality(T)  BY <1>10, <2>2, FS_Subset
  <2> QED BY <1>3, <1>10, <1>16, <1>18, <2>3, <2>4
<1>19. got.truncated <=> Cardinality(all) > limit
  <2>1. got.truncated <=> (\E r \in repos : Cardinality(M(r)) > limit) \/ Cardinality(T) > limit
    <3>1. got.truncated = ((\E r \in repos : Len(A(r)) > limit) \/ Len(order) > limit)  BY <1>6
    <3>2. (\E r \in repos : Len(A(r)) > limit) <=> \E r \in repos : Cardinality(M(r)) > limit  BY <1>3
    <3> QED BY <1>15, <3>1, <3>2
  <2> QED BY <1>10, <1>17, <1>18, <2>1
<1>20. Len(got.matches) = IF got.truncated THEN limit ELSE Cardinality(all)
  <2>1. got.matches = t  BY <1>6, <1>13
  <2>2. Len(t) = IF limit < Cardinality(T) THEN limit ELSE Cardinality(T)  BY <1>14 DEF FirstIn
  <2>3. CASE \E r \in repos : Cardinality(M(r)) > limit
    <3>1. limit < Cardinality(all) /\ limit <= Cardinality(T)  BY <1>18, <2>3
    <3>2. Len(t) = limit  BY <1>10, <2>2, <3>1
    <3> QED BY <1>19, <2>1, <3>1, <3>2
  <2>4. CASE ~\E r \in repos : Cardinality(M(r)) > limit
    <3>1. Cardinality(T) = Cardinality(all)  BY <1>17, <2>4
    <3>2. got.truncated <=> limit < Cardinality(T)  BY <1>10, <1>19, <3>1
    <3> QED BY <2>1, <2>2, <3>1, <3>2
  <2> QED BY <2>3, <2>4
<1>21. \A i, j \in DOMAIN rows : rows[i].repo = rows[j].repo /\ MatchOrder(i, j) => MergeOrder(i, j)
  BY DEF MatchOrder, MergeOrder
<1>22. ASSUME NEW j \in all \ T
       PROVE  \E F \in SUBSET T : Cardinality(F) = limit /\ IsFiniteSet(F) /\ \A x \in F : <<x, j>> \in R
  <2>1. PICK r \in repos : j \in M(r) /\ rows[j].repo = r  BY <1>7
  <2>2. G(r) \in SUBSET T /\ j \notin G(r) /\ IsFiniteSet(G(r))  BY <1>3, <1>4
  <2>3. Cardinality(G(r)) = limit  BY <1>3, <1>16, <2>1, <2>2
  <2>4. ASSUME NEW x \in G(r) PROVE <<x, j>> \in R
    <3>1. MatchOrder(x, j) /\ x \in M(r)  BY <1>3, <2>1, <2>2
    <3>2. rows[x].repo = rows[j].repo /\ x \in DOMAIN rows /\ j \in DOMAIN rows
      BY <1>7, <1>8, <1>10, <2>1, <3>1
    <3> QED BY <1>11, <1>21, <3>1, <3>2
  <2> QED BY <2>2, <2>3, <2>4
<1>23. \A i \in ToSet(t), j \in all \ ToSet(t) : <<i, j>> \in R
  <2>1. CutAfter(all, T, R, limit)  BY <1>22 DEF CutAfter
  <2>2. Ahead(t, all, R)  BY <1>9, <1>12, <1>14, <2>1, MergedFirst
  <2> QED BY <2>2 DEF Ahead
<1>24. ASSUME NEW i \in ToSet(t), NEW j \in all \ ToSet(t)
       PROVE  ~ShorterName(rows[j].qname, rows[i].qname)
  <2>1. i \in DOMAIN rows /\ j \in DOMAIN rows  BY <1>9, <1>10, <1>14 DEF FirstIn
  <2>2. <<i, j>> \in R /\ <<j, i>> \notin R  BY <1>11, <1>23, <2>1 DEF StrictTotal
  <2>3. ShorterName(rows[j].qname, rows[i].qname) => MergeOrder(j, i)  BY DEF MergeOrder
  <2> QED BY <1>11, <2>1, <2>2, <2>3
<1>25. got.matches = t  BY <1>6, <1>13
<1> QED BY <1>1, <1>19, <1>20, <1>24, <1>25

---------------------------------------------------------------------------

\* Hits of units of the table, each with its id.
Hits(H) ==
    /\ IsFiniteSet(H)
    /\ \A a \in H : /\ a.id \in Int /\ a.score \in Int /\ a.qname \in DOMAIN NameRank
                     /\ rows[a.id].repo \in Int
    /\ \A a, b \in H : a.id = b.id => a = b

LEMMA HitsSorted ==
    ASSUME NEW H, Hits(H)
    PROVE  \E R : /\ StrictTotal(H, R) /\ Ordered(H, HitOrder) = Sorted(H, R)
                  /\ \A a, b \in H : <<a, b>> \in R <=> HitOrder(a, b)
<1>1. PICK R : R = {p \in H \X H : HitOrder(p[1], p[2])}  OBVIOUS
<1>2. \A a, b \in H : <<a, b>> \in R <=> HitOrder(a, b)  BY <1>1
<1>3. PICK score : score = [a \in H |-> Rounded(a.score)]  OBVIOUS
<1>4. PICK rank : rank = [a \in H |-> NameRank[a.qname]]  OBVIOUS
<1>5. PICK repo : repo = [a \in H |-> rows[a.id].repo]  OBVIOUS
<1>6. PICK id : id = [a \in H |-> a.id]  OBVIOUS
<1>7. /\ \A a \in H : score[a] \in Int /\ rank[a] \in Int /\ repo[a] \in Int /\ id[a] \in Int
      /\ \A a, b \in H : id[a] = id[b] => a = b
  <2>1. \A a \in H : Rounded(a.score) \in Int  BY DEF Hits, Rounded
  <2> QED BY <1>3, <1>4, <1>5, <1>6, <2>1, TableAssumption DEF Hits
<1>8. \A a, b \in H : a.qname = b.qname <=> rank[a] = rank[b]
  BY <1>4, TableAssumption DEF Hits
<1>9. \A a, b \in H : HitOrder(a, b) <=>
         (\/ score[a] > score[b]
          \/ score[a] = score[b] /\ rank[a] < rank[b]
          \/ score[a] = score[b] /\ rank[a] = rank[b] /\ repo[a] < repo[b]
          \/ score[a] = score[b] /\ rank[a] = rank[b] /\ repo[a] = repo[b] /\ id[a] < id[b])
  <2>1. \A a, b \in H : /\ Rounded(a.score) = score[a] /\ NameRank[a.qname] = rank[a]
                        /\ rows[a.id].repo = repo[a] /\ a.id = id[a]
    BY <1>3, <1>4, <1>5, <1>6
  <2> QED BY <1>8, <2>1 DEF HitOrder
<1>10. \A a \in H : <<a, a>> \notin R  BY <1>2, <1>7, <1>9
<1>11. \A a, b, c \in H : <<a, b>> \in R /\ <<b, c>> \in R => <<a, c>> \in R  BY <1>2, <1>7, <1>9
<1>12. ASSUME NEW a \in H, NEW b \in H, <<a, b>> \notin R, <<b, a>> \notin R PROVE a = b
  <2>1. ~HitOrder(a, b) /\ ~HitOrder(b, a)  BY <1>2, <1>12
  <2>2. score[a] = score[b]  BY <1>7, <1>9, <2>1
  <2>3. rank[a] = rank[b]  BY <1>7, <1>9, <2>1, <2>2
  <2>4. repo[a] = repo[b]  BY <1>7, <1>9, <2>1, <2>2, <2>3
  <2> QED BY <1>7, <1>9, <2>1, <2>2, <2>3, <2>4
<1>13. StrictTotal(H, R)  BY <1>10, <1>11, <1>12 DEF StrictTotal
<1>14. \A b \in H : {a \in H : HitOrder(a, b)} = Below(H, R, b)  BY <1>2 DEF Below
<1>15. Ordered(H, HitOrder)
         = [n \in 1..Cardinality(H) |-> CHOOSE b \in H : Cardinality({a \in H : HitOrder(a, b)}) = n - 1]
  BY DEF Ordered
<1>16. Ordered(H, HitOrder) = Sorted(H, R)  BY <1>14, <1>15 DEF Sorted
<1> QED BY <1>2, <1>13, <1>16

(* The ranking of one repository, cut: as many of its hits as asked for or *)
(* as there are, and none of the others is better.                         *)
LEMMA TopBest ==
    ASSUME NEW H, Hits(H), NEW k \in Nat
    PROVE  /\ TopHits(H, k) \subseteq H /\ IsFiniteSet(TopHits(H, k))
           /\ Cardinality(TopHits(H, k)) = LesserOf(k, Cardinality(H))
           /\ \A a \in TopHits(H, k), b \in H \ TopHits(H, k) : a.score >= b.score
<1>1. PICK R : R = {p \in H \X H : RankOrder(p[1], p[2])}  OBVIOUS
<1>2. \A a, b \in H : <<a, b>> \in R <=> RankOrder(a, b)  BY <1>1
<1>3. \A a \in H : a.score \in Int /\ a.id \in Int  BY DEF Hits
<1>4. \A a, b \in H : a.id = b.id => a = b  BY DEF Hits
<1>5. StrictTotal(H, R)
  <2>1. PICK score : score = [a \in H |-> a.score]  OBVIOUS
  <2>2. PICK id : id = [a \in H |-> a.id]  OBVIOUS
  <2>3. \A a \in H : score[a] \in Int /\ id[a] \in Int  BY <1>3, <2>1, <2>2
  <2>4. \A a, b \in H : <<a, b>> \in R <=> score[a] > score[b] \/ (score[a] = score[b] /\ id[a] < id[b])
    BY <1>2, <2>1, <2>2 DEF RankOrder
  <2>5. \A a, b \in H : id[a] = id[b] => a = b  BY <1>4, <2>2
  <2>6. \A a \in H : <<a, a>> \notin R  BY <2>3, <2>4
  <2>7. \A a, b, c \in H : <<a, b>> \in R /\ <<b, c>> \in R => <<a, c>> \in R  BY <2>3, <2>4
  <2>8. \A a, b \in H : <<a, b>> \notin R /\ <<b, a>> \notin R => a = b  BY <2>3, <2>4, <2>5
  <2> QED BY <2>6, <2>7, <2>8 DEF StrictTotal
<1>6. Ordered(H, RankOrder) = Sorted(H, R)
  <2>1. \A b \in H : {a \in H : RankOrder(a, b)} = Below(H, R, b)  BY <1>2 DEF Below
  <2>2. Ordered(H, RankOrder)
         = [n \in 1..Cardinality(H) |-> CHOOSE b \in H : Cardinality({a \in H : RankOrder(a, b)}) = n - 1]
    BY DEF Ordered
  <2> QED BY <2>1, <2>2 DEF Sorted
<1>7. PICK t : t = Take(Sorted(H, R), k)  OBVIOUS
<1>8. FirstIn(t, H, R, k)  BY <1>5, <1>7, FirstTaken DEF Hits
<1>9. TopHits(H, k) = ToSet(t)  BY <1>6, <1>7 DEF TopHits
<1>10. ASSUME NEW a \in ToSet(t), NEW b \in H \ ToSet(t) PROVE a.score >= b.score
  <2>1. a \in H /\ RankOrder(a, b)  BY <1>2, <1>8 DEF FirstIn
  <2>2. PICK x \in Int, y \in Int : x = a.score /\ y = b.score  BY <1>3, <2>1
  <2>3. x > y \/ x = y  BY <2>1, <2>2 DEF RankOrder
  <2> QED BY <2>2, <2>3
<1>11. Cardinality(ToSet(t)) = LesserOf(k, Cardinality(H))  BY <1>8 DEF FirstIn, LesserOf
<1> QED BY <1>8, <1>9, <1>10, <1>11 DEF FirstIn

(* The budget keeps a first part of the hits, the first hit among them.    *)
LEMMA BudgetKeeps ==
    ASSUME NEW S, NEW hits \in Seq(S)
    PROVE  \E n \in 0..Len(hits) :
              /\ KeepHits(hits).results = Take(hits, n)
              /\ ~KeepHits(hits).full => n = Len(hits)
              /\ Len(hits) > 0 => n > 0
<1> DEFINE spent[n \in 0..Len(hits)] == IF n = 0 THEN 0 ELSE spent[n - 1] + hits[n].tokens + 50
           over == {n \in 2..Len(hits) : spent[n] > MaxTokens}
<1>1. KeepHits(hits) = [results |-> Take(hits, IF over = {} THEN Len(hits) ELSE Min(over) - 1),
                        full    |-> over # {}]
  BY DEF KeepHits
<1>2. over \in SUBSET (2..Len(hits))  OBVIOUS
<1> HIDE DEF over
<1>3. KeepHits(hits).results = Take(hits, IF over = {} THEN Len(hits) ELSE Min(over) - 1)
      /\ KeepHits(hits).full = (over # {})
  BY <1>1
<1>4. CASE over = {}
  <2>1. Len(hits) \in 0..Len(hits)  OBVIOUS
  <2> QED BY <1>3, <1>4, <2>1
<1>5. CASE over # {}
  <2>1. PICK l \in Nat : l = Len(hits)  OBVIOUS
  <2>2. over \in SUBSET (2..l)  BY <1>2, <2>1
  <2>3. over \in SUBSET Int /\ IsFiniteSet(over)
    <3>1. 2 \in Int /\ l \in Int  OBVIOUS
    <3>2. IsFiniteSet(2..l)  BY <3>1, FS_Interval
    <3>3. 2..l \subseteq Int  OBVIOUS
    <3> QED BY <2>2, <3>2, <3>3, FS_Subset
  <2>4. PICK m \in 2..l : m = Min(over)  BY <1>5, <2>2, <2>3, LeastIn
  <2>5. PICK n \in 0..Len(hits) : n = Min(over) - 1 /\ n > 0
    <3>1. m - 1 \in 0..l /\ m - 1 > 0  OBVIOUS
    <3> QED BY <2>1, <2>4, <3>1
  <2> QED BY <1>3, <1>5, <2>5
<1> QED BY <1>4, <1>5

LEMMA HitsKept ==
    ASSUME NEW H, Hits(H), NEW kept, kept = KeepHits(Ordered(H, HitOrder))
    PROVE  /\ ToSet(kept.results) \subseteq H
           /\ ~kept.full => ToSet(kept.results) = H
           /\ \A a \in ToSet(kept.results), b \in H \ ToSet(kept.results) :
                 ~(Rounded(b.score) > Rounded(a.score))
           /\ H # {} => kept.results # <<>>
<1>1. PICK R : /\ StrictTotal(H, R) /\ Ordered(H, HitOrder) = Sorted(H, R)
               /\ \A a, b \in H : <<a, b>> \in R <=> HitOrder(a, b)
  BY HitsSorted
<1>2. PICK hits : hits = Sorted(H, R)  OBVIOUS
<1>3. hits \in Seq(H) /\ Len(hits) = Cardinality(H)  BY <1>1, <1>2, SortedLists DEF Lists, Hits
<1>4. PICK n \in 0..Len(hits) : /\ kept.results = Take(hits, n)
                                /\ ~kept.full => n = Len(hits)
                                /\ Len(hits) > 0 => n > 0
  BY <1>1, <1>2, <1>3, BudgetKeeps
<1>5. n \in Nat /\ Cardinality(H) \in Nat /\ n <= Cardinality(H)  BY <1>3
<1>6. PICK t : t = kept.results /\ t = Take(hits, n)  BY <1>4
<1>7. FirstIn(t, H, R, n)  BY <1>1, <1>2, <1>5, <1>6, FirstTaken DEF Hits
<1>8. ~kept.full => ToSet(t) = H  BY <1>3, <1>4, <1>5, <1>7 DEF FirstIn
<1>9. ASSUME NEW a \in ToSet(t), NEW b \in H \ ToSet(t) 
      PROVE ~(Rounded(b.score) > Rounded(a.score))
  <2>1. a \in H /\ HitOrder(a, b)  BY <1>1, <1>7 DEF FirstIn
  <2>2. Rounded(a.score) > Rounded(b.score) \/ Rounded(a.score) = Rounded(b.score)  BY <2>1 DEF HitOrder
  <2>3. PICK x \in Int, y \in Int : x = Rounded(a.score) /\ y = Rounded(b.score)
    BY <2>1 DEF Hits, Rounded
  <2>4. x > y \/ x = y  BY <2>2, <2>3
  <2>5. ~(y > x)  BY <2>4
  <2> QED BY <2>3, <2>5
<1>10. H # {} => t # <<>>
  <2> SUFFICES ASSUME H # {} PROVE Len(t) # 0  OBVIOUS
  <2>1. Cardinality(H) # 0  BY FS_EmptySet DEF Hits
  <2>2. n > 0  BY <1>3, <1>4, <1>5, <2>1
  <2> QED BY <1>5, <1>7, <2>1, <2>2 DEF FirstIn
<1>11. ToSet(t) \subseteq H  BY <1>7 DEF FirstIn
<1> QED BY <1>6, <1>8, <1>9, <1>10, <1>11

(* find_symbol and search_code, over all repositories.                     *)
LEMMA TableSearchHonest ==
    ASSUME TableInv
    PROVE  SearchHonest
<1>1. ASSUME NEW q \in Searches, NEW tier1 \in Tiers, ~(q.meta /\ tier1 = "sqlite")
      PROVE  LET all == {i \in DOMAIN rows : rows[i].qname \in q.matches /\ rows[i].repo \in TargetRepos(q)}
                 got == FindSymbol(q, tier1) IN
             /\ got.truncated <=> Cardinality(all) > q.limit
             /\ Len(got.matches) = (IF got.truncated THEN q.limit ELSE Cardinality(all))
             /\ FirstOfAll(got.matches, all,
                           LAMBDA i, j : ShorterName(rows[i].qname, rows[j].qname))
  <2>1. PICK all : all = {i \in DOMAIN rows : rows[i].qname \in q.matches /\ rows[i].repo \in TargetRepos(q)}
    OBVIOUS
  <2>2. PICK got : got = FindSymbol(q, tier1)  OBVIOUS
  <2>3. /\ got.truncated <=> Cardinality(all) > q.limit
        /\ Len(got.matches) = IF got.truncated THEN q.limit ELSE Cardinality(all)
        /\ \A i \in ToSet(got.matches), j \in all \ ToSet(got.matches) :
              ~ShorterName(rows[j].qname, rows[i].qname)
    BY <1>1, <2>1, <2>2, OneSymbolHonest
  <2> QED BY <2>1, <2>2, <2>3 DEF FirstOfAll
<1>2. SymbolsHonest  BY <1>1 DEF SymbolsHonest
<1> DEFINE Hit(i) == [id |-> i, qname |-> rows[i].qname, score |-> 4 * rows[i].first,
                      tokens |-> rows[i].tokens]
<1>3. \A r \in RepoIds : RankedHits[r] = {Hit(i) : i \in RowsOfRepo(r)}
  <2>1. RankedHits = [r \in RepoIds |-> {Hit(i) : i \in RowsOfRepo(r)}]  BY DEF RankedHits
  <2> HIDE DEF Hit
  <2> QED BY <2>1
<1>4. \A i \in DOMAIN rows : Hit(i).id = i /\ Hit(i).score \in Int /\ Hit(i).qname \in DOMAIN NameRank
                             /\ i \in Int /\ rows[i].repo \in Int
  BY DEF TableInv
<1> HIDE DEF Hit
<1>5. ASSUME NEW H, \A a \in H : \E i \in DOMAIN rows : a = Hit(i)
      PROVE  Hits(H)
  <2>1. IsFiniteSet(H)
    <3>1. PICK T : T = {Hit(i) : i \in DOMAIN rows}  OBVIOUS
    <3>2. PICK f : f = [i \in DOMAIN rows |-> Hit(i)]  OBVIOUS
    <3>3. f \in Surjection(DOMAIN rows, T)  BY <3>1, <3>2 DEF Surjection
    <3>4. IsFiniteSet(T)  BY <3>3, FS_Surjection DEF TableInv
    <3>5. H \in SUBSET T  BY <1>5, <3>1
    <3> QED BY <3>4, <3>5, FS_Subset
  <2> QED BY <1>4, <1>5, <2>1 DEF Hits
<1>6. ASSUME NEW r \in RepoIds
      PROVE  Hits(RankedHits[r]) /\ RankedHits[r] # {} /\ \A a \in RankedHits[r] : \E i \in DOMAIN rows : a = Hit(i)
  <2>1. \A a \in RankedHits[r] : \E i \in DOMAIN rows : a = Hit(i)  BY <1>3 DEF RowsOfRepo
  <2>2. PICK i \in RowsOfRepo(r) : TRUE  BY DEF RepoIds, RowsOfRepo
  <2>3. Hit(i) \in RankedHits[r]  BY <1>3, <2>2
  <2>4. PICK F : F = RankedHits[r]  OBVIOUS
  <2>5. Hits(F)  BY <1>5, <2>1, <2>4
  <2> QED BY <2>1, <2>3, <2>4, <2>5
<1>7. ASSUME NEW q \in Searches, NEW failing \in {{}} \union {{r} : r \in RepoIds}
      PROVE  LET top == [r \in RepoIds |-> TopHits(RankedHits[r], q.limit)]
                 all == UNION {top[r] : r \in RepoIds \ failing}
                 got == SearchCode(RankedHits, failing, q.limit) IN
             /\ \A r \in RepoIds :
                   /\ top[r] \subseteq RankedHits[r]
                   /\ Cardinality(top[r]) = LesserOf(q.limit, Cardinality(RankedHits[r]))
                   /\ \A a \in top[r], b \in RankedHits[r] \ top[r] : a.score >= b.score
             /\ got # None =>
                   /\ ToSet(got.results) \subseteq all
                   /\ ~got.truncated => ToSet(got.results) = all
                   /\ FirstOfAll(got.results, all, LAMBDA a, b : Rounded(a.score) > Rounded(b.score))
                   /\ RepoIds \ failing # {} => got.results # <<>>
  <2>1. PICK limit \in Nat \ {0} : limit = q.limit  BY TableAssumption
  <2>2. PICK top : top = [r \in RepoIds |-> TopHits(RankedHits[r], limit)]  OBVIOUS
  <2>3. PICK all : all = UNION {top[r] : r \in RepoIds \ failing}  OBVIOUS
  <2>4. PICK got : got = SearchCode(RankedHits, failing, limit)  OBVIOUS
  <2>5. PICK kept : kept = KeepHits(Ordered(all, HitOrder))  OBVIOUS
  <2>6. got # None => got = [results |-> kept.results, truncated |-> kept.full, failed |-> failing]
    <3>1. UNION {TopHits(RankedHits[r], limit) : r \in RepoIds \ failing} = all  BY <2>2, <2>3
    <3> QED BY <2>4, <2>5, <3>1 DEF SearchCode
  <2>7. got # None => got.results = kept.results /\ got.truncated = kept.full  BY <2>6
  <2>8. ASSUME NEW r \in RepoIds
        PROVE  /\ top[r] \subseteq RankedHits[r]
               /\ Cardinality(top[r]) = LesserOf(limit, Cardinality(RankedHits[r]))
               /\ \A a \in top[r], b \in RankedHits[r] \ top[r] : a.score >= b.score
               /\ top[r] # {}
    <3>1. PICK F : F = RankedHits[r]  OBVIOUS
    <3>2. Hits(F) /\ F # {}  BY <1>6, <3>1
    <3>3. /\ TopHits(F, limit) \subseteq F /\ IsFiniteSet(TopHits(F, limit))
          /\ Cardinality(TopHits(F, limit)) = LesserOf(limit, Cardinality(F))
          /\ \A a \in TopHits(F, limit), b \in F \ TopHits(F, limit) : a.score >= b.score
      BY <3>2, TopBest
    <3>4. top[r] = TopHits(F, limit)  BY <2>2, <3>1
    <3>5. Cardinality(F) \in Nat /\ Cardinality(F) # 0
      BY <3>2, FS_CardinalityType, FS_EmptySet DEF Hits
    <3>6. LesserOf(limit, Cardinality(F)) # 0  BY <3>5 DEF LesserOf
    <3>7. top[r] # {}  BY <3>3, <3>4, <3>6, FS_EmptySet
    <3> QED BY <3>1, <3>3, <3>4, <3>7
  <2>9. \A a \in all : \E i \in DOMAIN rows : a = Hit(i)
    <3> SUFFICES ASSUME NEW a \in all PROVE \E i \in DOMAIN rows : a = Hit(i)  OBVIOUS
    <3>1. PICK r \in RepoIds : a \in top[r]  BY <2>3
    <3> QED BY <1>6, <2>8, <3>1
  <2>10. Hits(all)  BY <1>5, <2>9
  <2>11. /\ ToSet(kept.results) \subseteq all
         /\ ~kept.full => ToSet(kept.results) = all
         /\ \A a \in ToSet(kept.results), b \in all \ ToSet(kept.results) :
               ~(Rounded(b.score) > Rounded(a.score))
         /\ all # {} => kept.results # <<>>
    BY <2>5, <2>10, HitsKept
  <2>12. RepoIds \ failing # {} => all # {}
    <3> SUFFICES ASSUME NEW r \in RepoIds \ failing PROVE all # {}  OBVIOUS
    <3>1. top[r] # {}  BY <2>8
    <3> QED BY <2>3, <3>1
  <2>13. FirstOfAll(kept.results, all, LAMBDA a, b : Rounded(a.score) > Rounded(b.score))
    BY <2>11 DEF FirstOfAll
  <2> QED BY <2>1, <2>2, <2>3, <2>4, <2>7, <2>8, <2>11, <2>12, <2>13 DEF FirstOfAll
<1>8. CodeHonest  BY <1>7, Zenon DEF CodeHonest
<1> QED BY <1>2, <1>8 DEF SearchHonest

---------------------------------------------------------------------------
(* Reading a file, a name and the scopes around a unit.                    *)

\* The rows of a file, an enclosing one before what it encloses.
FileListed(order, S) ==
    /\ order \in Seq(S) /\ \A x \in S : \E n \in DOMAIN order : order[n] = x
    /\ \A m, n \in DOMAIN order : m < n => FileOrder(order[m], order[n])

LEMMA EnclosingListed ==
    ASSUME TableInv, NEW repo, NEW file
    PROVE  FileListed(Enclosing(repo, file), RowsOfFile(repo, file))
<1>1. PICK S : S = RowsOfFile(repo, file)  OBVIOUS
<1>2. S \in SUBSET DOMAIN rows  BY <1>1 DEF RowsOfFile
<1>3. IsFiniteSet(S)  BY <1>2, FS_Subset DEF TableInv
<1>4. PICK R : R = {p \in S \X S : FileOrder(p[1], p[2])}  OBVIOUS
<1>5. \A i, j \in S : <<i, j>> \in R <=> FileOrder(i, j)  BY <1>4
<1>6. PICK start : start = [i \in S |-> rows[i].first]  OBVIOUS
<1>7. PICK end : end = [i \in S |-> -rows[i].last]  OBVIOUS
<1>8. PICK id : id = [i \in S |-> i]  OBVIOUS
<1>9. start \in [S -> Int] /\ end \in [S -> Int] /\ id \in [S -> Int]
  BY <1>2, <1>6, <1>7, <1>8 DEF TableInv
<1>10. \A i, j \in S : FileOrder(i, j) <=>
         (\/ start[i] < start[j]
          \/ start[i] = start[j] /\ end[i] < end[j]
          \/ start[i] = start[j] /\ end[i] = end[j] /\ id[i] < id[j])
  <2> SUFFICES ASSUME NEW i \in S, NEW j \in S
               PROVE  FileOrder(i, j) <=>
                         (\/ start[i] < start[j]
                          \/ start[i] = start[j] /\ end[i] < end[j]
                          \/ start[i] = start[j] /\ end[i] = end[j] /\ id[i] < id[j])
    OBVIOUS
  <2>1. PICK a \in Int, b \in Int : a = rows[i].last /\ b = rows[j].last  BY <1>2 DEF TableInv
  <2>2. (a > b <=> -a < -b) /\ (a = b <=> -a = -b)  OBVIOUS
  <2>3. /\ rows[i].last > rows[j].last <=> end[i] < end[j]
        /\ rows[i].last = rows[j].last <=> end[i] = end[j]
    BY <1>7, <2>1, <2>2
  <2> QED BY <1>6, <1>8, <2>3 DEF FileOrder
<1>11. ByKeys(S, start, end, id, R)
  <2>1. \A i, j \in S : id[i] = id[j] => i = j  BY <1>8
  <2> QED BY <1>5, <1>9, <1>10, <2>1 DEF ByKeys
<1>12. StrictTotal(S, R)  BY <1>11, ByNumbers
<1>13. \A j \in S : {i \in S : FileOrder(i, j)} = Below(S, R, j)  BY <1>5 DEF Below
<1>14. Ordered(S, FileOrder)
         = [n \in 1..Cardinality(S) |-> CHOOSE j \in S : Cardinality({i \in S : FileOrder(i, j)}) = n - 1]
  BY DEF Ordered
<1>15. Ordered(S, FileOrder) = Sorted(S, R)  BY <1>13, <1>14 DEF Sorted
<1>16. PICK N \in Nat : N = Cardinality(S)  BY <1>3, FS_CardinalityType
<1>17. PICK order : order = Sorted(S, R)  OBVIOUS
<1>18. /\ order \in [1..N -> S] /\ \A x \in S : \E n \in 1..N : order[n] = x
       /\ \A m, n \in 1..N : m < n <=> <<order[m], order[n]>> \in R
  <2>1. /\ Sorted(S, R) \in [1..Cardinality(S) -> S]
        /\ \A x \in S : \E n \in 1..Cardinality(S) : Sorted(S, R)[n] = x
        /\ \A m, n \in 1..Cardinality(S) :
              /\ m < n <=> <<Sorted(S, R)[m], Sorted(S, R)[n]>> \in R
              /\ Sorted(S, R)[m] = Sorted(S, R)[n] => m = n
    BY <1>3, <1>12, SortedInOrder
  <2> QED BY <1>16, <1>17, <2>1
<1>19. order \in Seq(S) /\ DOMAIN order = 1..N  BY <1>18, FunctionIsSequence
<1>20. \A m, n \in DOMAIN order : m < n => FileOrder(order[m], order[n])  BY <1>5, <1>18, <1>19
<1>21. FileListed(order, S)  BY <1>18, <1>19, <1>20 DEF FileListed
<1> QED BY <1>1, <1>15, <1>17, <1>21 DEF Enclosing

(* The positions of a list are finitely many numbers.                      *)
LEMMA PositionsFinite ==
    ASSUME NEW S, NEW s \in Seq(S), NEW at \in SUBSET DOMAIN s
    PROVE  at \in SUBSET Int /\ IsFiniteSet(at)
<1>1. PICK l \in Nat : l = Len(s) /\ DOMAIN s = 1..l  OBVIOUS
<1>2. IsFiniteSet(1..l) /\ 1..l \subseteq Int  BY FS_Interval
<1> QED BY <1>1, <1>2, FS_Subset

(* A path that has rows stands for one of them.                            *)
LEMMA ModuleFound ==
    ASSUME TableInv, NEW repo, NEW file, RowsOfFile(repo, file) # {}
    PROVE  ModuleOfFile(repo, file) \in RowsOfFile(repo, file)
<1>1. PICK S : S = RowsOfFile(repo, file)  OBVIOUS
<1>2. PICK order : order = Enclosing(repo, file)  OBVIOUS
<1>3. FileListed(order, S)  BY <1>1, <1>2, EnclosingListed
<1>4. order \in Seq(S) /\ order # <<>>
  <2>1. PICK x \in S : TRUE  BY <1>1
  <2>2. PICK n \in DOMAIN order : order[n] = x  BY <1>3 DEF FileListed
  <2> QED BY <1>3, <2>2 DEF FileListed
<1>5. PICK mods : mods = {n \in DOMAIN order : IsModule(order[n])}  OBVIOUS
<1>6. PICK n : n = (IF mods = {} THEN 1 ELSE Min(mods))  OBVIOUS
<1>7. ModuleOfFile(repo, file) = order[n]  BY <1>2, <1>4, <1>5, <1>6 DEF ModuleOfFile
<1>8. n \in DOMAIN order
  <2>1. CASE mods = {}
    <3>1. Len(order) \in Nat /\ Len(order) # 0 /\ DOMAIN order = 1..Len(order)  BY <1>4
    <3> QED BY <1>6, <2>1, <3>1
  <2>2. CASE mods # {}
    <3>1. mods \in SUBSET DOMAIN order  BY <1>5
    <3>2. mods \in SUBSET Int /\ IsFiniteSet(mods)  BY <1>4, <3>1, PositionsFinite
    <3>3. Min(mods) \in mods  BY <2>2, <3>2, LeastIn
    <3> QED BY <1>6, <2>2, <3>1, <3>3
  <2> QED BY <2>1, <2>2
<1> QED BY <1>1, <1>4, <1>7, <1>8

(* The first by line of some rows is one of them.                          *)
LEMMA FirstFound ==
    ASSUME TableInv, NEW S \in SUBSET DOMAIN rows, S # {}
    PROVE  FirstByLine(S) \in S
<1>1. PICK starts : starts = {rows[i].first : i \in S}  OBVIOUS
<1>2. IsFiniteSet(starts)
  <2>1. PICK f : f = [i \in S |-> rows[i].first]  OBVIOUS
  <2>2. f \in Surjection(S, starts)  BY <1>1, <2>1 DEF Surjection
  <2>3. IsFiniteSet(S)  BY FS_Subset DEF TableInv
  <2> QED BY <2>2, <2>3, FS_Surjection
<1>3. starts \in SUBSET Int /\ starts # {}  BY <1>1 DEF TableInv
<1>4. PICK least \in starts : \A k \in starts : least <= k  BY <1>2, <1>3, LeastElement
<1>5. \E i \in S : \A j \in S : rows[i].first <= rows[j].first  BY <1>1, <1>4
<1> QED BY <1>5 DEF FirstByLine

(* A name finds nothing or a row of its repository that has it.            *)
LEMMA NameFinds ==
    ASSUME TableInv, NEW repo, NEW qname
    PROVE  /\ UnitByQname(repo, qname) \in {None} \union RowsOfRepo(repo)
           /\ \A i \in RowsOfRepo(repo) : rows[i].qname = qname =>
                  /\ UnitByQname(repo, qname) \in RowsOfRepo(repo)
                  /\ rows[UnitByQname(repo, qname)].qname = qname
<1>1. PICK S : S = {i \in RowsOfRepo(repo) : rows[i].qname = qname}  OBVIOUS
<1>2. UnitByQname(repo, qname) = FirstByLine(S)  BY <1>1 DEF UnitByQname
<1>3. S \in SUBSET DOMAIN rows  BY <1>1 DEF RowsOfRepo
<1>4. CASE S = {}  BY <1>1, <1>2, <1>4 DEF FirstByLine
<1>5. CASE S # {}
  <2>1. FirstByLine(S) \in S  BY <1>3, <1>5, FirstFound
  <2> QED BY <1>1, <1>2, <2>1
<1> QED BY <1>4, <1>5

(* The text of a file is its module from the first line on, or it has      *)
(* every line of a unit: of the units up to this one in the file's order,  *)
(* the first that ends no earlier is kept, and it begins no later.         *)
LEMMA StitchCovers ==
    ASSUME TableInv, NEW i \in DOMAIN rows, NEW text, text = Stitch(rows[i].repo, rows[i].file)
    PROVE  \/ \E n \in DOMAIN text : IsModule(text[n]) /\ rows[text[n]].first = 1
           \/ \A l \in rows[i].first..rows[i].last :
                 \E n \in DOMAIN text : l \in rows[text[n]].first..rows[text[n]].last
<1>1. PICK S : S = RowsOfFile(rows[i].repo, rows[i].file)  OBVIOUS
<1>2. i \in S /\ S \in SUBSET DOMAIN rows  BY <1>1 DEF RowsOfFile
<1>3. PICK order : order = Enclosing(rows[i].repo, rows[i].file)  OBVIOUS
<1>4. FileListed(order, S)  BY <1>1, <1>3, EnclosingListed
<1>5. PICK N \in Nat : order \in Seq(S) /\ DOMAIN order = 1..N  BY <1>4 DEF FileListed
<1>6. PICK whole : whole = {n \in DOMAIN order : IsModule(order[n]) /\ rows[order[n]].first = 1}
  OBVIOUS
<1>7. PICK parts : parts = {n \in DOMAIN order :
                               \A m \in 1..(n - 1) : rows[order[m]].last < rows[order[n]].last}
  OBVIOUS
<1>8. text = IF whole # {} THEN <<order[Min(whole)]>> ELSE Picked(order, parts)
  BY <1>3, <1>6, <1>7 DEF Stitch
<1>9. CASE whole # {}
  <2>1. whole \in SUBSET DOMAIN order  BY <1>6
  <2>2. whole \in SUBSET Int /\ IsFiniteSet(whole)  BY <1>5, <2>1, PositionsFinite
  <2>3. PICK n \in whole : n = Min(whole)  BY <1>9, <2>2, LeastIn
  <2>4. text = <<order[n]>>  BY <1>8, <1>9, <2>3
  <2>5. 1 \in DOMAIN text /\ text[1] = order[n]  BY <2>4
  <2>6. IsModule(order[n]) /\ rows[order[n]].first = 1  BY <1>6
  <2> QED BY <2>5, <2>6
<1>10. CASE whole = {}
  <2>1. parts \in SUBSET DOMAIN order  BY <1>7
  <2>2. PICK f : Selects(order, parts, f)  BY <1>5, <2>1, PickedSelects
  <2>3. /\ DOMAIN text = 1..Cardinality(parts)
        /\ \A n \in 1..Cardinality(parts) : text[n] = order[f[n]]
        /\ \A m \in parts : \E n \in 1..Cardinality(parts) : f[n] = m
    BY <1>8, <1>10, <2>2 DEF Selects
  <2>4. PICK at \in 1..N : order[at] = i  BY <1>2, <1>4, <1>5 DEF FileListed
  <2>5. \A n \in 1..N : order[n] \in DOMAIN rows /\ rows[order[n]].first \in Int /\ rows[order[n]].last \in Int
    BY <1>2, <1>5 DEF TableInv
  <2>6. PICK later : later = {n \in 1..at : rows[i].last <= rows[order[n]].last}  OBVIOUS
  <2>7. later \in SUBSET Int /\ IsFiniteSet(later) /\ later # {}
    <3>1. later \in SUBSET DOMAIN order  BY <1>5, <2>6
    <3>2. at \in later  BY <2>4, <2>5, <2>6
    <3> QED BY <1>5, <3>1, <3>2, PositionsFinite
  <2>8. PICK m \in later : \A n \in later : m <= n  BY <2>7, LeastElement
  <2>9. m \in 1..N /\ m <= at /\ rows[i].last <= rows[order[m]].last  BY <2>6
  <2>10. m \in parts
    <3> SUFFICES ASSUME NEW k \in 1..(m - 1) PROVE rows[order[k]].last < rows[order[m]].last
      BY <1>5, <1>7, <2>9
    <3>1. k \in 1..N /\ k \in 1..at /\ k \notin later  BY <2>8, <2>9
    <3>2. ~(rows[i].last <= rows[order[k]].last)  BY <2>6, <3>1
    <3> QED BY <2>4, <2>5, <2>9, <3>1, <3>2
  <2>11. rows[order[m]].first <= rows[i].first
    <3>1. CASE m = at  BY <2>4, <2>5, <2>9, <3>1
    <3>2. CASE m < at
      <4>1. FileOrder(order[m], order[at])  BY <1>4, <1>5, <2>9, <3>2 DEF FileListed
      <4> QED BY <2>4, <2>5, <2>9, <4>1 DEF FileOrder
    <3> QED BY <2>9, <3>1, <3>2
  <2>12. PICK n \in DOMAIN text : text[n] = order[m]  BY <2>3, <2>10
  <2>13. ASSUME NEW l \in rows[i].first..rows[i].last
         PROVE  l \in rows[text[n]].first..rows[text[n]].last
    <3>1. rows[i].first \in Int /\ rows[i].last \in Int  BY DEF TableInv
    <3> QED BY <2>5, <2>9, <2>11, <2>12, <3>1
  <2> QED BY <2>12, <2>13
<1> QED BY <1>9, <1>10

(* The scopes around a unit are nothing or rows of its repository.         *)
LEMMA ChainStays ==
    ASSUME TableInv, NEW i \in DOMAIN rows
    PROVE  ParentChain(i) \in Seq({None} \union RowsOfRepo(rows[i].repo))
<1>1. PICK P : P = {None} \union RowsOfRepo(rows[i].repo)  OBVIOUS
<1> DEFINE Grow(c, n) ==
               LET last == IF n = 1 THEN i ELSE Last(c) IN
               IF Len(c) < n - 1 \/ last = None \/ rows[last].parent = None
               THEN c
               ELSE Append(c, UnitByQname(rows[i].repo, rows[last].parent))
           Step(g, n) == IF n = 0 THEN <<>>
                         ELSE LET last == IF n = 1 THEN i ELSE Last(g[n - 1]) IN
                              IF Len(g[n - 1]) < n - 1 \/ last = None \/ rows[last].parent = None
                              THEN g[n - 1]
                              ELSE Append(g[n - 1], UnitByQname(rows[i].repo, rows[last].parent))
<1>2. \A c \in Seq(P), n \in 1..5 : Grow(c, n) \in Seq(P)
  <2>1. \A q : UnitByQname(rows[i].repo, q) \in P  BY <1>1, NameFinds
  <2>2. \A c \in Seq(P), p \in P : Append(c, p) \in Seq(P)  OBVIOUS
  <2> QED BY <2>1, <2>2
<1>3. \A g : Step(g, 0) = <<>> /\ \A n \in 1..5 : Step(g, n) = Grow(g[n - 1], n)  OBVIOUS
<1> HIDE DEF Grow
<1>4. PICK f \in [0..5 -> Seq(P)] : f[0] = <<>> /\ \A n \in 1..5 : f[n] = Grow(f[n - 1], n)
  <2> DEFINE step == [n \in 1..5 |-> [c \in Seq(P) |-> Grow(c, n)]]
  <2>1. step \in [1..5 -> [Seq(P) -> Seq(P)]]  BY <1>2
  <2>2. \A n \in 1..5 : \A c \in Seq(P) : step[n][c] = Grow(c, n)  OBVIOUS
  <2> HIDE DEF step
  <2>3. <<>> \in Seq(P) /\ 5 \in Nat  OBVIOUS
  <2>4. Recurs(5, Seq(P), <<>>, step)  BY <2>1, <2>3, Recursion
  <2>5. PICK f \in [0..5 -> Seq(P)] : f[0] = <<>> /\ \A n \in 1..5 : f[n] = step[n][f[n - 1]]
    BY <2>4 DEF Recurs
  <2>6. \A n \in 1..5 : n - 1 \in 0..5  OBVIOUS
  <2> QED BY <2>2, <2>5, <2>6
<1>5. f = [n \in 0..5 |-> Step(f, n)]
  <2>1. f = [n \in 0..5 |-> f[n]]  OBVIOUS
  <2>2. \A n \in 0..5 : f[n] = Step(f, n)
    <3> SUFFICES ASSUME NEW n \in 0..5 PROVE f[n] = Step(f, n)  OBVIOUS
    <3>1. n = 0 \/ n \in 1..5  OBVIOUS
    <3> HIDE DEF Step
    <3> QED BY <1>3, <1>4, <3>1
  <2> HIDE DEF Step
  <2> QED BY <2>1, <2>2
<1>6. PICK r : r = CHOOSE g : g = [n \in 0..5 |-> Step(g, n)]  OBVIOUS
<1>7. ParentChain(i) = r[5]  BY <1>6 DEF ParentChain
<1> HIDE DEF Step
<1>8. r = [n \in 0..5 |-> Step(r, n)]  BY <1>5, <1>6
<1>9. r[0] = <<>>
  <2>1. 0 \in 0..5  OBVIOUS
  <2> QED BY <1>3, <1>8, <2>1
<1>10. \A n \in 1..5 : r[n] = Grow(r[n - 1], n)
  <2> SUFFICES ASSUME NEW n \in 1..5 PROVE r[n] = Grow(r[n - 1], n)  OBVIOUS
  <2>1. n \in 0..5  OBVIOUS
  <2> QED BY <1>3, <1>8, <2>1
<1>11. r[1] \in Seq(P)
  <2>1. r[1] = Grow(r[0], 1)  BY <1>10
  <2>2. PICK c \in Seq(P) : c = r[0]
    <3>1. <<>> \in Seq(P)  OBVIOUS
    <3> QED BY <1>9, <3>1
  <2>3. 1 \in 1..5  OBVIOUS
  <2> QED BY <1>2, <2>1, <2>2, <2>3
<1>12. r[2] = Grow(r[1], 2) /\ r[3] = Grow(r[2], 3) /\ r[4] = Grow(r[3], 4) /\ r[5] = Grow(r[4], 5)
  BY <1>10
<1>13. r[5] \in Seq(P)  BY <1>2, <1>11, <1>12
<1> QED BY <1>1, <1>7, <1>13

LEMMA TableReadsFind ==
    ASSUME TableInv
    PROVE  ReadFinds
<1> SUFFICES ASSUME NEW i \in DOMAIN rows, NEW repo, repo = rows[i].repo,
                    NEW text, text = Stitch(repo, rows[i].file),
                    NEW named, named = ResolveReference(repo, "qname", rows[i].qname)
             PROVE  /\ \A r \in RepoIds : ResolveReference(r, "id", i) = i
                    /\ rows[ResolveReference(repo, "path", rows[i].file)].file = rows[i].file
                    /\ rows[named].qname = rows[i].qname /\ rows[named].repo = repo
                    /\ \/ \E n \in DOMAIN text : IsModule(text[n]) /\ rows[text[n]].first = 1
                       \/ \A l \in rows[i].first..rows[i].last :
                             \E n \in DOMAIN text : l \in rows[text[n]].first..rows[text[n]].last
                    /\ \A p \in ToSet(ParentChain(i)) : p = None \/ rows[p].repo = repo
  BY DEF ReadFinds
<1>1. \A r \in RepoIds : ResolveReference(r, "id", i) = i  BY DEF ResolveReference
<1>2. rows[ResolveReference(repo, "path", rows[i].file)].file = rows[i].file
  <2>1. RowsOfFile(repo, rows[i].file) # {}  BY DEF RowsOfFile
  <2>2. ModuleOfFile(repo, rows[i].file) \in RowsOfFile(repo, rows[i].file)  BY <2>1, ModuleFound
  <2>3. ResolveReference(repo, "path", rows[i].file) = ModuleOfFile(repo, rows[i].file)
    BY DEF ResolveReference
  <2> QED BY <2>2, <2>3 DEF RowsOfFile
<1>3. rows[named].qname = rows[i].qname /\ rows[named].repo = repo
  <2>1. i \in RowsOfRepo(repo)  BY DEF RowsOfRepo
  <2>2. UnitByQname(repo, rows[i].qname) \in RowsOfRepo(repo)
        /\ rows[UnitByQname(repo, rows[i].qname)].qname = rows[i].qname
    BY <2>1, NameFinds
  <2>3. named = UnitByQname(repo, rows[i].qname)  BY DEF ResolveReference
  <2> QED BY <2>2, <2>3 DEF RowsOfRepo
<1>4. \/ \E n \in DOMAIN text : IsModule(text[n]) /\ rows[text[n]].first = 1
      \/ \A l \in rows[i].first..rows[i].last :
            \E n \in DOMAIN text : l \in rows[text[n]].first..rows[text[n]].last
  BY StitchCovers
<1>5. \A p \in ToSet(ParentChain(i)) : p = None \/ rows[p].repo = repo
  <2>1. ParentChain(i) \in Seq({None} \union RowsOfRepo(repo))  BY ChainStays
  <2>2. ToSet(ParentChain(i)) \subseteq {None} \union RowsOfRepo(repo)  BY <2>1, ListOfFinite
  <2> QED BY <2>2 DEF RowsOfRepo
<1> QED BY <1>1, <1>2, <1>3, <1>4, <1>5

(* What the search and reading tools answer is what the table holds, in    *)
(* whatever order files are ingested and deleted: a list of matches that   *)
(* does not say it is truncated is whole, one that does has the best of    *)
(* all repositories, a file is read with every line of its units.          *)
THEOREM AnswersAlwaysHonest == TableSpec => []AnswersHonest
<1>1. TableInit => TableInv  BY TableStart
<1>2. TableInv /\ [TableNext]_rows => TableInv'  BY TableStep
<1>3. TableInv => AnswersHonest  BY TableSearchHonest, TableReadsFind DEF AnswersHonest
<1> QED BY <1>1, <1>2, <1>3, PTL DEF TableSpec
---------------------------------------------------------------------------
(* The names of units.  A file's units are numbered, with line numbers.    *)

Lined(us, n) ==
    /\ DOMAIN us = 1..n
    /\ \A i \in 1..n : /\ {"kind", "qname", "parent", "from", "to"} \subseteq DOMAIN us[i]
                       /\ us[i].from \in Int /\ us[i].to \in Int

(* Of units with one name, each comes at a place of its own.               *)
LEMMA OrdinalsDiffer ==
    ASSUME NEW n \in Nat, NEW us, Lined(us, n)
    PROVE  /\ \A i \in 1..n : Ordinal(us, i) \in Nat /\ Ordinal(us, i) > 0
           /\ \A i, j \in 1..n : us[i].qname = us[j].qname /\ Ordinal(us, i) = Ordinal(us, j) => i = j
<1> DEFINE R == {p \in (1..n) \X (1..n) : Earlier(us, p[1], p[2])}
           G(i) == {j \in 1..n : us[j].qname = us[i].qname}
<1>1. \A j, i \in 1..n : <<j, i>> \in R <=> Earlier(us, j, i)  OBVIOUS
<1>2. \A j, i \in 1..n : Earlier(us, j, i) <=>
         /\ us[j].qname = us[i].qname
         /\ \/ us[j].from < us[i].from
            \/ us[j].from = us[i].from /\ us[j].to < us[i].to
            \/ us[j].from = us[i].from /\ us[j].to = us[i].to /\ j < i
  BY DEF Earlier
<1>3. IsFiniteSet(1..n)  BY FS_Interval
<1> HIDE DEF R
<1>4. ASSUME NEW i \in 1..n PROVE StrictTotal(G(i), R)
  <2>1. ASSUME NEW x \in G(i) PROVE <<x, x>> \notin R
    <3>1. x \in 1..n /\ us[x].from \in Int /\ us[x].to \in Int  BY DEF Lined
    <3>2. ~Earlier(us, x, x)  BY <1>2, <3>1
    <3> QED BY <1>1, <3>1, <3>2
  <2>2. ASSUME NEW x \in G(i), NEW y \in G(i), NEW z \in G(i), <<x, y>> \in R, <<y, z>> \in R
        PROVE  <<x, z>> \in R
    <3>1. x \in 1..n /\ y \in 1..n /\ z \in 1..n  OBVIOUS
    <3>2. /\ us[x].from \in Int /\ us[y].from \in Int /\ us[z].from \in Int
          /\ us[x].to \in Int /\ us[y].to \in Int /\ us[z].to \in Int
      BY <3>1 DEF Lined
    <3>3. Earlier(us, x, y) /\ Earlier(us, y, z)  BY <1>1, <2>2, <3>1
    <3>4. Earlier(us, x, z)  BY <1>2, <3>1, <3>2, <3>3
    <3> QED BY <1>1, <3>1, <3>4
  <2>3. ASSUME NEW x \in G(i), NEW y \in G(i), x # y
        PROVE  <<x, y>> \in R \/ <<y, x>> \in R
    <3>1. x \in 1..n /\ y \in 1..n /\ us[x].qname = us[y].qname  OBVIOUS
    <3>2. /\ us[x].from \in Int /\ us[y].from \in Int /\ us[x].to \in Int /\ us[y].to \in Int
      BY <3>1 DEF Lined
    <3>3. Earlier(us, x, y) \/ Earlier(us, y, x)  BY <1>2, <2>3, <3>1, <3>2
    <3> QED BY <1>1, <3>1, <3>3
  <2> HIDE DEF G
  <2> QED BY <2>1, <2>2, <2>3 DEF StrictTotal
<1>5. ASSUME NEW i \in 1..n
      PROVE  /\ IsFiniteSet(G(i)) /\ i \in G(i)
             /\ \A j \in G(i) : Ordinal(us, j) = 1 + Cardinality(Below(G(i), R, j))
  <2>1. IsFiniteSet(G(i)) /\ i \in G(i)
    <3>1. G(i) \in SUBSET (1..n)  OBVIOUS
    <3> QED BY <1>3, <3>1, FS_Subset
  <2>2. ASSUME NEW j \in G(i)
        PROVE  {k \in DOMAIN us : Earlier(us, k, j)} = Below(G(i), R, j)
    <3>1. j \in 1..n /\ us[j].qname = us[i].qname  OBVIOUS
    <3>2. \A k \in 1..n : Earlier(us, k, j) <=> k \in G(i) /\ <<k, j>> \in R
      BY <1>1, <1>2, <3>1
    <3> QED BY <3>2 DEF Lined, Below
  <2> QED BY <2>1, <2>2 DEF Ordinal
<1>6. ASSUME NEW i \in 1..n
      PROVE  /\ \A j \in G(i) : Cardinality(Below(G(i), R, j)) \in Nat
             /\ \A x, y \in G(i) : <<x, y>> \in R =>
                   Cardinality(Below(G(i), R, x)) < Cardinality(Below(G(i), R, y))
  <2>1. PICK g : g = G(i)  OBVIOUS
  <2>2. IsFiniteSet(g) /\ StrictTotal(g, R)  BY <1>4, <1>5, <2>1
  <2>3. /\ \A x \in g : Cardinality(Below(g, R, x)) \in 0..Cardinality(g) - 1
        /\ \A x, y \in g : <<x, y>> \in R => Cardinality(Below(g, R, x)) < Cardinality(Below(g, R, y))
    BY <2>2, BelowGrows
  <2>4. Cardinality(g) \in Nat  BY <2>2, FS_CardinalityType
  <2>5. \A x \in g : Cardinality(Below(g, R, x)) \in Nat  BY <2>3, <2>4
  <2> QED BY <2>1, <2>3, <2>5
<1>7. ASSUME NEW i \in 1..n PROVE Ordinal(us, i) \in Nat /\ Ordinal(us, i) > 0
  <2>1. i \in G(i) /\ Ordinal(us, i) = 1 + Cardinality(Below(G(i), R, i))  BY <1>5
  <2>2. PICK b \in Nat : b = Cardinality(Below(G(i), R, i))  BY <1>6, <2>1
  <2> QED BY <2>1, <2>2
<1>8. ASSUME NEW i \in 1..n, NEW j \in 1..n, us[i].qname = us[j].qname,
             Ordinal(us, i) = Ordinal(us, j), i # j
      PROVE  FALSE
  <2>1. i \in G(i) /\ j \in G(i)  BY <1>8
  <2>2. PICK a \in Nat, b \in Nat : /\ a = Cardinality(Below(G(i), R, i))
                                    /\ b = Cardinality(Below(G(i), R, j))
    BY <1>6, <2>1
  <2>3. Ordinal(us, i) = 1 + a /\ Ordinal(us, j) = 1 + b  BY <1>5, <2>1, <2>2
  <2>4. <<i, j>> \in R \/ <<j, i>> \in R  BY <1>4, <1>8, <2>1 DEF StrictTotal
  <2>5. a < b \/ b < a  BY <1>6, <2>1, <2>2, <2>4
  <2>6. 1 + a = 1 + b  BY <1>8, <2>3
  <2> QED BY <2>2, <2>5, <2>6
<1> QED BY <1>7, <1>8

LEMMA FrontOf ==
    ASSUME NEW S, NEW q \in Seq(S), Len(q) > 0
    PROVE  Front(q) \in Seq(S) /\ q = Append(Front(q), q[Len(q)])
<1>1. PICK l \in Int : l = Len(q) - 1  OBVIOUS
<1>2. \A i \in 1..l : q[i] \in S  BY <1>1
<1>3. SubSeq(q, 1, l) \in Seq(S)  BY <1>1, <1>2, SubSeqProperties
<1>4. Len(SubSeq(q, 1, l)) = l /\ \A i \in 1..l : SubSeq(q, 1, l)[i] = q[i]
  BY <1>1, SubSeqProperties
<1>5. PICK f \in Seq(S) : f = Front(q) /\ Len(f) = l /\ \A i \in 1..l : f[i] = q[i]
  BY <1>1, <1>3, <1>4 DEF Front
<1>6. PICK e \in S : e = q[Len(q)]  OBVIOUS
<1>7. q = Append(f, e)  BY <1>1, <1>5, <1>6
<1> QED BY <1>5, <1>6, <1>7

(* A name as the parsers of code make it: its last segment has no suffix.  *)
Segments(titles) == titles \X Nat

Plain(q, titles) == q \in Seq(Segments(titles)) /\ Bare(q)

LEMMA PlainEnds ==
    ASSUME NEW titles, NEW q, Plain(q, titles)
    PROVE  /\ q \in Seq(Segments(titles)) /\ Len(q) > 0
           /\ \E x \in titles : q[Len(q)] = <<x, 1>>
<1>1. q \in Seq(Segments(titles)) /\ q # <<>> /\ q[Len(q)][2] = 1  BY DEF Plain, Bare
<1>2. Len(q) > 0  BY <1>1
<1>3. q[Len(q)] \in Segments(titles)  BY <1>1, <1>2
<1>4. PICK x \in titles, l \in Nat : q[Len(q)] = <<x, l>>  BY <1>3 DEF Segments
<1> QED BY <1>1, <1>2, <1>4

Suffixed(q, k) == IF k = 1 THEN q ELSE Append(Front(q), <<Last(q)[1], k>>)

(* Suffixes tell plain names apart, and tell them from suffixed ones.      *)
LEMMA SuffixesDiffer ==
    ASSUME NEW titles, NEW q, Plain(q, titles), NEW r, Plain(r, titles),
           NEW k \in Nat, NEW l \in Nat, k > 0, l > 0, Suffixed(q, k) = Suffixed(r, l)
    PROVE  q = r /\ k = l
<1>0. PICK S : S = Segments(titles)  OBVIOUS
<1>1. PICK x \in titles : q[Len(q)] = <<x, 1>>  BY PlainEnds
<1>2. PICK y \in titles : r[Len(r)] = <<y, 1>>  BY PlainEnds
<1>3. /\ q \in Seq(S) /\ Len(q) \in Nat /\ Len(q) > 0 /\ r \in Seq(S) /\ Len(r) \in Nat /\ Len(r) > 0
  BY <1>0, PlainEnds
<1>4. PICK fq \in Seq(S) : fq = Front(q) /\ q = Append(fq, <<x, 1>>)  BY <1>1, <1>3, FrontOf
<1>5. PICK fr \in Seq(S) : fr = Front(r) /\ r = Append(fr, <<y, 1>>)  BY <1>2, <1>3, FrontOf
<1>6. q = Append(fq, <<x, 1>>) /\ r = Append(fr, <<y, 1>>)  BY <1>4, <1>5
<1>7. Suffixed(q, k) = Append(fq, <<x, k>>)
  <2>1. Last(q)[1] = x  BY <1>1 DEF Last
  <2> QED BY <1>4, <1>6, <2>1 DEF Suffixed
<1>8. Suffixed(r, l) = Append(fr, <<y, l>>)
  <2>1. Last(r)[1] = y  BY <1>2 DEF Last
  <2> QED BY <1>5, <1>6, <2>1 DEF Suffixed
<1>9. fq = fr /\ <<x, k>> = <<y, l>>
  <2>1. PICK a, b : a = <<x, k>> /\ b = <<y, l>>  OBVIOUS
  <2>2. fq \in Seq(S \union {a, b}) /\ fr \in Seq(S \union {a, b})  OBVIOUS
  <2>3. Append(fq, a) = Append(fr, b)  BY <1>7, <1>8, <2>1
  <2>4. fq = fr /\ a = b  BY <2>2, <2>3
  <2> QED BY <2>1, <2>4
<1> QED BY <1>6, <1>9

(* The units of one file as a parser returns them.                         *)
Nameable(us, n, titles) ==
    /\ Lined(us, n)
    /\ \A i \in 1..n : us[i].qname \in Seq(Segments(titles))
    /\ BareOrDistinct(us)

LEMMA PlainOrDistinct ==
    ASSUME NEW titles, NEW n \in Nat, NEW us, Nameable(us, n, titles)
    PROVE  \/ \A i \in 1..n : Plain(us[i].qname, titles)
           \/ \A i, j \in 1..n : us[i].qname = us[j].qname => i = j
BY DEF Nameable, Lined, BareOrDistinct, Plain

LEMMA DistinctAreFirst ==
    ASSUME NEW n \in Nat, NEW us, Lined(us, n),
           \A i, j \in 1..n : us[i].qname = us[j].qname => i = j
    PROVE  \A i \in 1..n : Ordinal(us, i) = 1
<1> SUFFICES ASSUME NEW i \in 1..n PROVE Ordinal(us, i) = 1  OBVIOUS
<1>1. ASSUME NEW j \in DOMAIN us, Earlier(us, j, i) PROVE FALSE
  <2>1. j = i  BY <1>1 DEF Lined, Earlier
  <2>2. us[i].from \in Int /\ us[i].to \in Int  BY DEF Lined
  <2> QED BY <1>1, <2>1, <2>2 DEF Earlier
<1>2. {j \in DOMAIN us : Earlier(us, j, i)} = {}  BY <1>1
<1> QED BY <1>2, FS_EmptySet DEF Ordinal

LEMMA UniqueNamesDiffer ==
    ASSUME NEW titles, NEW n \in Nat, NEW us, Nameable(us, n, titles)
    PROVE  \A i, j \in 1..n : UniqueName(us, i) = UniqueName(us, j) => i = j
<1>1. Lined(us, n)  BY DEF Nameable
<1>2. /\ \A i \in 1..n : Ordinal(us, i) \in Nat /\ Ordinal(us, i) > 0
      /\ \A i, j \in 1..n : us[i].qname = us[j].qname /\ Ordinal(us, i) = Ordinal(us, j) => i = j
  BY <1>1, OrdinalsDiffer
<1>3. CASE \A i \in 1..n : Plain(us[i].qname, titles)
  <2> SUFFICES ASSUME NEW i \in 1..n, NEW j \in 1..n, UniqueName(us, i) = UniqueName(us, j)
               PROVE  i = j
    OBVIOUS
  <2>1. Suffixed(us[i].qname, Ordinal(us, i)) = Suffixed(us[j].qname, Ordinal(us, j))
    BY DEF UniqueName, Suffixed
  <2>2. us[i].qname = us[j].qname /\ Ordinal(us, i) = Ordinal(us, j)
    BY <1>2, <1>3, <2>1, SuffixesDiffer
  <2> QED BY <1>2, <2>2
<1>4. CASE \A i, j \in 1..n : us[i].qname = us[j].qname => i = j
  <2>1. \A i \in 1..n : Ordinal(us, i) = 1  BY <1>1, <1>4, DistinctAreFirst
  <2>2. \A i \in 1..n : UniqueName(us, i) = us[i].qname  BY <2>1 DEF UniqueName
  <2> QED BY <1>4, <2>2
<1> QED BY <1>3, <1>4, PlainOrDistinct

LEMMA ToldApart ==
    ASSUME NEW n \in Nat, NEW us, Lined(us, n)
    PROVE  \A i \in 1..n : /\ ResolveCollisions(us)[i].qname = UniqueName(us, i)
                           /\ ResolveCollisions(us)[i].parent = Owner(us, i)
                           /\ \A f \in DOMAIN us[i] \ {"qname", "parent"} :
                                 ResolveCollisions(us)[i][f] = us[i][f]
<1> SUFFICES ASSUME NEW i \in 1..n
             PROVE  /\ ResolveCollisions(us)[i].qname = UniqueName(us, i)
                    /\ ResolveCollisions(us)[i].parent = Owner(us, i)
                    /\ \A f \in DOMAIN us[i] \ {"qname", "parent"} :
                          ResolveCollisions(us)[i][f] = us[i][f]
  OBVIOUS
<1>1. PICK u : u = us[i]  OBVIOUS
<1>2. ResolveCollisions(us)[i] = [u EXCEPT !.qname = UniqueName(us, i), !.parent = Owner(us, i)]
  BY <1>1 DEF ResolveCollisions, Lined
<1>3. "qname" \in DOMAIN u /\ "parent" \in DOMAIN u  BY <1>1 DEF Lined
<1> QED BY <1>1, <1>2, <1>3

(* However many units of a file share a name, their names are distinct     *)
(* once they are told apart, and so are the ids made of them.              *)
THEOREM NamesTold ==
    ASSUME NEW titles, NEW n \in Nat, NEW us, Nameable(us, n, titles)
    PROVE  \A i, j \in 1..n : ResolveCollisions(us)[i].qname = ResolveCollisions(us)[j].qname => i = j
<1>1. \A i \in 1..n : ResolveCollisions(us)[i].qname = UniqueName(us, i)
  BY ToldApart DEF Nameable
<1> QED BY <1>1, UniqueNamesDiffer

(* A unit whose name a parser could have made has kept its own.            *)
LEMMA UniqueNameIsName ==
    ASSUME NEW titles, NEW n \in Nat, NEW us, Nameable(us, n, titles)
    PROVE  \A i \in 1..n : \A p :
              (Plain(p, titles) \/ p \notin Seq(Segments(titles))) /\ UniqueName(us, i) = p
                 => us[i].qname = p /\ Ordinal(us, i) = 1
<1> SUFFICES ASSUME NEW i \in 1..n, NEW p,
                    Plain(p, titles) \/ p \notin Seq(Segments(titles)), UniqueName(us, i) = p
             PROVE  us[i].qname = p /\ Ordinal(us, i) = 1
  OBVIOUS
<1>1. Lined(us, n)  BY DEF Nameable
<1>2. PICK o \in Nat : o = Ordinal(us, i) /\ o > 0  BY <1>1, OrdinalsDiffer
<1>3. CASE Plain(us[i].qname, titles)
  <2>1. Suffixed(us[i].qname, o) = p  BY <1>2 DEF UniqueName, Suffixed
  <2>2. Suffixed(us[i].qname, o) \in Seq(Segments(titles))
    <3>1. PICK q : q = us[i].qname  OBVIOUS
    <3>2. PICK x \in titles : q[Len(q)] = <<x, 1>>  BY <1>3, <3>1, PlainEnds
    <3>3. q \in Seq(Segments(titles)) /\ Len(q) > 0  BY <1>3, <3>1, PlainEnds
    <3>4. PICK f \in Seq(Segments(titles)) : f = Front(q)  BY <3>3, FrontOf
    <3>5. PICK s \in Segments(titles) : s = <<x, o>>  BY DEF Segments
    <3>6. Append(f, s) \in Seq(Segments(titles))  OBVIOUS
    <3>7. Last(q)[1] = x  BY <3>2 DEF Last
    <3>8. Suffixed(q, o) = (IF o = 1 THEN q ELSE Append(f, s))  BY <3>4, <3>5, <3>7 DEF Suffixed
    <3> QED BY <3>1, <3>3, <3>6, <3>8
  <2>3. Plain(p, titles)  BY <1>3, <2>1, <2>2
  <2>4. Suffixed(us[i].qname, o) = Suffixed(p, 1)  BY <2>1 DEF Suffixed
  <2>5. us[i].qname = p /\ o = 1  BY <1>2, <1>3, <2>3, <2>4, SuffixesDiffer
  <2> QED BY <1>2, <2>5
<1>4. CASE ~Plain(us[i].qname, titles)
  <2>1. \A j, k \in 1..n : us[j].qname = us[k].qname => j = k  BY <1>4, PlainOrDistinct
  <2>2. Ordinal(us, i) = 1  BY <1>1, <2>1, DistinctAreFirst
  <2> QED BY <2>2 DEF UniqueName
<1> QED BY <1>3, <1>4

(* Where several classes of a file share a name, ResolveCollisions leaves  *)
(* each member with a class that encloses it.                              *)
THEOREM OwnersEnclose ==
    ASSUME NEW titles, NEW n \in Nat, NEW us,
           Nameable(us, n, titles), WrittenInside(us),
           \A j \in 1..n : us[j].parent \in Seq(Segments(titles)) => Bare(us[j].parent)
    PROVE  MembersInside(ResolveCollisions(us))
<1>1. Lined(us, n)  BY DEF Nameable
<1>2. /\ \A i \in 1..n : Ordinal(us, i) \in Nat /\ Ordinal(us, i) > 0
      /\ \A i, j \in 1..n : us[i].qname = us[j].qname /\ Ordinal(us, i) = Ordinal(us, j) => i = j
  BY <1>1, OrdinalsDiffer
<1>3. \A i, j \in 1..n : UniqueName(us, i) = UniqueName(us, j) => i = j  BY UniqueNamesDiffer
<1>4. PICK rs : rs = ResolveCollisions(us)  OBVIOUS
<1>5. \A i \in 1..n : /\ rs[i].qname = UniqueName(us, i) /\ rs[i].parent = Owner(us, i)
                      /\ rs[i].kind = us[i].kind /\ rs[i].from = us[i].from /\ rs[i].to = us[i].to
  <2>1. \A i \in 1..n : /\ rs[i].qname = UniqueName(us, i) /\ rs[i].parent = Owner(us, i)
                        /\ \A f \in DOMAIN us[i] \ {"qname", "parent"} : rs[i][f] = us[i][f]
    BY <1>1, <1>4, ToldApart
  <2>2. \A i \in 1..n : {"kind", "from", "to"} \subseteq DOMAIN us[i]  BY <1>1 DEF Lined
  <2> QED BY <2>1, <2>2
<1>6. ASSUME NEW i \in 1..n, NEW j \in 1..n, us[i].kind = "Class", Owner(us, j) = UniqueName(us, i)
      PROVE  Encloses(us, i, j)
  <2>1. PICK renamed : renamed = {k \in DOMAIN us \ {j} :
                          /\ us[k].kind = "Class" /\ Ordinal(us, k) > 1
                          /\ us[k].qname = us[j].parent
                          /\ us[k].from <= us[j].from /\ us[j].to <= us[k].to}
    OBVIOUS
  <2>2. /\ renamed \in SUBSET (1..n)
        /\ \A k \in 1..n : k \in renamed <=> /\ k # j /\ us[k].kind = "Class" /\ Ordinal(us, k) > 1
                                            /\ us[k].qname = us[j].parent /\ Encloses(us, k, j)
    BY <1>1, <2>1 DEF Lined, Encloses
  <2>3. Owner(us, j) = IF renamed = {} THEN us[j].parent
                       ELSE UniqueName(us, CHOOSE k \in renamed :
                                             \A l \in renamed : Ordinal(us, k) <= Ordinal(us, l))
    BY <2>1 DEF Owner
  <2>4. CASE renamed # {}
    <3>1. PICK P : P = {Ordinal(us, k) : k \in renamed}  OBVIOUS
    <3>2. P \in SUBSET Int /\ P # {}
      <4>1. PICK k \in renamed : TRUE  BY <2>4
      <4>2. Ordinal(us, k) \in P  BY <3>1, <4>1
      <4>3. \A x \in P : x \in Int  BY <1>2, <2>2, <3>1
      <4> QED BY <4>2, <4>3
    <3>3. IsFiniteSet(P)
      <4>1. IsFiniteSet(1..n)  BY FS_Interval
      <4>2. IsFiniteSet(renamed)  BY <2>2, <4>1, FS_Subset
      <4>3. PICK f : f = [k \in renamed |-> Ordinal(us, k)]  OBVIOUS
      <4>4. f \in Surjection(renamed, P)  BY <3>1, <4>3 DEF Surjection
      <4> QED BY <4>2, <4>4, FS_Surjection
    <3>4. PICK o \in P : \A x \in P : o <= x  BY <3>2, <3>3, LeastElement
    <3>5. PICK k \in renamed : o = Ordinal(us, k)  BY <3>1, <3>4
    <3>6. \A l \in renamed : Ordinal(us, k) <= Ordinal(us, l)  BY <3>1, <3>4, <3>5
    <3>7. PICK c \in renamed : UniqueName(us, c) = Owner(us, j)  BY <2>3, <2>4, <3>6
    <3>8. c = i  BY <1>3, <1>6, <2>2, <3>7
    <3> QED BY <2>2, <3>7, <3>8
  <2>5. CASE renamed = {}
    <3>1. UniqueName(us, i) = us[j].parent  BY <1>6, <2>3, <2>5
    <3>2. PICK p : p = us[j].parent  OBVIOUS
    <3>3. Plain(p, titles) \/ p \notin Seq(Segments(titles))
      BY <3>2 DEF Plain
    <3>4. UniqueName(us, i) = p  BY <3>1, <3>2
    <3>5. us[i].qname = us[j].parent /\ Ordinal(us, i) = 1
      BY <3>2, <3>3, <3>4, UniqueNameIsName
    <3>6. PICK k \in (1..n) \ {j} : /\ us[k].kind = "Class" /\ us[k].qname = us[j].parent
                                    /\ Encloses(us, k, j)
      BY <1>1, <1>6, <3>5 DEF WrittenInside, Lined
    <3>7. ~(Ordinal(us, k) > 1)  BY <2>2, <2>5, <3>6
    <3>8. PICK o \in Nat : o = Ordinal(us, k) /\ o > 0  BY <1>2
    <3>9. Ordinal(us, k) = 1  BY <3>7, <3>8
    <3>10. k = i  BY <1>2, <3>5, <3>6, <3>9
    <3> QED BY <3>6, <3>10
  <2> QED BY <2>4, <2>5
<1>7. MembersInside(rs)
  <2> SUFFICES ASSUME NEW i \in 1..n, NEW j \in 1..n, rs[i].kind = "Class", rs[j].parent = rs[i].qname
               PROVE  Encloses(rs, i, j)
    <3>1. DOMAIN rs = 1..n  BY <1>1, <1>4 DEF ResolveCollisions, Lined
    <3> QED BY <3>1 DEF MembersInside
  <2>1. Encloses(us, i, j)  BY <1>5, <1>6
  <2> QED BY <1>5, <2>1 DEF Encloses
<1> QED BY <1>4, <1>7

(* The sections of a document.  The headings above a line are a stack of   *)
(* growing levels; each chain of them names a section already made, and no *)
(* two sections, nor a section and the document, share a name.             *)
Chain(m, stack, k) == m \o [i \in 1..k |-> stack[i][2]]

Growing(stack) == \A j, k \in 1..Len(stack) : j < k => stack[j][1] < stack[k][1]

SectionsNamed(acc, m, titles) ==
    /\ acc = [stack |-> acc.stack, used |-> acc.used, out |-> acc.out]
    /\ acc.stack \in Seq(Int \X Segments(titles))
    /\ Growing(acc.stack)
    /\ \A k \in 1..Len(acc.stack) : \E i \in DOMAIN acc.out : acc.out[i].qname = Chain(m, acc.stack, k)
    /\ IsFiniteSet(acc.used) /\ m \in acc.used
    /\ \E D : acc.out \in Seq(D)
    /\ \A i \in DOMAIN acc.out : acc.out[i].qname \in acc.used \ {m}
    /\ \A i, j \in DOMAIN acc.out : acc.out[i].qname = acc.out[j].qname => i = j

(* There is always a free suffix among the first ones.                     *)
LEMMA FreshIsFree ==
    ASSUME NEW titles, NEW base \in Seq(Segments(titles)), NEW slug \in titles,
           NEW used, IsFiniteSet(used)
    PROVE  /\ FreshSegment(base, slug, used) \in Segments(titles)
           /\ Append(base, FreshSegment(base, slug, used)) \notin used
<1>1. PICK c \in Nat : c = Cardinality(used)  BY FS_CardinalityType
<1> DEFINE q(n) == base \o <<<<slug, n>>>>
           N == {n \in 1..c + 1 : q(n) \notin used}
<1>2. \A n \in 1..c + 1 : q(n) = Append(base, <<slug, n>>)
  <2> SUFFICES ASSUME NEW n \in 1..c + 1 PROVE q(n) = Append(base, <<slug, n>>)  OBVIOUS
  <2>1. <<slug, n>> \in Segments(titles)  BY DEF Segments
  <2>2. PICK s \in Segments(titles) : s = <<slug, n>>  BY <2>1
  <2>3. base \o <<s>> = Append(base, s)  OBVIOUS
  <2> QED BY <2>2, <2>3
<1>3. \A i, j \in 1..c + 1 : q(i) = q(j) => i = j
  <2> SUFFICES ASSUME NEW i \in 1..c + 1, NEW j \in 1..c + 1, q(i) = q(j) PROVE i = j  OBVIOUS
  <2>1. PICK s, t \in Segments(titles) : s = <<slug, i>> /\ t = <<slug, j>>  BY DEF Segments
  <2>2. Append(base, s) = Append(base, t)  BY <1>2, <2>1
  <2>3. s = t  BY <2>2
  <2> QED BY <2>1, <2>3
<1>4. N # {}
  <2> SUFFICES ASSUME N = {} PROVE FALSE  OBVIOUS
  <2>1. PICK f : f = [n \in 1..c + 1 |-> q(n)]  OBVIOUS
  <2>2. f \in [1..c + 1 -> used]  BY <2>1
  <2>3. \A i, j \in 1..c + 1 : f[i] = f[j] => i = j  BY <1>3, <2>1
  <2>4. f \in Injection(1..c + 1, used)  BY <2>2, <2>3 DEF Injection, IsInjective
  <2>5. Cardinality(1..c + 1) <= c  BY <1>1, <2>4, FS_Injection DEF ExistsInjection
  <2>6. Cardinality(1..c + 1) = c + 1  BY FS_Interval
  <2> QED BY <1>1, <2>5, <2>6
<1>5. N \in SUBSET Int /\ IsFiniteSet(N)
  <2>1. IsFiniteSet(1..c + 1)  BY FS_Interval
  <2>2. PICK T \in SUBSET (1..c + 1) : T = N  OBVIOUS
  <2>3. IsFiniteSet(T)  BY <2>1, <2>2, FS_Subset
  <2> QED BY <2>2, <2>3
<1>6. PICK n \in N : \A k \in N : n <= k  BY <1>4, <1>5, LeastElement
<1>7. /\ n \in 1..Cardinality(used) + 1 /\ base \o <<<<slug, n>>>> \notin used
      /\ \A k \in 1..n - 1 : base \o <<<<slug, k>>>> \in used
  <2>1. n \in 1..c + 1 /\ q(n) \notin used  OBVIOUS
  <2>2. ASSUME NEW k \in 1..n - 1 PROVE q(k) \in used
    <3>1. k \in 1..c + 1 /\ ~(n <= k)  BY <2>1
    <3> QED BY <1>6, <3>1
  <2> QED BY <1>1, <2>1, <2>2
<1>8. PICK l \in 1..Cardinality(used) + 1 :
         /\ FreshSegment(base, slug, used) = <<slug, l>>
         /\ base \o <<<<slug, l>>>> \notin used
  BY <1>7 DEF FreshSegment
<1>9. l \in 1..c + 1 /\ l \in Nat  BY <1>1, <1>8
<1>10. FreshSegment(base, slug, used) \in Segments(titles)  BY <1>8, <1>9 DEF Segments
<1>11. Append(base, <<slug, l>>) \notin used  BY <1>2, <1>8, <1>9
<1> QED BY <1>8, <1>10, <1>11

(* The headings a new one is under are those of smaller levels.            *)
LEMMA PopKeeps ==
    ASSUME NEW titles, NEW stack \in Seq(Int \X Segments(titles)), NEW level \in Int,
           Growing(stack)
    PROVE  \E p \in 0..Len(stack) :
              /\ Pop(stack, level) \in Seq(Int \X Segments(titles)) /\ Len(Pop(stack, level)) = p
              /\ \A i \in 1..p : Pop(stack, level)[i] = stack[i] /\ stack[i][1] < level
              /\ \A i \in p + 1..Len(stack) : stack[i][1] >= level
<1>1. PICK l \in Nat : l = Len(stack)  OBVIOUS
<1>2. \A i \in 1..l : stack[i] \in Int \X Segments(titles) /\ stack[i][1] \in Int  BY <1>1
<1>3. PICK L \in SUBSET (0..l) : L = {0} \union {n \in DOMAIN stack : stack[n][1] < level}
  <2>1. DOMAIN stack = 1..l  BY <1>1
  <2>2. {0} \union {n \in DOMAIN stack : stack[n][1] < level} \in SUBSET (0..l)  BY <2>1
  <2> QED BY <2>2
<1>4. \A n \in 1..l : n \in L <=> stack[n][1] < level  BY <1>1, <1>3
<1>5. PICK p : p = Max(L)  OBVIOUS
<1>6. p \in L /\ \A k \in L : k <= p
  <2>1. L \in SUBSET Int /\ L # {}  BY <1>3
  <2>2. IsFiniteSet(L)
    <3>1. IsFiniteSet(0..l)  BY FS_Interval
    <3> QED BY <3>1, FS_Subset
  <2> QED BY <1>5, <2>1, <2>2, GreatestIn
<1>7. p \in 0..l  BY <1>6
<1>8. Pop(stack, level) = SubSeq(stack, 1, p)  BY <1>3, <1>5 DEF Pop
<1>9. /\ SubSeq(stack, 1, p) \in Seq(Int \X Segments(titles)) /\ Len(SubSeq(stack, 1, p)) = p
      /\ \A i \in 1..p : SubSeq(stack, 1, p)[i] = stack[i]
  <2>1. \A i \in 1..p : stack[i] \in Int \X Segments(titles)  BY <1>2, <1>7
  <2>2. /\ SubSeq(stack, 1, p) \in Seq(Int \X Segments(titles))
        /\ Len(SubSeq(stack, 1, p)) = (IF 1 <= p THEN p - 1 + 1 ELSE 0)
        /\ \A i \in 1..p - 1 + 1 : SubSeq(stack, 1, p)[i] = stack[1 + i - 1]
    BY <1>7, <2>1, SubSeqProperties
  <2> QED BY <1>7, <2>2
<1>10. \A i \in 1..p : stack[i][1] < level
  <2> SUFFICES ASSUME NEW i \in 1..p PROVE stack[i][1] < level  OBVIOUS
  <2>1. i \in 1..l /\ p \in 1..l  BY <1>7
  <2>2. stack[p][1] < level  BY <1>4, <1>6, <2>1
  <2>3. i = p \/ stack[i][1] < stack[p][1]  BY <1>1, <2>1 DEF Growing
  <2> QED BY <1>2, <2>1, <2>2, <2>3
<1>11. \A i \in p + 1..l : stack[i][1] >= level
  <2> SUFFICES ASSUME NEW i \in p + 1..l PROVE stack[i][1] >= level  OBVIOUS
  <2>1. i \in 1..l /\ ~(i <= p)  BY <1>7
  <2>2. i \notin L  BY <1>6, <2>1
  <2> QED BY <1>2, <1>4, <2>1, <2>2
<1> QED BY <1>1, <1>7, <1>8, <1>9, <1>10, <1>11

(* Headings of any levels and titles, found one by one, keep it so: the    *)
(* stack is what the lines above call for, and each new name is free.      *)
THEOREM SectionsTold ==
    ASSUME NEW titles, NEW m \in Seq(Segments(titles))
    PROVE  /\ SectionsNamed([stack |-> <<>>, used |-> {m}, out |-> <<>>], m, titles)
           /\ \A acc, heads, last, links : \A h \in Int \X Int \X titles :
                 SectionsNamed(acc, m, titles) =>
                    SectionsNamed(SectionStep(acc, h, heads, m, last, links), m, titles)
<1>1. SectionsNamed([stack |-> <<>>, used |-> {m}, out |-> <<>>], m, titles)
  <2>1. IsFiniteSet({m})  BY FS_Singleton
  <2>2. <<>> \in Seq(Int \X Segments(titles)) /\ Len(<<>>) = 0 /\ DOMAIN <<>> = {} /\ <<>> \in Seq({})
    OBVIOUS
  <2>3. PICK acc : acc = [stack |-> <<>>, used |-> {m}, out |-> <<>>]  OBVIOUS
  <2>4. /\ acc.stack = <<>> /\ acc.used = {m} /\ acc.out = <<>>
        /\ acc = [stack |-> acc.stack, used |-> acc.used, out |-> acc.out]
    BY <2>3
  <2>5. \E D : acc.out \in Seq(D)  BY <2>2, <2>4
  <2>6. Growing(acc.stack)  BY <2>2, <2>4 DEF Growing
  <2>7. DOMAIN acc.out = {} /\ 1..Len(acc.stack) = {}  BY <2>2, <2>4
  <2>8. SectionsNamed(acc, m, titles)  BY <2>1, <2>2, <2>4, <2>5, <2>6, <2>7 DEF SectionsNamed
  <2> QED BY <2>3, <2>8
<1>2. ASSUME NEW acc, NEW heads, NEW last, NEW links, NEW h \in Int \X Int \X titles,
             SectionsNamed(acc, m, titles)
      PROVE  SectionsNamed(SectionStep(acc, h, heads, m, last, links), m, titles)
  <2>1. PICK old, used, out : old = acc.stack /\ used = acc.used /\ out = acc.out  OBVIOUS
  <2>2. /\ old \in Seq(Int \X Segments(titles))
        /\ Growing(old)
        /\ \A k \in 1..Len(old) : \E i \in DOMAIN out : out[i].qname = Chain(m, old, k)
        /\ IsFiniteSet(used) /\ m \in used
        /\ \A i \in DOMAIN out : out[i].qname \in used \ {m}
        /\ \A i, j \in DOMAIN out : out[i].qname = out[j].qname => i = j
    BY <1>2, <2>1 DEF SectionsNamed
  <2>3. PICK D : out \in Seq(D)  BY <1>2, <2>1 DEF SectionsNamed
  <2>4. h[2] \in Int /\ h[3] \in titles  OBVIOUS
  <2>5. PICK stack : stack = Pop(old, h[2])  OBVIOUS
  <2>6. PICK p \in 0..Len(old) :
           /\ stack \in Seq(Int \X Segments(titles)) /\ Len(stack) = p
           /\ \A i \in 1..p : stack[i] = old[i] /\ old[i][1] < h[2]
    <3>1. PICK level \in Int : level = h[2]  BY <2>4
    <3>2. \E p \in 0..Len(old) :
             /\ Pop(old, level) \in Seq(Int \X Segments(titles)) /\ Len(Pop(old, level)) = p
             /\ \A i \in 1..p : Pop(old, level)[i] = old[i] /\ old[i][1] < level
             /\ \A i \in p + 1..Len(old) : old[i][1] >= level
      BY <2>2, PopKeeps
    <3> QED BY <2>5, <3>1, <3>2
  <2>7. PICK base : base = m \o [i \in DOMAIN stack |-> stack[i][2]]  OBVIOUS
  <2>8. DOMAIN stack = 1..p /\ p \in Nat /\ p <= Len(old) /\ Len(old) \in Nat  BY <2>2, <2>6
  <2>9. base \in Seq(Segments(titles))
    <3>1. PICK t : t = [i \in 1..p |-> stack[i][2]]  OBVIOUS
    <3>2. \A i \in 1..p : stack[i] \in Int \X Segments(titles)  BY <2>6, <2>8
    <3>3. t \in [1..p -> Segments(titles)]  BY <3>1, <3>2
    <3>4. t \in Seq(Segments(titles))  BY <2>8, <3>3, FunctionIsSequence
    <3>5. m \o t \in Seq(Segments(titles))  BY <3>4
    <3>6. base = m \o t  BY <2>7, <2>8, <3>1
    <3> QED BY <3>5, <3>6
  <2>10. PICK seg : seg = FreshSegment(base, h[3], used)  OBVIOUS
  <2>11. seg \in Segments(titles) /\ Append(base, seg) \notin used
    BY <2>2, <2>4, <2>9, <2>10, FreshIsFree
  <2>12. PICK u : /\ u.qname = Append(base, seg)
                  /\ SectionStep(acc, h, heads, m, last, links) =
                        [stack |-> Append(stack, <<h[2], seg>>),
                         used  |-> used \union {Append(base, seg)}, out |-> Append(out, u)]
    <3>1. PICK v : v = Section(h, SectionEnd(h, heads, last), m, Append(base, seg), links)  OBVIOUS
    <3>2. v.qname = Append(base, seg)  BY <3>1 DEF Section
    <3> QED BY <2>1, <2>5, <2>7, <2>10, <3>1, <3>2 DEF SectionStep
  <2>13. PICK q : q = Append(base, seg)  OBVIOUS
  <2>14. PICK e \in Int \X Segments(titles) : e = <<h[2], seg>>  BY <2>4, <2>11
  <2>15. PICK new : new = Append(stack, e)  OBVIOUS
  <2>16. /\ new \in Seq(Int \X Segments(titles)) /\ Len(new) = p + 1
         /\ \A i \in 1..p : new[i] = stack[i] /\ new[i] = old[i] /\ old[i][1] < h[2]
         /\ new[p + 1] = e /\ e[1] = h[2] /\ e[2] = seg
    BY <2>6, <2>8, <2>14, <2>15
  <2>17. PICK all : all = Append(out, u)  OBVIOUS
  <2>18. /\ all \in Seq(D \union {u}) /\ DOMAIN all = 1..Len(out) + 1 /\ Len(out) \in Nat
         /\ DOMAIN out = 1..Len(out)
         /\ \A i \in 1..Len(out) : all[i] = out[i]
         /\ all[Len(out) + 1] = u
    BY <2>3, <2>17
  <2>19. Growing(new)
    <3> SUFFICES ASSUME NEW j \in 1..p + 1, NEW k \in 1..p + 1, j < k PROVE new[j][1] < new[k][1]
      BY <2>16 DEF Growing
    <3>1. CASE k = p + 1
      <4>1. j \in 1..p  BY <2>8, <3>1
      <4> QED BY <2>16, <3>1, <4>1
    <3>2. CASE k # p + 1
      <4>1. j \in 1..p /\ k \in 1..p  BY <2>8, <3>2
      <4>2. j \in 1..Len(old) /\ k \in 1..Len(old)  BY <2>8, <4>1
      <4> QED BY <2>2, <2>16, <4>1, <4>2 DEF Growing
    <3> QED BY <3>1, <3>2
  <2>20. ASSUME NEW k \in 1..p + 1 PROVE \E i \in DOMAIN all : all[i].qname = Chain(m, new, k)
    <3>1. CASE k = p + 1
      <4>1. q = Chain(m, new, k)
        <5>1. PICK t : t = [i \in 1..p |-> stack[i][2]]  OBVIOUS
        <5>2. \A i \in 1..p : stack[i] \in Int \X Segments(titles)  BY <2>6, <2>8
        <5>3. t \in [1..p -> Segments(titles)]  BY <5>1, <5>2
        <5>4. t \in Seq(Segments(titles)) /\ Len(t) = p  BY <2>8, <5>3, FunctionIsSequence
        <5>5. PICK w : w = [i \in 1..p + 1 |-> new[i][2]]  OBVIOUS
        <5>6. \A i \in 1..p + 1 : new[i] \in Int \X Segments(titles)  BY <2>8, <2>16
        <5>7. w \in [1..p + 1 -> Segments(titles)]  BY <5>5, <5>6
        <5>8. w \in Seq(Segments(titles)) /\ Len(w) = p + 1
          BY <2>8, <5>7, FunctionIsSequence
        <5>9. \A i \in 1..p : w[i] = t[i]  BY <2>8, <2>16, <5>1, <5>5
        <5>10. w[p + 1] = seg  BY <2>8, <2>16, <5>5
        <5>11. w = Append(t, seg)  BY <2>8, <2>11, <5>4, <5>8, <5>9, <5>10
        <5>12. m \o Append(t, seg) = Append(m \o t, seg)  BY <2>11, <5>4
        <5>13. base = m \o t  BY <2>7, <2>8, <5>1
        <5> QED BY <2>13, <3>1, <5>5, <5>11, <5>12, <5>13 DEF Chain
      <4>2. PICK o : o = Len(out) + 1  OBVIOUS
      <4>3. o \in DOMAIN all /\ all[o] = u  BY <2>18, <4>2
      <4>4. u.qname = q  BY <2>12, <2>13
      <4>5. all[o].qname = Chain(m, new, k)  BY <4>1, <4>3, <4>4
      <4> QED BY <4>3, <4>5
    <3>2. CASE k # p + 1
      <4>1. k \in 1..p /\ k \in 1..Len(old)  BY <2>8, <3>2
      <4>2. PICK i \in DOMAIN out : out[i].qname = Chain(m, old, k)  BY <2>2, <4>1
      <4>3. Chain(m, old, k) = Chain(m, new, k)
        <5>1. \A n \in 1..k : n \in 1..p  BY <2>8, <4>1
        <5>2. \A n \in 1..k : new[n] = old[n]  BY <2>16, <5>1
        <5>3. [n \in 1..k |-> old[n][2]] = [n \in 1..k |-> new[n][2]]  BY <5>2
        <5> QED BY <5>3 DEF Chain
      <4>4. i \in DOMAIN all /\ all[i] = out[i]  BY <2>18, <4>2
      <4> QED BY <4>2, <4>3, <4>4
    <3> QED BY <3>1, <3>2
  <2>21. q \notin used /\ u.qname = q  BY <2>11, <2>12, <2>13
  <2>22. IsFiniteSet(used \union {q}) /\ m \in used \union {q}  BY <2>2, FS_AddElement
  <2>23. \A i \in DOMAIN all : all[i].qname \in (used \union {q}) \ {m}
    <3> SUFFICES ASSUME NEW i \in DOMAIN all PROVE all[i].qname \in (used \union {q}) \ {m}  OBVIOUS
    <3>1. CASE i = Len(out) + 1  BY <2>2, <2>18, <2>21, <3>1
    <3>2. CASE i # Len(out) + 1
      <4>1. i \in DOMAIN out /\ all[i] = out[i]  BY <2>18, <3>2
      <4> QED BY <2>2, <4>1
    <3> QED BY <3>1, <3>2
  <2>24. ASSUME NEW i \in DOMAIN all, NEW j \in DOMAIN all, all[i].qname = all[j].qname
         PROVE  i = j
    <3>1. \A k \in DOMAIN all : k = Len(out) + 1 \/ (k \in DOMAIN out /\ all[k] = out[k])  BY <2>18
    <3>2. \A k \in DOMAIN out : out[k].qname # q  BY <2>2, <2>21
    <3>3. all[Len(out) + 1].qname = q  BY <2>18, <2>21
    <3> QED BY <2>2, <2>24, <3>1, <3>2, <3>3
  <2>25. PICK after : after = [stack |-> new, used |-> used \union {q}, out |-> all]  OBVIOUS
  <2>26. after = [stack |-> after.stack, used |-> after.used, out |-> after.out]
         /\ after.stack = new /\ after.used = used \union {q} /\ after.out = all
    BY <2>25
  <2>27. SectionStep(acc, h, heads, m, last, links) = after
    BY <2>12, <2>13, <2>14, <2>15, <2>17, <2>25
  <2>28. \A k \in 1..Len(new) : \E i \in DOMAIN all : all[i].qname = Chain(m, new, k)  BY <2>16, <2>20
  <2>29. SectionsNamed(after, m, titles)
    BY <2>16, <2>18, <2>19, <2>22, <2>23, <2>24, <2>26, <2>28 DEF SectionsNamed
  <2> QED BY <2>27, <2>29
<1> QED BY <1>1, <1>2
=============================================================================
