--------------------------- MODULE GraphContract ----------------------------
(***************************************************************************)
(* What every graph repository promises, whichever tier runs: nodes are    *)
(* merged by their id and replaced as a whole, edges are merged by source, *)
(* kind and destination and only between nodes the writer found, and the   *)
(* nodes of a file are deleted together with every edge at them.  A writer *)
(* may look first and write later; what it found may be gone by then.      *)
(***************************************************************************)
CONSTANTS
    NodeRecords,    \* the nodes callers may write: [id, props]
    EdgeRecords     \* the edges callers may write: [src, kind, dst]

VARIABLES
    nodes,          \* node id -> its properties
    edges,          \* the edges
    linked,         \* edges a writer found both ends of, and still writes
    doomed,         \* the sets of ids a deletion found, and still deletes
    raced           \* edges in `linked' when a deletion took an end of theirs

contractVars == <<nodes, edges, linked, doomed, raced>>

\* Some ids get the whole of a record, the others keep what they have.
MergeNodes ==
    /\ DOMAIN nodes \subseteq DOMAIN nodes'
    /\ \A i \in DOMAIN nodes' :
          \/ i \in DOMAIN nodes /\ nodes'[i] = nodes[i]
          \/ \E n \in NodeRecords : n.id = i /\ nodes'[i] = n.props
    /\ UNCHANGED edges

Joined(e) == {e.src, e.dst} \subseteq DOMAIN nodes

MergeEdges ==
    /\ edges \subseteq edges'
    /\ edges' \subseteq edges \union linked \union {e \in EdgeRecords : Joined(e)}
    /\ UNCHANGED nodes

OfOneFile(ids) ==
    \E i \in ids : /\ i \in DOMAIN nodes /\ "file" \in DOMAIN nodes[i]
                   /\ ids = {j \in DOMAIN nodes : /\ "file" \in DOMAIN nodes[j]
                                                  /\ nodes[j].repo = nodes[i].repo
                                                  /\ nodes[j].file = nodes[i].file}

At(ids, es) == {e \in es : {e.src, e.dst} \intersect ids # {}}

DeleteFile ==
    \E gone \in (SUBSET DOMAIN nodes) \union doomed :
        /\ OfOneFile(gone) \/ gone \in doomed
        /\ nodes' = [i \in DOMAIN nodes \ gone |-> nodes[i]]
        /\ edges' = edges \ At(gone, edges)

\* What is found is there when it is looked for.
Looks ==
    /\ \A e \in linked' \ linked : e \in EdgeRecords /\ Joined(e)
    /\ \A ids \in doomed' \ doomed : OfOneFile(ids)

\* A deletion races the edges that are still to be written to its nodes.
Races ==
    LET gone == DOMAIN nodes \ DOMAIN nodes' IN
    raced' = (raced \union At(gone, linked)) \intersect (edges' \union linked')

Init == nodes = <<>> /\ edges = {} /\ linked = {} /\ doomed = {} /\ raced = {}

Next ==
    /\ \/ /\ MergeNodes \/ MergeEdges \/ DeleteFile
          /\ linked' \subseteq linked /\ doomed' \subseteq doomed
       \/ UNCHANGED <<nodes, edges>> /\ Looks
    /\ Races

Spec == Init /\ [][Next]_contractVars
=============================================================================
