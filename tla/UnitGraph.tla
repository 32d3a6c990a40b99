----------------------------- MODULE UnitGraph ------------------------------
(***************************************************************************)
(* From the files of a tree to its graph: every file is parsed and its     *)
(* qualified names made unique, then each file's nodes and edges are built *)
(* against the names of the whole tree.  A file the builder rejects fails. *)
(***************************************************************************)
EXTENDS Documents

CONSTANT Trees      \* the trees to ingest: sequences of files in walk order

VARIABLES
    tree,       \* the files
    units,      \* file_units: the units of the files parsed so far
    built,      \* the graph of the files built so far
    stage       \* "parse", "build" or "done"

vars == <<tree, units, built, stage>>

---------------------------------------------------------------------------
(* The graph of a file.                                                    *)

FileId(f)       == <<"file", f>>
UnitId(f, q)    == <<"unit", f, q>>
ExternalId(q)   == <<"external", q>>

\* What may be at the two ends of an edge of each kind.
EdgeRules ==
    ({<<"File", "CONTAINS">>}
        \X {"Module", "Class", "Function", "Method", "Constant", "Section"})
    \union ({<<"Module", "DEFINES">>} \X {"Class", "Function", "Constant", "Section"})
    \union ({<<"Class", "DEFINES">>} \X {"Method", "Constant"})
    \union ({<<"Module", "IMPORTS">>, <<"Section", "IMPORTS">>} \X {"Module", "External"})
    \union ({<<"Function", "CALLS">>, <<"Method", "CALLS">>}
        \X {"Function", "Method", "External"})
    \union ({<<"Class", "INHERITS">>} \X {"Class", "External"})

IsEdgeAllowed(e) == <<<<e.srcKind, e.kind>>, e.dstKind>> \in EdgeRules

\* The names of some files, the last one to define a name winning.
Resolver(fs, us) ==
    LET names == UNION {{us[f][i].qname : i \in DOMAIN us[f]} : f \in fs}
        lastOf(q) == CHOOSE f \in fs :
            /\ \E i \in DOMAIN us[f] : us[f][i].qname = q
            /\ \A g \in fs : (\E i \in DOMAIN us[g] : us[g][i].qname = q) => g <= f IN
    [q \in names |->
        LET f == lastOf(q)
            i == CHOOSE i \in DOMAIN us[f] : us[f][i].qname = q IN
        [id |-> UnitId(f, q), kind |-> us[f][i].kind]]

\* The first candidate that resolves to a unit of these kinds, or an
\* External node by the name as it is written.
ResolveOrExternal(name, candidates, resolver, kinds) ==
    LET hits == SelectSeq(candidates, LAMBDA c :
                    c \in DOMAIN resolver /\ resolver[c].kind \in kinds) IN
    IF hits = <<>> THEN [id |-> ExternalId(name), kind |-> "External"]
    ELSE resolver[hits[1]]

\* A bare name is tried as it is, then in the file's module.
Candidates(name, m) == IF Len(name) = 1 THEN <<name, m \o name>> ELSE <<name>>

MakeEdge(src, srcKind, kind, dst) ==
    [src |-> src, srcKind |-> srcKind, kind |-> kind, dst |-> dst.id, dstKind |-> dst.kind]

\* A file contains its units, and parents define their members.
StructuralEdges(f, us) ==
    LET target(i) == [id |-> UnitId(f, us[i].qname), kind |-> us[i].kind] IN
    {MakeEdge(FileId(f), "File", "CONTAINS", target(i)) :
        i \in {j \in DOMAIN us : us[j].kind # "Module"}}
    \union
    {MakeEdge(UnitId(f, us[i[1]].qname), us[i[1]].kind, "DEFINES", target(i[2])) :
        i \in {p \in (DOMAIN us) \X (DOMAIN us) : us[p[1]].qname = us[p[2]].parent}}

\* No edge from a unit to itself.
RelationEdges(f, u, kind, candidates, resolver, kinds) ==
    {e \in {MakeEdge(UnitId(f, u.qname), u.kind, kind,
                     ResolveOrExternal(n, candidates[n], resolver, kinds)) :
              n \in DOMAIN candidates} :
        e.src # e.dst}

ImportEdges(f, u, resolver) ==
    IF u.kind \notin {"Module", "Section"} THEN {}
    ELSE RelationEdges(f, u, "IMPORTS", [n \in ToSet(u.imports) |-> <<n>>], resolver, {"Module"})

CallEdges(f, u, m, resolver) ==
    IF u.kind \notin {"Function", "Method"} THEN {}
    ELSE RelationEdges(f, u, "CALLS", [n \in ToSet(u.calls) |-> Candidates(n, m)],
                       resolver, {"Function", "Method"})

InheritsEdges(f, u, m, resolver) ==
    IF u.kind # "Class" THEN {}
    ELSE RelationEdges(f, u, "INHERITS", [n \in ToSet(u.bases) |-> Candidates(n, m)],
                       resolver, {"Class"})

\* The names of the tree win over those of the file.
BuildGraph(f, us, m, resolver) ==
    LET names == resolver @@ Resolver({f}, [g \in {f} |-> us]) IN
    StructuralEdges(f, us) \union
    UNION {ImportEdges(f, us[i], names) \union CallEdges(f, us[i], m, names)
             \union InheritsEdges(f, us[i], m, names) : i \in DOMAIN us}

---------------------------------------------------------------------------
(* The pass over the tree.                                                 *)

Init ==
    /\ tree \in Trees
    /\ units = <<>> /\ built = <<>> /\ stage = "parse"

Parse(file) == IF file.lang \in {"markdown", "text"} THEN ParseDocument(file) ELSE ParseFile(file)

\* One file; a file that cannot be parsed has no units and is not built.
ParseNext ==
    /\ stage = "parse" /\ Len(units) < Len(tree)
    /\ units' = Append(units, ResolveCollisions(Parse(tree[Len(units) + 1])))
    /\ stage' = IF Len(units') = Len(tree) THEN "build" ELSE "parse"
    /\ UNCHANGED <<tree, built>>

\* The builder raises at the first edge no rule allows: the file fails.
BuildNext ==
    /\ stage = "build" /\ Len(built) < Len(tree)
    /\ LET f == Len(built) + 1
           edges == IF units[f] = <<>> THEN {}
                    ELSE BuildGraph(f, units[f], PathQname(tree[f].path),
                                    Resolver(DOMAIN units, units)) IN
       built' = Append(built, [edges |-> edges,
                               ok |-> \A e \in edges : IsEdgeAllowed(e)])
    /\ stage' = IF Len(built') = Len(tree) THEN "done" ELSE "build"
    /\ UNCHANGED <<tree, units>>

Next == ParseNext \/ BuildNext

Spec == Init /\ [][Next]_vars

---------------------------------------------------------------------------
(* Properties.                                                             *)

\* A Rust file may have a function or constant with the name of a type it
\* has an impl block for: they live in different namespaces.
RustValueShadows(file) ==
    /\ file.lang = "rust"
    /\ \E i, j \in DOMAIN file.root :
          /\ file.root[i].type \in {"function_item", "const_item", "static_item"}
          /\ file.root[j].type = "impl_item"
          /\ file.root[i].name = RustImplType(file.root[j])

\* Whatever a file declares, its units have distinct names (`unit_id' is
\* made of the name and is the key of every store), and the builder finds
\* only edges its rules allow, so that the file does not fail.
BuilderAccepts ==
    /\ \A f \in DOMAIN units : \A i, j \in DOMAIN units[f] :
          units[f][i].qname = units[f][j].qname => i = j
    /\ \A f \in DOMAIN built : built[f].ok \/ RustValueShadows(tree[f])

\* In a language whose members are written inside their class, the class a
\* member is attached to encloses its lines, also when several classes of
\* the file share a name.
MembersInsideOwner ==
    \A f \in DOMAIN units : tree[f].lang \notin {"go", "rust"} => MembersInside(units[f])

\* A parser of code gives no name or parent a suffix and a document has no
\* name twice, and a member is in a class of its parent's name: all that the
\* names of the units and the classes of the members rest on.
NamesAsParsed ==
    \A f \in DOMAIN units : LET us == Parse(tree[f]) IN
        /\ BareOrDistinct(us)
        /\ \A j \in DOMAIN us : us[j].parent = None \/ Bare(us[j].parent)
        /\ tree[f].lang \notin {"go", "rust"} => WrittenInside(us)

\* Line i is in a code block: a fence above it opened one, outside any
\* other, and no line between them closes it.
Fenced(lines) ==
    LET closes(o, c) == /\ lines[c].fence # None
                        /\ lines[c].fence[1] = lines[o].fence[1]
                        /\ lines[c].fence[2] >= lines[o].fence[2]
        fenced[i \in DOMAIN lines] ==
            \E o \in 1..i - 1 : /\ lines[o].fence # None /\ ~fenced[o]
                                /\ \A c \in o + 1..i - 1 : ~closes(o, c) IN
    {i \in DOMAIN lines : fenced[i]}

\* The nearest heading above with a smaller level; 0 if there is none.
HeadingAbove(us, levels, i) ==
    LET above == {j \in 2..i - 1 : levels[j] < levels[i]} IN
    IF above = {} THEN 0 ELSE CHOOSE j \in above : \A k \in above : k <= j

\* The headings outside code blocks, and no others, start the sections of
\* a document; these split the lines from the first one on, none shared and
\* none lost, and the name of each extends, by one segment, the name of the
\* heading it is under.
SectionsNest ==
    \A f \in DOMAIN units : tree[f].lang = "markdown" =>
        LET us == units[f]
            lines  == tree[f].lines
            starts == {us[i].from : i \in 2..Len(us)}
            levels == [i \in 2..Len(us) |-> lines[us[i].from].head[1]] IN
        /\ starts = {l \in DOMAIN lines \ Fenced(lines) : lines[l].head # None}
        /\ \A i \in 2..Len(us) :
             us[i].to = (IF i = Len(us) THEN Len(lines) ELSE us[i + 1].from - 1)
        /\ \A i \in 2..Len(us) :
             LET p == HeadingAbove(us, levels, i) IN
             Front(us[i].qname) = (IF p = 0 THEN us[1].qname ELSE us[p].qname)

\* What names say of nesting is what the lines say, in code and in documents.
UnitsNest == MembersInsideOwner /\ NamesAsParsed /\ SectionsNest
=============================================================================
