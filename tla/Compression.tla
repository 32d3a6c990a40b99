---------------------------- MODULE Compression -----------------------------
(***************************************************************************)
(* One compression run over the units and graph of a repository: each unit *)
(* is encoded on its own and may fail, the others are summarised by module,*)
(* by public API and by graph node, cut into chunks and embedded.          *)
(***************************************************************************)
EXTENDS Nothing, Integers, Sequences, FiniteSets, FiniteSetsExt

CONSTANTS
    Inputs,         \* [units, nodes, edges]; a unit is [id, qname, name, leaf,
                    \* kind, parent, public, deps, chars], a node [id, kind]
    ChunkChars,     \* chunk_size and chunk_overlap, in characters
    OverlapChars

\* The chunker rejects an overlap that is not smaller than a chunk.
ASSUME CompressionAssumption ==
    /\ ChunkChars \in Nat /\ OverlapChars \in Nat /\ OverlapChars < ChunkChars
    /\ \A x \in Inputs :
          /\ IsFiniteSet(x.units)
          /\ \A u \in x.units : u.id \in Int /\ u.chars \in Nat
          /\ \A u, v \in x.units : u.id = v.id => u = v

VARIABLES
    input,
    cursor,         \* the next unit to encode, in order of their ids
    encoded,        \* id -> dense record
    result          \* None, or the CompressionResult

compressVars == <<input, cursor, encoded, result>>

Ids == {u.id : u \in input.units}
UnitOf(i) == CHOOSE u \in input.units : u.id = i

\* The units whose encoding failed have no record.
Healthy == {u \in input.units : u.id \in DOMAIN encoded}

---------------------------------------------------------------------------
(* Summaries.                                                              *)

\* What a record depends on: a module's imports, a function's calls, a
\* class's bases.
DenseRecord(u) ==
    [id |-> u.qname, dep |-> IF u.kind \in {"mod", "fn", "mth", "cls"} THEN u.deps ELSE {}]

\* Mutant: the module is that of the parent, which a nested unit is not in.
ParentQname(u) == IF u.kind = "mod" THEN u.qname ELSE u.parent

\* The units of this name; the index keeps the one with the last id.
Named(name) == {u \in Healthy : u.qname = name}

Indexed(name) == UnitOf(Max({u.id : u \in Named(name)}))

\* The module around a unit is sought among the units of the batch; the
\* first parent that is not there stands for it.
ModuleQname(u) ==
    LET up[n \in 0..Cardinality(Healthy)] ==
            IF n = 0 THEN u
            ELSE LET v == up[n - 1] IN
                 IF v.kind = "mod" \/ Named(v.parent) = {} THEN v ELSE Indexed(v.parent)
        top == up[Cardinality(Healthy)] IN
    CASE top.kind = "mod" -> top.qname
      [] top.kind # "mod" /\ top.parent = None -> u.qname
      [] OTHER -> top.parent

Modules == {u \in Healthy : u.kind = "mod"}

\* Every class of the module, nested ones too; functions and constants of
\* its top level only; the imports of the first file of this module name.
\* A unit goes by the leaf of its qualified name, which a collision within
\* the file may have given a suffix (f#2 for the second f).
DenseModules ==
    LET group(m) == {u \in Healthy : ModuleQname(u) = m.qname}
        leaves(m, kind) == {u.leaf : u \in {v \in group(m) : v.kind = kind /\ v.parent = m.qname}}
        anchor(m) == UnitOf(Min({u.id : u \in {v \in Modules : v.qname = m.qname}})) IN
    {[id    |-> m.qname,
      cls   |-> {u.leaf : u \in {v \in group(m) : v.kind = "cls"}},
      fn    |-> leaves(m, "fn"),
      const |-> leaves(m, "const"),
      imp   |-> anchor(m).deps] : m \in Modules}

\* The public functions and classes of a module's top level, by their own
\* names, which no collision changes; a module without any has no record.
DenseApis ==
    LET public(m, kind) == {u.name : u \in {v \in Healthy :
                                /\ v.parent = m.qname /\ v.public /\ v.kind = kind}} IN
    {r \in {[id |-> m.qname, api |-> public(m, "fn"), cls |-> public(m, "cls")] : m \in Modules} :
        r.api \union r.cls # {}}

\* The neighbours of each node that is not External, from all the edges.
DenseSlices ==
    {LET o == {e[2] : e \in {x \in input.edges : x[1] = n.id}}
         i == {e[1] : e \in {x \in input.edges : x[2] = n.id}} IN
     [id |-> n.id, o |-> o, i |-> i, deg |-> Cardinality(o) + Cardinality(i)] :
        n \in {x \in input.nodes : x.kind # "External"}}

\* The parts of a text of n characters: each begins a stride after the
\* one before, and the one that reaches the end is the last.
Chunks(n) ==
    LET stride == ChunkChars - OverlapChars
        starts == {k \in 0..n : k * stride < n /\ (k = 0 \/ (k - 1) * stride + ChunkChars < n)}
        end(i) == IF i + ChunkChars < n THEN i + ChunkChars ELSE n IN
    {[seq |-> k, from |-> k * stride, to |-> end(k * stride)] : k \in starts}

---------------------------------------------------------------------------
(* The run.                                                                *)

First(ids) == IF ids = {} THEN None ELSE Min(ids)

CompressionInit ==
    /\ input \in Inputs
    /\ cursor = First(Ids) /\ encoded = <<>> /\ result = None

After(i) == First({j \in Ids : j > i})

EncodeUnit ==
    /\ cursor # None
    /\ encoded' = [i \in DOMAIN encoded \union {cursor} |->
                     IF i = cursor THEN DenseRecord(UnitOf(cursor)) ELSE encoded[i]]
    /\ cursor' = After(cursor)
    /\ UNCHANGED <<input, result>>

EncodeFails == cursor # None /\ cursor' = After(cursor) /\ UNCHANGED <<input, encoded, result>>

\* The first chunk of a unit carries its vector; a unit without text gets
\* a point without one.
Compressed ==
    [modules  |-> DenseModules,
     apis     |-> DenseApis,
     slices   |-> DenseSlices,
     chunks   |-> [i \in DOMAIN encoded |-> Chunks(UnitOf(i).chars)],
     points   |-> [i \in DOMAIN encoded |-> Chunks(UnitOf(i).chars) # {}],
     degraded |-> Ids \ DOMAIN encoded]

Finish ==
    /\ cursor = None /\ result = None
    /\ result' = Compressed
    /\ UNCHANGED <<input, cursor, encoded>>

CompressionNext == EncodeUnit \/ EncodeFails \/ Finish

CompressionSpec == CompressionInit /\ [][CompressionNext]_compressVars

---------------------------------------------------------------------------
(* Properties.                                                             *)

\* Units of one name are of one kind and have one parent, as two files that
\* make the same module give them: m.py and m.go, but not a function m of
\* pkg/__init__.py beside pkg/m.py.
NamesClear == \A u, v \in Healthy : u.qname = v.qname => u.kind = v.kind /\ u.parent = v.parent

\* A name of the API stands for a unit of the module's top level, which the
\* module's summary lists under its leaf: the second of two functions f is
\* f in the API and f#2 in the summary, also when the first one failed.
Listed(name, m, kind, leaves) ==
    \E u \in Healthy : /\ u.kind = kind /\ u.parent = m.id
                       /\ u.name = name /\ u.leaf \in leaves

\* Whatever units fail, the three summaries tell the same story: a public
\* name of the API is a unit its module's summary lists; a class whose enclosing
\* scopes were all encoded is in the summary of its module; a summary names
\* nothing whose unit failed; a slice is seen from both its ends; and the
\* chunks of a unit cover its text, none within another.
SummariesAgree ==
    result # None =>
        /\ NamesClear => \A a \in result.apis : \E m \in result.modules :
              /\ m.id = a.id
              /\ \A name \in a.api : Listed(name, m, "fn", m.fn)
              /\ \A name \in a.cls : Listed(name, m, "cls", m.cls)
        /\ \A m \in result.modules :
              /\ \A leaf \in m.cls \union m.fn \union m.const : \E u \in Healthy : u.leaf = leaf
              /\ m.fn \subseteq {u.leaf : u \in {v \in Healthy : v.kind = "fn" /\ v.parent = m.id}}
              /\ NamesClear => \A u, v \in Healthy :
                    /\ u.kind = "fn" /\ u.parent = m.id => u.leaf \in m.fn
                    /\ u.kind = "cls" /\ u.parent = m.id => u.leaf \in m.cls
                    /\ /\ u.kind = "cls" /\ u.parent = m.id
                       /\ v.kind = "cls" /\ v.parent = u.qname
                       => v.leaf \in m.cls
        /\ \A s, t \in result.slices : t.id \in s.o <=> s.id \in t.i
        /\ \A i \in DOMAIN result.chunks :
              LET n == UnitOf(i).chars
                  cs == result.chunks[i] IN
              /\ \A c \in 0..(n - 1) : \E k \in cs : k.from <= c /\ c < k.to
              /\ \A k, l \in cs : /\ k.to - k.from \in 1..ChunkChars
                                  /\ k.from <= l.from /\ l.to <= k.to => k = l
              /\ result.points[i] = (n > 0)
=============================================================================
