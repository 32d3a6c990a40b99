---------------------------- MODULE MCIngestion ----------------------------
(* Small repositories for the model checker. *)
EXTENDS Ingestion, TLC

CONSTANTS
    f1, f2,            \* two files, in walk order
    a, b,              \* two qualified names
    v1, v1moved, v2,   \* versions: v1moved is v1's text on other lines
    v3,                \* a version without a chunk to embed
    s1, s2, s3,        \* their shas
    r1, r2             \* two runs

MCSha   == (v1 :> s1) @@ (v1moved :> s1) @@ (v2 :> s2)
MCPrecedes == {<<f1, f2>>}

\* The first text refers to both files, the second to the later one.
MCCalls == (s1 :> {<<f1, b>>, <<f2, a>>}) @@ (s2 :> {<<f2, a>>})

File2(x, y) == (a :> x) @@ (b :> y)
Tree2(x, y) == (f1 :> x) @@ (f2 :> y)

\* f1 gains or loses b, and a changes with it or not; when only b goes, f2's
\* one unit moves to other lines.
MCTrees ==
    {Tree2(File2(v1, None), File2(v1, None)),
     Tree2(File2(v2, v1),   File2(v1, None)),
     Tree2(File2(v2, None), File2(v1moved, None))}

\* One file, so that two runs and a reembed can interleave at every step; its
\* second form changes a and gains a b without a chunk.
PairSha   == (v1 :> s1) @@ (v2 :> s2) @@ (v3 :> s3)
PairPrecedes == {}
PairCalls == (s1 :> {<<f1, b>>}) @@ (s2 :> {<<f1, b>>}) @@ (s3 :> {})
PairTrees ==
    {f1 :> x : x \in {File2(v1, None), File2(v2, v3), Broken}}

PairSymmetry == Permutations(Runs)

\* Bound: requests arrive one after the other.
OneAtATime == \A w, x \in Writers : Busy(w) /\ Busy(x) => w = x

\* Bound: a reembed, which writes points only, runs alone.
ReembedAlone == Busy(Reembed) => \A r \in Runs : ~Busy(r)

\* Bound: so does a run without an embedding pipeline, whose points are all
\* it does differently.
PointsAlone ==
    \A r, x \in Runs : Busy(r) /\ ~embeds[r] /\ Busy(x) => x = r

PairBounds == ReembedAlone /\ PointsAlone
=============================================================================
