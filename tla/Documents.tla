----------------------------- MODULE Documents ------------------------------
(***************************************************************************)
(* The parser of markdown and text files.  A document is a sequence of     *)
(* lines, each a record                                                    *)
(*                                                                         *)
(*   fence  <<character, length>> of the run it starts with, or None       *)
(*   head   <<level, slug>> of the ATX heading it is, or None              *)
(*   links  the targets of its inline links                                *)
(***************************************************************************)
EXTENDS Parsers, UnitNames

\* Mutant: any fence line closes the open fence.
FenceStepAny(open, line) ==
    IF line.fence = None THEN open
    ELSE IF open = None THEN line.fence ELSE None

\* The fence that is open after a line: a run of the same character, at
\* least as long, closes it.
FenceStep(open, line) ==
    IF line.fence = None THEN open
    ELSE IF open = None THEN line.fence
    ELSE IF line.fence[1] = open[1] /\ line.fence[2] >= open[2] THEN None
    ELSE open

\* The fence open after each of the first i lines.
OpenAfter(lines) ==
    FoldLeft(LAMBDA acc, line : Append(acc, FenceStep(Last(acc), line)), <<None>>, lines)

\* Lines read for their content: outside a fence, and no fence themselves.
ScanText(lines) ==
    LET open == OpenAfter(lines) IN
    {i \in DOMAIN lines : open[i] = None /\ open[i + 1] = None}

\* <<line, level, slug>> of every heading, in order.
ScanHeadings(lines) ==
    LET text == ScanText(lines) IN
    FlatMap([i \in DOMAIN lines |-> i], LAMBDA i :
        IF i \in text /\ lines[i].head # None
        THEN <<<<i, lines[i].head[1], lines[i].head[2]>>>> ELSE <<>>)

\* A target as a dotted module name; schemes, anchors, unknown suffixes
\* and targets outside the repository have none.
ResolveLink(target, path) ==
    LET at == Normalize(IF target.kind = "absolute" THEN <<>> ELSE path.dir, target) IN
    IF \/ target.kind \in {"scheme", "anchor"} \/ target.suffix = None
       \/ at = <<>> \/ at = <<<<>>>>
    THEN <<>>
    ELSE <<PathQname([dir |-> Front(at[1]), stem |-> Last(at[1]), suffix |-> target.suffix])>>

\* The names each line links to.
ScanLinks(lines, path) ==
    LET text == ScanText(lines) IN
    [i \in DOMAIN lines |->
        IF i \in text
        THEN ToSet(FlatMap(lines[i].links, LAMBDA target : ResolveLink(target, path)))
        ELSE {}]

\* One section per heading, up to the next heading of any level.
BuildSections(lines, m, path) ==
    LET heads == ScanHeadings(lines)
        links == ScanLinks(lines, path) IN
    FoldLeft(LAMBDA acc, h : SectionStep(acc, h, heads, m, Len(lines), links),
             [stack |-> <<>>, used |-> {m}, out |-> <<>>], heads).out

\* Plain text has one unit and no links.
ParseDocument(doc) ==
    LET m == PathQname(doc.path)
        links == UNION {ScanLinks(doc.lines, doc.path)[i] : i \in DOMAIN doc.lines} IN
    IF doc.lang = "text" THEN <<ModuleUnit(m, Len(doc.lines), <<>>)>>
    ELSE <<ModuleUnit(m, Len(doc.lines), SetToSeq(links \ {m}))>>
         \o BuildSections(doc.lines, m, doc.path)
=============================================================================
