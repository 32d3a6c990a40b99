----------------------------- MODULE UnitNames ------------------------------
(***************************************************************************)
(* The names of the units of a file, which their ids are made of: the      *)
(* sections of a document take fresh ones as they are found, the units of  *)
(* code are told apart when the file is parsed.  A name is a sequence of   *)
(* segments <<name, n>>, where n > 1 is a `#n' suffix.                     *)
(***************************************************************************)
EXTENDS Integers, Sequences, FiniteSets, FiniteSetsExt, SequencesExt

---------------------------------------------------------------------------
(* Sections.                                                               *)

\* The first occupant keeps a name, the next ones get the least free n.
FreshSegment(base, slug, used) ==
    <<slug, CHOOSE n \in 1..Cardinality(used) + 1 :
               /\ base \o <<<<slug, n>>>> \notin used
               /\ \A k \in 1..n - 1 : base \o <<<<slug, k>>>> \in used>>

\* Mutant: siblings are not popped.
PopDeeper(stack, level) == SubSeq(stack, 1, Max({0} \union {n \in DOMAIN stack : stack[n][1] <= level}))

\* Headings of this level or deeper leave the stack, from its end.
Pop(stack, level) == SubSeq(stack, 1, Max({0} \union {n \in DOMAIN stack : stack[n][1] < level}))

\* The own body of a section ends above the next heading.
SectionEnd(h, heads, last) ==
    LET after == {k \in DOMAIN heads : heads[k][1] > h[1]} IN
    IF after = {} THEN last
    ELSE (CHOOSE n \in {heads[k][1] : k \in after} : \A k \in after : n <= heads[k][1]) - 1

Section(h, to, m, qname, links) ==
    [kind |-> "Section", name |-> h[3], qname |-> qname, parent |-> m, from |-> h[1], to |-> to,
     imports |-> SetToSeq((UNION {links[i] : i \in h[1]..to}) \ {m}),
     calls |-> <<>>, bases |-> <<>>]

\* One heading: acc is [stack, used, out].
SectionStep(acc, h, heads, m, last, links) ==
    LET stack == Pop(acc.stack, h[2])
        base  == m \o [i \in DOMAIN stack |-> stack[i][2]]
        seg   == FreshSegment(base, h[3], acc.used)
        qname == Append(base, seg) IN
    [stack |-> Append(stack, <<h[2], seg>>),
     used  |-> acc.used \union {qname},
     out   |-> Append(acc.out, Section(h, SectionEnd(h, heads, last), m, qname, links))]

---------------------------------------------------------------------------
(* Units of code.                                                          *)

\* Unit j comes before unit i among those of its name: line order.
Earlier(us, j, i) ==
    /\ us[j].qname = us[i].qname
    /\ \/ us[j].from < us[i].from
       \/ us[j].from = us[i].from /\ us[j].to < us[i].to
       \/ us[j].from = us[i].from /\ us[j].to = us[i].to /\ j < i

Ordinal(us, i) == 1 + Cardinality({j \in DOMAIN us : Earlier(us, j, i)})

\* Mutant: overloads share their name.
RawName(us, i) == us[i].qname

\* The first keeps its name, the others get `#2', `#3', ...  Only sections
\* have names with a suffix of their own, and theirs never collide.
UniqueName(us, i) ==
    IF Ordinal(us, i) = 1 THEN us[i].qname
    ELSE Append(Front(us[i].qname), <<Last(us[i].qname)[1], Ordinal(us, i)>>)

\* Mutant: members stay with the first class of the name.
OwnerFirst(us, j) == us[j].parent

\* A member inside the lines of a renamed class follows it.
Owner(us, j) ==
    LET renamed == {i \in DOMAIN us \ {j} :
                      /\ us[i].kind = "Class" /\ Ordinal(us, i) > 1
                      /\ us[i].qname = us[j].parent
                      /\ us[i].from <= us[j].from /\ us[j].to <= us[i].to} IN
    IF renamed = {} THEN us[j].parent
    ELSE UniqueName(us, CHOOSE i \in renamed :
                          \A k \in renamed : Ordinal(us, i) <= Ordinal(us, k))

ResolveCollisions(us) ==
    [i \in DOMAIN us |-> [us[i] EXCEPT !.qname = UniqueName(us, i), !.parent = Owner(us, i)]]

---------------------------------------------------------------------------
(* What these rest on: the shape of what a parser returns.                 *)

\* A name without a suffix.
Bare(q) == q # <<>> /\ q[Len(q)][2] = 1

\* Units may share a name only where no name has a suffix.
BareOrDistinct(us) ==
    \/ \A i \in DOMAIN us : Bare(us[i].qname)
    \/ \A i, j \in DOMAIN us : us[i].qname = us[j].qname => i = j

Encloses(us, k, j) == us[k].from <= us[j].from /\ us[j].to <= us[k].to

\* If the file has a class of the name of j's parent, j is in such a class.
WrittenInside(us) ==
    \A j \in DOMAIN us :
        (\E i \in DOMAIN us : us[i].kind = "Class" /\ us[i].qname = us[j].parent) =>
            \E k \in DOMAIN us \ {j} : /\ us[k].kind = "Class" /\ us[k].qname = us[j].parent
                                       /\ Encloses(us, k, j)

MembersInside(us) ==
    \A i, j \in DOMAIN us :
        us[i].kind = "Class" /\ us[j].parent = us[i].qname => Encloses(us, i, j)
=============================================================================
