------------------------------ MODULE UnitTable -----------------------------
(***************************************************************************)
(* The unit table of the canonical store and the tools that answer from    *)
(* it.  Both tiers run the same statements, on Postgres or on SQLite; only *)
(* an escaped pattern matches differently.                                 *)
(***************************************************************************)
EXTENDS Nothing, Ordering, Integers, Sequences, FiniteSets, SequencesExt, FiniteSetsExt

CONSTANTS
    Batches,        \* what a file's ingest may write: sets of rows with ids
    Searches,       \* [matches: set of qualified names, repo, limit, meta];
                    \* meta: the text searched for has a _ or a %
    NameRank,       \* qualified names in string order
    NameLength,     \* and how long they are
    MaxTokens       \* MAX_RESPONSE_TOKENS

\* Ids and repositories stand for strings in their order, lines count from
\* one, and no two names have the same rank.
ASSUME TableAssumption ==
    /\ \A batch \in Batches : /\ IsFiniteSet(batch)
                              /\ \A u \in batch : /\ {u.id, u.repo} \subseteq Int
                                                  /\ {u.first, u.last} \subseteq Nat \ {0}
                                                  /\ u.qname \in DOMAIN NameRank
    /\ \A a \in DOMAIN NameRank : NameRank[a] \in Int /\ NameLength[a] \in Int
    /\ \A a, b \in DOMAIN NameRank : NameRank[a] = NameRank[b] => a = b
    /\ \A q \in Searches : q.limit \in Nat \ {0}

VARIABLE rows       \* unit id -> row

Row(u) == [repo |-> u.repo, file |-> u.file, qname |-> u.qname, kind |-> u.kind,
           parent |-> u.parent, first |-> u.first, last |-> u.last, sha |-> u.sha,
           tokens |-> u.tokens]

---------------------------------------------------------------------------
(* Statements.                                                             *)

\* A row with the same content is left as it is, its lines included.
Changes(u) == u.id \notin DOMAIN rows \/ rows[u.id].sha # u.sha

UpsertUnits(batch) ==
    LET written == {u \in batch : Changes(u)}
        ids     == {u.id : u \in written} IN
    rows' = [i \in DOMAIN rows \union ids |->
                IF i \in ids THEN Row(CHOOSE u \in written : u.id = i) ELSE rows[i]]

RowsOfFile(repo, file) == {i \in DOMAIN rows : rows[i].repo = repo /\ rows[i].file = file}

DeleteUnitsForFile(repo, file) ==
    rows' = [i \in DOMAIN rows \ RowsOfFile(repo, file) |-> rows[i]]

TableInit == rows = <<>>

TableNext ==
    \/ \E batch \in Batches : UpsertUnits(batch)
    \/ \E i \in DOMAIN rows : DeleteUnitsForFile(rows[i].repo, rows[i].file)

TableSpec == TableInit /\ [][TableNext]_rows

---------------------------------------------------------------------------
(* Reading.                                                                *)

ShorterName(a, b) ==
    \/ NameLength[a] < NameLength[b]
    \/ NameLength[a] = NameLength[b] /\ NameRank[a] < NameRank[b]

RowsOfRepo(repo) == {i \in DOMAIN rows : rows[i].repo = repo}

RepoIds == {rows[i].repo : i \in DOMAIN rows}

LesserOf(m, n) == IF m < n THEN m ELSE n

Take(s, n) == SubSeq(s, 1, LesserOf(n, Len(s)))

MatchOrder(i, j) ==
    \/ ShorterName(rows[i].qname, rows[j].qname)
    \/ rows[i].qname = rows[j].qname /\ i < j

\* Rows whose name matches, the shortest names first.
SearchQnames(repo, names, limit) ==
    Take(Ordered({i \in RowsOfRepo(repo) : rows[i].qname \in names}, MatchOrder), limit)

\* The names a pattern matches.  The tools escape _ and % with a backslash
\* and do not name it: it is the escape character of Postgres, and SQLite
\* has none, so there the pattern asks for a backslash no name has.
Tiers == {"postgres", "sqlite"}
Like(q, tier) == IF tier = "sqlite" /\ q.meta THEN {} ELSE q.matches

\* Mutant: no row beyond the limit is fetched.
FindInRepoCapped(repo, names, limit) == SearchQnames(repo, names, limit)

\* One row more than asked for shows that there are more.
FindInRepo(repo, names, limit) == SearchQnames(repo, names, limit + 1)

TargetRepos(q) == IF q.repo = None THEN RepoIds ELSE {q.repo} \intersect RepoIds

MergeOrder(i, j) ==
    \/ ShorterName(rows[i].qname, rows[j].qname)
    \/ /\ rows[i].qname = rows[j].qname
       /\ rows[i].repo < rows[j].repo \/ (rows[i].repo = rows[j].repo /\ i < j)

\* Each repository gives at most `limit' rows, then all together.
FindSymbol(q, tier) ==
    LET answer(r) == FindInRepo(r, Like(q, tier), q.limit)
        order == Ordered(UNION {ToSet(Take(answer(r), q.limit)) : r \in TargetRepos(q)}, MergeOrder) IN
    [matches   |-> Take(order, q.limit),
     truncated |-> \/ \E r \in TargetRepos(q) : Len(answer(r)) > q.limit
                   \/ Len(order) > q.limit]

FirstByLine(units) ==
    IF units = {} THEN None
    ELSE CHOOSE i \in units : \A j \in units : rows[i].first <= rows[j].first

\* Mutant: the statement does not name the repository.
UnitByQnameAnywhere(repo, qname) == FirstByLine({i \in DOMAIN rows : rows[i].qname = qname})

\* The first unit of this name, by line.
UnitByQname(repo, qname) == FirstByLine({i \in RowsOfRepo(repo) : rows[i].qname = qname})

FileOrder(i, j) ==
    \/ rows[i].first < rows[j].first
    \/ rows[i].first = rows[j].first /\ rows[i].last > rows[j].last
    \/ rows[i].first = rows[j].first /\ rows[i].last = rows[j].last /\ i < j

\* The units of a file, an enclosing one before what it encloses.
Enclosing(repo, file) == Ordered(RowsOfFile(repo, file), FileOrder)

IsModule(i) == rows[i].kind = "Module"

\* A path stands for its module unit, or for its widest first unit.
ModuleOfFile(repo, file) ==
    LET order == Enclosing(repo, file)
        mods  == {n \in DOMAIN order : IsModule(order[n])} IN
    IF order = <<>> THEN None ELSE order[IF mods = {} THEN 1 ELSE Min(mods)]

\* The text of a file: its module unit from line 1, or the units that end
\* after all earlier ones.
Stitch(repo, file) ==
    LET order == Enclosing(repo, file)
        whole == {n \in DOMAIN order : IsModule(order[n]) /\ rows[order[n]].first = 1}
        parts == {n \in DOMAIN order :
                     \A m \in 1..(n - 1) : rows[order[m]].last < rows[order[n]].last} IN
    IF whole # {} THEN <<order[Min(whole)]>> ELSE Picked(order, parts)

\* An id (of any repository's unit), a qualified name or a path.
ResolveReference(repo, form, value) ==
    CASE form = "id" -> IF value \in DOMAIN rows THEN value ELSE None
      [] form = "qname" -> UnitByQname(repo, value)
      [] form = "path" -> ModuleOfFile(repo, value)

\* The scopes around a unit, five at most; one that is not stored ends it.
ParentChain(i) ==
    LET chain[n \in 0..5] ==
            IF n = 0 THEN <<>>
            ELSE LET last == IF n = 1 THEN i ELSE Last(chain[n - 1]) IN
                 IF Len(chain[n - 1]) < n - 1 \/ last = None \/ rows[last].parent = None
                 THEN chain[n - 1]
                 ELSE Append(chain[n - 1], UnitByQname(rows[i].repo, rows[last].parent)) IN
    chain[5]

\* The hits, best first, until one exceeds the budget; the first is kept
\* whatever its size.
KeepHits(hits) ==
    LET spent[n \in 0..Len(hits)] == IF n = 0 THEN 0 ELSE spent[n - 1] + hits[n].tokens + 50
        over  == {n \in 2..Len(hits) : spent[n] > MaxTokens} IN
    [results |-> Take(hits, IF over = {} THEN Len(hits) ELSE Min(over) - 1),
     full    |-> over # {}]

\* The hits of one repository, ranked: by score, then by unit.
RankOrder(a, b) == a.score > b.score \/ (a.score = b.score /\ a.id < b.id)

\* Its first topK hits; that there were more is told to nobody.
TopHits(hits, topK) == ToSet(Take(Ordered(hits, RankOrder), topK))

\* A score as a hit shows it, with four of its five digits here.
Rounded(score) == (score + 5) \div 10

\* The merged order, by the rounded scores.
HitOrder(a, b) ==
    \/ Rounded(a.score) > Rounded(b.score)
    \/ Rounded(a.score) = Rounded(b.score) /\ NameRank[a.qname] < NameRank[b.qname]
    \/ /\ Rounded(a.score) = Rounded(b.score) /\ a.qname = b.qname
       /\ \/ rows[a.id].repo < rows[b.id].repo
          \/ rows[a.id].repo = rows[b.id].repo /\ a.id < b.id

\* search_code over what retrieval found in each repository; one that fails
\* is left out, unless it is the only one.
SearchCode(hitsOf, failing, topK) ==
    LET kept == KeepHits(Ordered(UNION {TopHits(hitsOf[r], topK) : r \in RepoIds \ failing}, HitOrder)) IN
    IF failing # {} /\ Cardinality(RepoIds) = 1 THEN None
    ELSE [results |-> kept.results, truncated |-> kept.full, failed |-> failing]

---------------------------------------------------------------------------
(* Properties.                                                             *)

\* Nothing that matches comes before a match that was returned without
\* being returned, over all repositories together.
FirstOfAll(got, all, Before(_, _)) ==
    \A i \in ToSet(got), j \in all \ ToSet(got) : ~Before(j, i)

\* An answer of find_symbol has the first matches of all the repositories
\* asked, and says it is truncated exactly when there are more; a text with
\* a _ or a % is left out on SQLite, where it finds nothing.
SymbolsHonest ==
    \A q \in Searches, tier \in Tiers :
        LET all == {i \in DOMAIN rows : rows[i].qname \in q.matches /\ rows[i].repo \in TargetRepos(q)}
            got == FindSymbol(q, tier) IN
        ~(q.meta /\ tier = "sqlite") =>
        /\ got.truncated <=> Cardinality(all) > q.limit
        /\ Len(got.matches) = (IF got.truncated THEN q.limit ELSE Cardinality(all))
        /\ FirstOfAll(got.matches, all,
                      LAMBDA i, j : ShorterName(rows[i].qname, rows[j].qname))

\* What retrieval may find in each repository: all its units.
RankedHits ==
    [r \in RepoIds |-> {[id |-> i, qname |-> rows[i].qname, score |-> 4 * rows[i].first,
                         tokens |-> rows[i].tokens] : i \in RowsOfRepo(r)}]

\* An answer of search_code is drawn from the topK best hits of each
\* repository that did not fail, no worse one before a better one; it has
\* them all unless it says it is truncated, and it is not empty when some
\* such repository has a hit.  It does not tell that a repository had more
\* than topK hits.
CodeHonest ==
    \A q \in Searches, failing \in {{}} \union {{r} : r \in RepoIds} :
        LET top == [r \in RepoIds |-> TopHits(RankedHits[r], q.limit)]
            all == UNION {top[r] : r \in RepoIds \ failing}
            got == SearchCode(RankedHits, failing, q.limit) IN
        /\ \A r \in RepoIds :
              /\ top[r] \subseteq RankedHits[r]
              /\ Cardinality(top[r]) = LesserOf(q.limit, Cardinality(RankedHits[r]))
              /\ \A a \in top[r], b \in RankedHits[r] \ top[r] : a.score >= b.score
        /\ got # None =>
              /\ ToSet(got.results) \subseteq all
              /\ ~got.truncated => ToSet(got.results) = all
              /\ FirstOfAll(got.results, all, LAMBDA a, b : Rounded(a.score) > Rounded(b.score))
              /\ RepoIds \ failing # {} => got.results # <<>>

SearchHonest == SymbolsHonest /\ CodeHonest

\* A unit is found by its id from any repository, and under its name in
\* its own; a file that is read has every line of every unit stored for
\* it, and the chain of a unit's parents never leaves the repository.
ReadFinds ==
    \A i \in DOMAIN rows :
        LET repo == rows[i].repo
            text == Stitch(repo, rows[i].file)
            named == ResolveReference(repo, "qname", rows[i].qname) IN
        /\ \A r \in RepoIds : ResolveReference(r, "id", i) = i
        /\ rows[ResolveReference(repo, "path", rows[i].file)].file = rows[i].file
        /\ rows[named].qname = rows[i].qname /\ rows[named].repo = repo
        /\ \/ \E n \in DOMAIN text : IsModule(text[n]) /\ rows[text[n]].first = 1
           \/ \A l \in rows[i].first..rows[i].last :
                 \E n \in DOMAIN text : l \in rows[text[n]].first..rows[text[n]].last
        /\ \A p \in ToSet(ParentChain(i)) : p = None \/ rows[p].repo = repo

\* What the tools answer is what the table holds, for searches and reads.
AnswersHonest == SearchHonest /\ ReadFinds
=============================================================================
