---------------------------- MODULE MCKnowledge -----------------------------
EXTENDS GraphStores, UnitTable, Credentials, Retrieval, Compression

MCUpper == {"FOO", "B"}
MCRank  == [n \in {"Foo", "bar", "FOO", "B", "m", "a", "q", "x", "pkg", "<anonymous>"} |->
              CASE n = "<anonymous>" -> 0 [] n = "B" -> 1 [] n = "FOO" -> 2
                [] n = "Foo" -> 3 [] n = "a" -> 4 [] n = "bar" -> 5 [] n = "m" -> 6
                [] n = "pkg" -> 7 [] n = "q" -> 8 [] n = "x" -> 9]

---------------------------------------------------------------------------
(* Syntax trees: a declaration takes five lines from `at'.                 *)

Node(type, name, from, to) ==
    [type |-> type, name |-> name, from |-> from, to |-> to, ref |-> None, value |-> None,
     mods |-> {}, bases |-> <<>>, kids |-> <<>>, body |-> <<>>]

Ref(root, via, path) == [root |-> root, via |-> via, path |-> path]

Call(type, root, via, path) == [Node(type, None, 0, 0) EXCEPT !.ref = Ref(root, via, path)]

Decl(type, name, at, kids) == [Node(type, name, at, at + 4) EXCEPT !.kids = kids]
Inner(type, name, at, body) == [Node(type, name, at + 1, at + 3) EXCEPT !.body = body]

Go(at) ==
    LET calls == <<Call("call_expression", "identifier", {}, <<"bar">>),
                   Call("call_expression", "call", {"selector_expression"}, <<"x">>)>>
        type == [Node("type_spec", "Foo", at, at + 4) EXCEPT !.value = "struct_type",
                   !.kids = <<[Node("field_declaration", None, at, at) EXCEPT
                                 !.ref = Ref("type_identifier", {"pointer_type"}, <<"B">>)]>>] IN
    {[Node("function_declaration", "bar", at, at + 1) EXCEPT !.body = calls],
     [Node("method_declaration", "bar", at, at + 1) EXCEPT !.body = calls,
        !.ref = Ref("type_identifier", {"pointer_type"}, <<"Foo">>)],
     [Node("method_declaration", "bar", at, at + 1) EXCEPT !.ref = Ref("other", {}, <<>>)],
     Decl("type_declaration", None, at, <<type, [type EXCEPT !.value = "map_type"]>>),
     Decl("type_declaration", None, at,
          <<[type EXCEPT !.name = "B", !.value = "interface_type",
               !.kids = <<[Node("type_elem", None, at, at) EXCEPT
                             !.ref = Ref("type_identifier", {}, <<"Foo">>)],
                          [Node("type_elem", None, at, at) EXCEPT
                             !.ref = Ref("union", {}, <<"x">>)]>>]>>),
     Decl("const_declaration", None, at,
          <<[Node("const_spec", None, at, at) EXCEPT
               !.kids = <<Node("identifier", "x", at, at), Node("identifier", "q", at, at)>>]>>),
     Decl("import_declaration", None, at,
          <<[Node("import_spec", None, at, at) EXCEPT !.ref = Ref("path", {}, <<"pkg", "m">>)]>>)}

Rust(at) ==
    LET calls == <<Call("call_expression", "identifier", {"scoped_identifier"}, <<"Foo", "bar">>),
                   Call("call_expression", "self", {"field_expression"}, <<"self", "q">>),
                   Call("call_expression", "index", {}, <<>>)>>
        item == [Node("function_item", "bar", at + 1, at + 1) EXCEPT !.body = calls]
        impl == [Decl("impl_item", None, at, <<item, Node("const_item", "B", at + 2, at + 2)>>)
                   EXCEPT !.ref = Ref("type_identifier", {"generic_type"}, <<"Foo">>)] IN
    {[Node("function_item", "Foo", at, at) EXCEPT !.body = calls],
     Node("struct_item", "Foo", at, at + 1),
     impl,
     [impl EXCEPT !.value = Ref("type_identifier", {}, <<"B">>)],
     Decl("trait_item", "B", at, <<item>>),
     Decl("mod_item", "x", at, <<Node("struct_item", "Foo", at + 1, at + 1), impl,
                                 Decl("mod_item", "x", at + 1, <<item>>)>>),
     Node("static_item", "FOO", at, at),
     Decl("use_declaration", None, at,
          <<[Decl("scoped_use_list", None, at,
                  <<Decl("use_list", None, at,
                      <<Node("self", None, at, at),
                        Decl("use_as_clause", "q", at,
                             <<[Node("identifier", "m", at, at) EXCEPT
                                  !.ref = Ref("identifier", {}, <<"m">>)]>>),
                        Node("use_wildcard", None, at, at)>>)>>)
               EXCEPT !.ref = Ref("crate", {}, <<"pkg">>)]>>)}

Java(at) ==
    LET calls == <<Call("method_invocation", "none", {}, <<"bar">>),
                   Call("method_invocation", "call", {"field_access"}, <<"q">>),
                   Call("object_creation_expression", "type_identifier", {"generic_type"}, <<"Foo">>)>>
        method(n) == Inner("method_declaration", n, at, calls)
        const(t, mods) == [Node(t, None, at + 1, at + 1) EXCEPT !.mods = mods,
                             !.kids = <<Node("variable_declarator", "FOO", 0, 0),
                                        Node("variable_declarator", "x", 0, 0)>>] IN
    {Decl("class_declaration", "Foo", at, <<method("bar"), method("bar"),
                                            const("field_declaration", {"static", "final"})>>),
     Decl("class_declaration", "Foo", at,
          <<method("B"), [Node("class_declaration", "B", at + 2, at + 3) EXCEPT
                            !.kids = <<[method("q") EXCEPT !.from = at + 3, !.to = at + 3]>>]>>),
     Decl("interface_declaration", "B", at, <<const("constant_declaration", {}),
                                              const("field_declaration", {"static"})>>),
     [Decl("enum_declaration", "B", at,
           <<Decl("enum_body_declarations", None, at, <<method(None)>>),
             Node("enum_constant", "x", at, at)>>)
        EXCEPT !.bases = <<Ref("type_identifier", {"generic_type"}, <<"Foo">>)>>],
     [Node("import_declaration", None, at, at) EXCEPT
        !.ref = Ref("identifier", {"scoped_identifier"}, <<"pkg", "m">>)],
     Node("class_declaration", None, at, at)}

Cs(at) ==
    LET calls == <<Call("invocation_expression", "this", {"member_access_expression"}, <<"this", "bar">>),
                   Call("invocation_expression", "conditional", {}, <<>>),
                   Call("object_creation_expression", "identifier", {}, <<"Foo">>)>>
        method(n) == Inner("method_declaration", n, at, calls)
        prop(v, kids) == [Inner("property_declaration", "q", at, calls) EXCEPT !.value = v, !.kids = kids]
        field(mods) == [Inner("field_declaration", None, at, <<>>) EXCEPT !.mods = mods,
                          !.kids = <<Node("variable_declarator", "FOO", 0, 0),
                                     Node("variable_declarator", "x", 0, 0)>>]
        type(kids) == Decl("class_declaration", "Foo", at, kids)
        using == [Node("using_directive", None, at, at) EXCEPT
                    !.kids = <<[Node("identifier", None, at, at) EXCEPT
                                  !.ref = Ref("identifier", {}, <<"pkg">>)]>>] IN
    {Decl("namespace_declaration", "x", at, <<using, type(<<method("bar"), field({"const"})>>)>>),
     type(<<method("B"), method(None), field({"static", "readonly"}), field({"static"})>>),
     type(<<[Node("struct_declaration", "B", at + 1, at + 3) EXCEPT
               !.kids = <<method("q")>>],
            prop("arrow_expression_clause", <<>>), prop(None, <<Node("accessor", None, 0, 0)>>)>>),
     type(<<prop(None, <<[Node("accessor", None, 0, 0) EXCEPT !.value = "block"]>>)>>),
     [Decl("enum_declaration", "B", at, <<method("bar")>>) EXCEPT
        !.bases = <<Ref("identifier", {"qualified_name"}, <<"pkg", "Foo">>)>>],
     using,
     Node("class_declaration", None, at, at)}

Js(at) ==
    LET calls == <<Call("call_expression", "this", {"member_expression"}, <<"this", "q">>),
                   Call("new_expression", "identifier", {}, <<"Foo">>),
                   Call("call_expression", "subscript", {}, <<>>)>>
        target(rel, ups, names) == [rel |-> rel, ups |-> ups, names |-> names, suffix |-> None]
        var(name, value) == [Node("variable_declarator", name, at, at) EXCEPT
                               !.value = value, !.body = calls]
        class == [Decl("class_declaration", "Foo", at,
                    <<[Node("method_definition", "bar", at + 1, at + 1) EXCEPT !.body = calls],
                      [Node("method_definition", "bar", at + 2, at + 2) EXCEPT !.body = calls],
                      [Node("field_definition", "q", at + 3, at + 3) EXCEPT !.value = "arrow_function"],
                      Node("public_field_definition", "FOO", at + 3, at + 3),
                      Node("public_field_definition", "x", at + 3, at + 3)>>)
                    EXCEPT !.bases = <<Ref("identifier", {"member_expression"}, <<"B", "m">>),
                                       Ref("call", {}, <<>>)>>] IN
    {Decl("export_statement", None, at, <<class>>),
     class,
     [Node("function_declaration", "bar", at, at + 2) EXCEPT !.body = calls],
     Decl("lexical_declaration", None, at, <<var("bar", "arrow_function"), var("FOO", None),
                                             var(None, "object"), var("x", "number")>>),
     Decl("lexical_declaration", None, at,
          <<[var("x", "call_expression") EXCEPT !.mods = {"require"},
               !.kids = <<[Node("string", None, 0, 0) EXCEPT !.ref = target(TRUE, 0, <<"index">>)]>>]>>),
     [Decl("import_statement", None, at, <<Node("import_specifier", "q", 0, 0)>>) EXCEPT
        !.ref = target(TRUE, 1, <<"m">>)],
     [Node("export_statement", None, at, at) EXCEPT !.ref = target(FALSE, 0, <<"pkg", "m">>)],
     [Node("import_statement", None, at, at) EXCEPT !.ref = target(TRUE, 2, <<"m">>)],
     [Node("import_statement", None, at, at) EXCEPT !.ref = target(TRUE, 1, <<>>)]}

Py(at) ==
    LET calls == <<Call("Call", "Name", {}, <<"bar">>), Call("Call", "Name", {"Attribute"}, <<"self", "q">>),
                   Call("Call", "Subscript", {"Attribute"}, <<"q">>)>>
        def(n, l) == [Node("FunctionDef", n, l, l) EXCEPT !.body = calls]
        assign(n) == [Node("Assign", n, at + 3, at + 3) EXCEPT !.kids = <<Node("Name", n, 0, 0)>>]
        class == [Decl("ClassDef", "Foo", at, <<def("bar", at + 1), def("bar", at + 2), assign("FOO"),
                                                Node("ClassDef", "B", at + 3, at + 4)>>)
                    EXCEPT !.bases = <<Ref("Name", {}, <<"B">>), Ref("Subscript", {}, <<"x">>)>>] IN
    {class,
     [class EXCEPT !.name = "B", !.bases = <<Ref("Name", {}, <<"Foo">>)>>],
     def("bar", at), def("Foo", at),
     assign("B"), assign("x"),
     [Node("AnnAssign", "FOO", at, at) EXCEPT !.value = "Constant"],
     [Node("Import", None, at, at) EXCEPT
        !.kids = <<[Node("alias", None, 0, 0) EXCEPT !.ref = Ref("Name", {}, <<"pkg", "a">>)]>>],
     [Node("ImportFrom", None, at, at) EXCEPT !.ref = Ref("Name", {}, <<"pkg">>),
        !.kids = <<Node("alias", "a", 0, 0), Node("alias", "*", 0, 0)>>]}

Path(dir, stem, suffix) == [dir |-> dir, stem |-> stem, suffix |-> suffix]

CodeFile(lang, path, root) ==
    [lang |-> lang, path |-> path, root |-> root, last |-> 15, broken |-> FALSE]

Triples(D(_)) == {<<a, b, c>> : a \in D(1), b \in D(6), c \in D(11)}

CodeFiles ==
    {CodeFile("go", Path(<<"pkg">>, "m", ".go"), r) : r \in Triples(Go)} \union
    {CodeFile("rust", Path(<<"pkg">>, "mod", ".rs"), r) : r \in Triples(Rust)} \union
    {CodeFile("java", Path(<<"pkg">>, "m", ".java"), r) : r \in Triples(Java)} \union
    {CodeFile("csharp", Path(<<"pkg">>, "m", ".cs"), r) : r \in Triples(Cs)} \union
    {CodeFile("javascript", Path(<<"pkg">>, "index", ".js"), r) : r \in Triples(Js)} \union
    {CodeFile("python", Path(<<"pkg">>, "__init__", ".py"), r) : r \in Triples(Py)}

\* Another file of the tree, with names of the others.
Library ==
    CodeFile("python", Path(<<>>, "pkg", ".py"),
             <<Node("FunctionDef", "bar", 1, 1), Node("ClassDef", "Foo", 2, 2),
               [Node("AnnAssign", "q", 3, 3) EXCEPT !.value = "Constant"]>>)
Broken == [Library EXCEPT !.broken = TRUE]

---------------------------------------------------------------------------
(* Documents.                                                              *)

BlankLine == [fence |-> None, head |-> None, links |-> <<>>]
Link(kind, ups, names, suffix) == [kind |-> kind, ups |-> ups, names |-> names, suffix |-> suffix]

Lines ==
    {[BlankLine EXCEPT !.head = h] : h \in {<<1, "a">>, <<2, "a">>, <<2, "b">>, <<3, "a">>}} \union
    {[BlankLine EXCEPT !.fence = f] : f \in {<<"tick", 3>>, <<"tick", 4>>, <<"tilde", 3>>}} \union
    {[BlankLine EXCEPT !.links = <<Link("relative", 0, <<"m">>, ".go"), Link("absolute", 0, <<"a">>, ".md"),
                               Link("scheme", 0, <<"x">>, None), Link("relative", 2, <<"m">>, ".go")>>]}

Documents(n) ==
    {[lang |-> "markdown", path |-> Path(<<"pkg">>, "a", ".md"), lines |-> s] : s \in [1..n -> Lines]}
    \union {[lang |-> "text", path |-> Path(<<>>, "a", ".txt"), lines |-> <<BlankLine>>]}

---------------------------------------------------------------------------
MCTrees == {<<f, Library>> : f \in CodeFiles} \union {<<d>> : d \in Documents(4)}
           \union {<<Broken, f>> : f \in {CodeFile("go", Path(<<"pkg">>, "m", ".go"), <<g>>) : g \in Go(1)}}

(* Retrieval: units 1 to 4 in the stores, 5 a seed nobody knows; 4 may be   *)
(* an External node, 3 a point without a vector.                           *)

MCKind(k) == <<"Class", "Function", "Constant", k, "Function">>

MCWorlds ==
    {[nodes |-> 1..4, edges |-> es, kind |-> MCKind(w[1]), chars |-> w[2],
      points |-> 1..4, placeholder |-> {3}, cosine |-> w[3],
      matches |-> {1, 2, 3}, updated |-> <<1, 3, 2, 1, 1>>] :
        es \in {{{1, 2}, {1, 4}, {2, 3}, {3, 4}}, {{1, 2}, {2, 3}, {3, 4}},
                {{1, 3}, {1, 2}, {2, 3}, {2, 4}, {3, 4}}, {{1, 2}, {1, 3}, {1, 4}}, {}},
        w \in {<<"External", <<0, 60, 10, 10, 10>>, <<3, 9, 12, 9, 0>>>>,
               <<"Method", <<60, 10, 100, 0, 10>>, <<0 - 3, 0 - 3, 9, 12, 0>>>>}}

MCQueries ==
    {[seeds |-> s, topK |-> k, kinds |-> ks] :
        s \in {{}, {1}, {2, 4}, {1, 5}}, k \in {2, 10}, ks \in {{}, {"Class", "Function"}}}

---------------------------------------------------------------------------
(* Graph stores: the nodes of two files, an External one, and edges.       *)

GraphNode(id, kind, file, commit) ==
    [id |-> id, props |-> [kind |-> kind, repo |-> "r", file |-> file, commit |-> commit]]
External == [id |-> "ext", props |-> [kind |-> "External", repo |-> "r"]]
Edge(src, kind, dst) == [src |-> src, kind |-> kind, dst |-> dst]

MCEdges == {Edge("a1", "DEFINES", "a2"), Edge("a2", "CALLS", "b1"), Edge("b1", "CALLS", "a2"),
            Edge("b1", "CALLS", "ext")}
MCCalls ==
    {[op |-> "nodes", nodes |-> <<GraphNode("a1", "Module", "A", c),
                                  GraphNode("a2", k, "A", c)>>] :
        c \in {1, 2}, k \in {"Function"}} \union
    {[op |-> "nodes", nodes |-> <<GraphNode("b1", "Function", "B", 1), External>>],
     [op |-> "nodes", nodes |-> <<GraphNode("a2", "Class", "A", 3)>>],
     [op |-> "edges", edges |-> MCEdges],
     [op |-> "delete", repo |-> "r", file |-> "A"], [op |-> "delete", repo |-> "r", file |-> "B"]}
MCNodeRecords == UNION {ToSet(c.nodes) : c \in {x \in MCCalls : x.op = "nodes"}}

---------------------------------------------------------------------------
(* Unit table: two repositories, 1 and 2, with files "A" and "B".           *)

TableUnit(id, repo, file, qname, kind, parent, first, last, sha) ==
    [id |-> id, repo |-> repo, file |-> file, qname |-> qname, kind |-> kind, parent |-> parent,
     first |-> first, last |-> last, sha |-> sha, tokens |-> 10 * (last - first)]

MCBatches ==
    {{TableUnit(1, 1, "A", "a", "Module", None, 1, n, n),
      TableUnit(2, 1, "A", "a.b", "Class", "a", n - 3, n, 1),
      TableUnit(3, 1, "A", "a.b.c", "Method", "a.b", n - 2, n - 1, 1)} : n \in {5, 9}} \union
    {{TableUnit(4, 1, "B", "a.b", "Function", "a", 2, 4, 1),
      TableUnit(5, 1, "B", "x", "Class", "gone", 3, 3, 1)},
     {TableUnit(6, 2, "A", "a", "Module", None, 1, 7, 1),
      TableUnit(7, 2, "A", "a.b", "Function", "a", 1, 7, 1)},
     {TableUnit(8, 2, "B", "a.b", "Function", "a", 3, 7, 2),
      TableUnit(9, 2, "B", "a.b.c", "Class", "a.b", 9, 11, 2)}}

MCTableQueries ==
    {[matches |-> m, repo |-> r, limit |-> l, meta |-> m = {"x"}] :
        m \in {{"a", "a.b", "a.b.c"}, {"a.b"}, {"x"}}, r \in {None, 1, 2}, l \in 1..3}

TableNames == <<"a", "a.b", "a.b.c", "x">>
MCNameRank == [n \in ToSet(TableNames) |-> CHOOSE k \in 1..4 : TableNames[k] = n]
MCNameLength == [n \in ToSet(TableNames) |-> CASE n \in {"a", "x"} -> 1 [] n = "a.b" -> 3 [] OTHER -> 5]

---------------------------------------------------------------------------
(* Compression: batches of nine units of two modules, of files that share   *)
(* names, rightly or not, and of one with collisions; any unit may fail.    *)

Renamed(id, qname, leaf, name, kind, parent, chars) ==
    [id |-> id, qname |-> qname, leaf |-> leaf, name |-> name, kind |-> kind, parent |-> parent,
     public |-> name # "h", deps |-> {"dep"}, chars |-> chars]

DenseUnit(id, qname, leaf, kind, parent, chars) == Renamed(id, qname, leaf, leaf, kind, parent, chars)

MCClass == {DenseUnit(2, "m.C", "C", "cls", "m", 0), DenseUnit(3, "m.C.D", "D", "cls", "m.C", 9)}

MCUnits(c) ==
    {{DenseUnit(1, "m", "m", "mod", None, c), DenseUnit(4, "m.C.f", "f", "mth", "m.C", 5),
      DenseUnit(5, "m.g", "g", "fn", "m", 8), DenseUnit(6, "m.h", "h", "fn", "m", 11),
      DenseUnit(7, "m.K", "K", "const", "m", 2), DenseUnit(8, "n", "n", "mod", None, 1),
      DenseUnit(9, "n.C", "C", "cls", "n", 4)} \union MCClass,
     {DenseUnit(1, "m", "m", "mod", None, c), DenseUnit(4, "m", "m", "mod", None, 3),
      DenseUnit(5, "m.C", "C", "cls", "m", 4), DenseUnit(6, "m.C.E", "E", "cls", "m.C", 1)} \union MCClass,
     {DenseUnit(1, "p", "p", "mod", None, c), DenseUnit(2, "p.m", "m", "mod", None, 6),
      DenseUnit(3, "p.m", "m", "fn", "p", 7), DenseUnit(4, "p.m.f", "f", "fn", "p.m", 8)},
     {DenseUnit(1, "m", "m", "mod", None, c), DenseUnit(4, "m.g", "g", "fn", "m", 3),
      Renamed(5, "m.g#2", "g#2", "g", "fn", "m", 4), Renamed(6, "m.C#2", "C#2", "C", "cls", "m", 2),
      DenseUnit(7, "m.C#2.D", "D", "cls", "m.C#2", 5)} \union MCClass}

MCInputs ==
    {[units |-> us,
      nodes |-> {[id |-> i, kind |-> IF i = 5 THEN "External" ELSE "Class"] : i \in 1..5},
      edges |-> es] :
        us \in UNION {MCUnits(c) : c \in 12..16},
        es \in {{<<1, 2>>, <<2, 1>>, <<3, 5>>}, {<<1, 2>>, <<1, 3>>, <<5, 4>>}}}

---------------------------------------------------------------------------
(* One part at a time.                                                     *)

VARIABLES
    part,                                   \* "units", "retrieval", "stores", "table", "compression", "credentials"
    tree, units, built, stage

unitVars      == <<tree, units, built, stage>>

UG == INSTANCE UnitGraph WITH Upper <- MCUpper, Rank <- MCRank, Trees <- MCTrees
MCRules == {<<e[1][1], e[1][2], e[2]>> : e \in UG!EdgeRules}

UnitsOff == tree = None /\ units = None /\ built = None /\ stage = None
RetrievalOff ==
    /\ world = None /\ query = None /\ channel = [c \in Channels |-> "off"]
    /\ found = None /\ queue = None /\ visited = None /\ broken = None /\ packet = None
StoresOff ==
    /\ tier = None /\ nodes = <<>> /\ edges = {} /\ todo = [s \in Sessions |-> <<>>] /\ cache = None /\ raced = {}
TableOff == rows = <<>>
CompressionOff == input = None /\ cursor = None /\ encoded = None /\ result = None
CredentialsOff == CredentialsInit /\ env = None /\ tokens = [t \in Tokens |-> "none"]

KnowledgeInit ==
    \/ part = "units" /\ UG!Init /\ RetrievalOff /\ StoresOff /\ TableOff /\ CompressionOff /\ CredentialsOff
    \/ part = "retrieval" /\ RetrievalInit /\ UnitsOff /\ StoresOff /\ TableOff /\ CompressionOff /\ CredentialsOff
    \/ part = "stores" /\ Init /\ UnitsOff /\ RetrievalOff /\ TableOff /\ CompressionOff /\ CredentialsOff
    \/ part = "table" /\ TableInit /\ UnitsOff /\ RetrievalOff /\ StoresOff /\ CompressionOff /\ CredentialsOff
    \/ part = "compression" /\ CompressionInit /\ UnitsOff /\ RetrievalOff /\ StoresOff /\ TableOff /\ CredentialsOff
    \/ part = "credentials" /\ CredentialsInit /\ UnitsOff /\ RetrievalOff /\ StoresOff /\ TableOff /\ CompressionOff

KnowledgeNext ==
    \/ part = "units" /\ UG!Next /\ UNCHANGED <<part, retrievalVars, storeVars, rows, compressVars, credentialVars>>
    \/ part = "retrieval" /\ RetrievalNext /\ UNCHANGED <<part, unitVars, storeVars, rows, compressVars, credentialVars>>
    \/ part = "stores" /\ Next /\ UNCHANGED <<part, unitVars, retrievalVars, rows, compressVars, credentialVars>>
    \/ part = "table" /\ TableNext /\ UNCHANGED <<part, unitVars, retrievalVars, storeVars, compressVars, credentialVars>>
    \/ part = "compression" /\ CompressionNext /\ UNCHANGED <<part, unitVars, retrievalVars, storeVars, rows, credentialVars>>
    \/ part = "credentials" /\ CredentialsNext /\ UNCHANGED <<part, unitVars, retrievalVars, storeVars, rows, compressVars>>

KnowledgeSpec == KnowledgeInit /\ [][KnowledgeNext]_<<part, unitVars, retrievalVars, storeVars, rows, compressVars, credentialVars>>

BuilderAccepts     == part = "units" => UG!BuilderAccepts
UnitsNest          == part = "units" => UG!UnitsNest
=============================================================================
