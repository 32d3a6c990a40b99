------------------------------ MODULE Parsers -------------------------------
(***************************************************************************)
(* The code parsers: what each language's extractor makes of a syntax      *)
(* tree.  The tree is what the grammar (or Python's ast) returns, and is a *)
(* sequence of nodes                                                       *)
(*                                                                         *)
(*   type   the node's type                                                *)
(*   name   its name field, None if missing (a syntax error, a pattern)    *)
(*   from   its first line, to its last                                    *)
(*   ref    the name it refers to: receiver type, callee, base, path       *)
(*   value  the type of its value field, None if there is none             *)
(*   mods   its modifiers                                                  *)
(*   bases  what its heritage clauses list                                 *)
(*   kids   the named children the extractor visits                        *)
(*   body   the nodes of its body that a walk finds, at any depth          *)
(*                                                                         *)
(* A reference is [root, via, path]: the shape its chain ends in, the      *)
(* shapes it passes through, and the names it spells.  A qualified name is *)
(* a sequence of segments <<name, n>>, where n > 1 is a `#n' suffix.       *)
(* Docstrings and signatures are display text and left out.                *)
(***************************************************************************)
EXTENDS Naturals, Sequences, SequencesExt

CONSTANTS
    None,       \* no name, reference, value, parent
    Upper,      \* the names in UPPER_CASE
    Rank        \* [names -> Nat]: the names in alphabetical order

FlatMap(s, Op(_)) == FlattenSeq([i \in 1..Len(s) |-> Op(s[i])])

Dotted(path) == [i \in DOMAIN path |-> <<path[i], 1>>]

Under(prefix, name) == Append(prefix, <<name, 1>>)

\* A chain of names, <<>> if it has another shape: callers skip those.
Chain(ref, roots, shapes) ==
    IF ref # None /\ ref.root \in roots /\ ref.via \subseteq shapes
    THEN <<Dotted(ref.path)>>
    ELSE <<>>

MakeUnit(kind, n, name, prefix, parent, calls, bases) ==
    [kind |-> kind, name |-> name, qname |-> Under(prefix, name),
     parent |-> parent, from |-> n.from, to |-> n.to,
     imports |-> <<>>, calls |-> calls, bases |-> bases]

\* The targets of a body's calls, those that can be resolved.
CallsOf(body, types, Target(_)) ==
    FlatMap(SelectSeq(body, LAMBDA c : c.type \in types), Target)

OfTypes(nodes, types) == SelectSeq(nodes, LAMBDA n : n.type \in types)

IsConstantName(name) == name \in Upper

\* The dotted name of a file: __init__, mod and index stand for their
\* directory, each in its own language.
PathQname(path) ==
    IF path.dir # <<>> /\ \/ path.suffix = ".py" /\ path.stem = "__init__"
                          \/ path.suffix = ".rs" /\ path.stem = "mod"
                          \/ path.suffix \in {".js", ".ts", None} /\ path.stem = "index"
    THEN Dotted(path.dir)
    ELSE Dotted(path.dir \o <<path.stem>>)

\* A relative target against the linking file's directory: <<>> if it
\* escapes the repository, the path otherwise.
Normalize(dir, target) ==
    IF target.ups > Len(dir) THEN <<>>
    ELSE <<SubSeq(dir, 1, Len(dir) - target.ups) \o target.names>>

---------------------------------------------------------------------------
(* Go.                                                                     *)

\* The base name of a type, pointer stripped and generics reduced.
GoType(ref) ==
    Chain(ref, {"type_identifier", "qualified_type"},
               {"pointer_type", "generic_type"})

GoSelector(c) == Chain(c.ref, {"identifier"}, {"selector_expression"})

GoCalls(n) == CallsOf(n.body, {"call_expression"}, GoSelector)

GoFunction(n, prefix, kind) ==
    IF n.name = None THEN <<>>
    ELSE <<MakeUnit(kind, n, n.name, prefix, prefix, GoCalls(n), <<>>)>>

\* Embedded fields are the ones without a name.
GoStructBases(fields) ==
    FlatMap(SelectSeq(OfTypes(fields, {"field_declaration"}),
                      LAMBDA f : f.name = None),
            LAMBDA f : GoType(f.ref))

GoInterfaceBases(elems) ==
    FlatMap(OfTypes(elems, {"type_elem"}),
            LAMBDA e : IF GoType(e.ref) # <<>> THEN GoType(e.ref)
                       ELSE <<Dotted(e.ref.path)>>)

\* Aliases and types that are neither struct nor interface are skipped.
GoTypeSpec(n, m) ==
    IF n.name = None \/ n.value \notin {"struct_type", "interface_type"} THEN <<>>
    ELSE <<MakeUnit("Class", n, n.name, m, m, <<>>,
                    IF n.value = "struct_type" THEN GoStructBases(n.kids)
                                               ELSE GoInterfaceBases(n.kids))>>

\* One unit per name; no rule on upper case.
GoConstSpec(n, m) ==
    FlatMap(OfTypes(n.kids, {"identifier"}),
            LAMBDA id : <<MakeUnit("Constant", n, id.name, m, m, <<>>, <<>>)>>)

\* A method's parent is its receiver's type, wherever that is declared.
GoMethod(n, m) ==
    LET recv == GoType(n.ref) IN
    IF recv = <<>> THEN GoFunction(n, m, "Function")
    ELSE GoFunction(n, m \o recv[1], "Method")

GoChildren(root, m) ==
    FlatMap(root, LAMBDA n :
        CASE n.type = "function_declaration" -> GoFunction(n, m, "Function")
          [] n.type = "method_declaration" -> GoMethod(n, m)
          [] n.type = "type_declaration" ->
               FlatMap(OfTypes(n.kids, {"type_spec"}), LAMBDA s : GoTypeSpec(s, m))
          [] n.type = "const_declaration" ->
               FlatMap(OfTypes(n.kids, {"const_spec"}), LAMBDA s : GoConstSpec(s, m))
          [] OTHER -> <<>>)

\* The path of each import, whatever its alias.
GoImports(root) ==
    FlatMap(OfTypes(root, {"import_declaration"}),
            LAMBDA n : FlatMap(OfTypes(n.kids, {"import_spec"}),
                               LAMBDA s : IF s.ref = None THEN <<>>
                                          ELSE <<Dotted(s.ref.path)>>))

---------------------------------------------------------------------------
(* Rust.                                                                   *)

RustPath(ref) ==
    Chain(ref, {"identifier", "type_identifier", "crate", "super", "self"},
               {"generic_type", "scoped_identifier", "scoped_type_identifier"})

RustField(ref) == Chain(ref, {"identifier", "self"}, {"field_expression"})

RustTarget(c) ==
    IF c.ref # None /\ "field_expression" \in c.ref.via THEN RustField(c.ref)
    ELSE IF c.ref # None /\ (c.ref.root = "identifier" \/ "scoped_identifier" \in c.ref.via)
    THEN RustPath(c.ref)
    ELSE <<>>

\* Macro invocations are not calls.
RustCalls(n) == CallsOf(n.body, {"call_expression"}, RustTarget)

RustFunction(n, prefix, parent, kind) ==
    IF n.name = None THEN <<>>
    ELSE <<MakeUnit(kind, n, n.name, prefix, parent, RustCalls(n), <<>>)>>

RustConstant(n, prefix, parent) ==
    IF n.name = None THEN <<>>
    ELSE <<MakeUnit("Constant", n, n.name, prefix, parent, <<>>, <<>>)>>

\* Methods and constants of an impl or a trait.
RustMembers(kids, type) ==
    FlatMap(kids, LAMBDA k :
        CASE k.type = "function_item" -> RustFunction(k, type, type, "Method")
          [] k.type \in {"const_item", "static_item"} -> RustConstant(k, type, type)
          [] OTHER -> <<>>)

RustType(n, prefix, parent, bases) ==
    IF n.name = None THEN <<>>
    ELSE <<MakeUnit("Class", n, n.name, prefix, parent, <<>>, bases)>>
         \o (IF n.type = "trait_item" THEN RustMembers(n.kids, Under(prefix, n.name))
             ELSE <<>>)

\* The bare name of the type an impl block is for.
RustImplType(n) ==
    LET path == RustPath(n.ref) IN IF path = <<>> THEN None ELSE Last(path[1])[1]

\* The traits implemented in this scope for a type.
RustTraits(kids, name) ==
    FlatMap(SelectSeq(kids, LAMBDA n : /\ n.type = "impl_item" /\ n.value # None
                                       /\ name # None /\ RustImplType(n) = name),
            LAMBDA n : RustPath(n.value))

\* Items of a scope have the file's module as parent, also inside a `mod'
\* block: the block has no unit.  Members have the type they are for.
RECURSIVE RustScope(_, _, _, _)
RustScope(kids, m, prefix, depth) ==
    FlatMap(kids, LAMBDA n :
        CASE n.type = "function_item" -> RustFunction(n, prefix, m, "Function")
          [] n.type \in {"struct_item", "enum_item", "trait_item", "union_item"} ->
               RustType(n, prefix, m, RustTraits(kids, n.name))
          [] n.type \in {"const_item", "static_item"} -> RustConstant(n, prefix, m)
          [] n.type = "impl_item" ->
               IF RustImplType(n) = None THEN <<>>
               ELSE RustMembers(n.kids, Under(prefix, RustImplType(n)))
          [] n.type = "mod_item" /\ n.name # None /\ depth = 0 ->
               RustScope(n.kids, m, Under(m, n.name), 1)
          [] OTHER -> <<>>)

\* One level of `mod' blocks is entered; names nest through it.
RustChildren(root, m) == RustScope(root, m, m, 0)

\* A use tree, flattened.
RECURSIVE RustUse(_, _)
RustUse(n, prefix) ==
    CASE n.type = "self" -> IF prefix = <<>> THEN <<>> ELSE <<prefix>>
      [] n.type \in {"identifier", "scoped_identifier", "crate", "super"} ->
           FlatMap(RustPath(n.ref), LAMBDA path : <<prefix \o path>>)
      [] n.type = "use_wildcard" /\ n.kids = <<>> ->
           IF prefix = <<>> THEN <<>> ELSE <<prefix>>
      [] n.type \in {"use_as_clause", "use_wildcard"} ->
           IF n.kids = <<>> THEN <<>> ELSE RustUse(n.kids[1], prefix)
      [] n.type = "scoped_use_list" ->
           LET base == RustPath(n.ref)
               under == IF base = <<>> THEN prefix ELSE prefix \o base[1] IN
           FlatMap(n.kids, LAMBDA k : RustUse(k, under))
      [] n.type = "use_list" -> FlatMap(n.kids, LAMBDA k : RustUse(k, prefix))
      [] OTHER -> <<>>

RustImports(root) ==
    FlatMap(OfTypes(root, {"use_declaration"}),
            LAMBDA n : FlatMap(n.kids, LAMBDA k : RustUse(k, <<>>)))

---------------------------------------------------------------------------
(* Java.                                                                   *)

JavaTypes   == {"class_declaration", "interface_declaration",
                "enum_declaration", "record_declaration",
                "annotation_type_declaration"}
JavaMethods == {"method_declaration", "constructor_declaration",
                "compact_constructor_declaration"}

JavaTypeName(ref) ==
    Chain(ref, {"type_identifier", "scoped_type_identifier"}, {"generic_type"})

\* What it extends, then what it implements.
JavaBases(n) == FlatMap(n.bases, JavaTypeName)

\* A call through a call's result or an array has no target.
JavaTarget(c) ==
    IF c.type = "object_creation_expression" THEN JavaTypeName(c.ref)
    ELSE Chain(c.ref, {"none", "identifier", "this"}, {"field_access"})

JavaCalls(n) ==
    CallsOf(n.body, {"method_invocation", "object_creation_expression"}, JavaTarget)

JavaMethod(n, prefix) ==
    <<MakeUnit("Method", n, IF n.name = None THEN "<anonymous>" ELSE n.name,
               prefix, prefix, JavaCalls(n), <<>>)>>

\* Interface constants are static and final without saying so.
JavaConstants(n, prefix) ==
    IF n.type # "constant_declaration" /\ ~({"static", "final"} \subseteq n.mods)
    THEN <<>>
    ELSE FlatMap(SelectSeq(n.kids, LAMBDA d : d.name # None /\ IsConstantName(d.name)),
                 LAMBDA d : <<MakeUnit("Constant", n, d.name, prefix, prefix, <<>>, <<>>)>>)

\* What follows an enum's constants is a member like any other.
JavaMembers(n) ==
    FlatMap(n.kids, LAMBDA k : IF k.type = "enum_body_declarations" THEN k.kids ELSE <<k>>)

\* A nested type has the module as parent: no class defines a class.
RECURSIVE JavaType(_, _, _)
JavaType(n, m, prefix) ==
    IF n.name = None THEN <<>>
    ELSE <<MakeUnit("Class", n, n.name, prefix, m, <<>>, JavaBases(n))>>
         \o FlatMap(JavaMembers(n), LAMBDA k :
              CASE k.type \in JavaMethods -> JavaMethod(k, Under(prefix, n.name))
                [] k.type \in {"field_declaration", "constant_declaration"} ->
                     JavaConstants(k, Under(prefix, n.name))
                [] k.type \in JavaTypes -> JavaType(k, m, Under(prefix, n.name))
                [] OTHER -> <<>>)

JavaChildren(root, m) ==
    FlatMap(OfTypes(root, JavaTypes), LAMBDA n : JavaType(n, m, m))

JavaImports(root) ==
    FlatMap(OfTypes(root, {"import_declaration"}),
            LAMBDA n : Chain(n.ref, {"identifier"}, {"scoped_identifier"}))

---------------------------------------------------------------------------
(* C#.                                                                     *)

CsTypes == {"class_declaration", "struct_declaration", "interface_declaration",
            "record_declaration", "enum_declaration"}

CsDotted(ref) ==
    Chain(ref, {"identifier", "predefined_type", "this", "base"},
               {"generic_name", "qualified_name", "member_access_expression",
                "alias_qualified_name", "primary_constructor_base_type"})

CsTarget(c) == CsDotted(c.ref)

CsCalls(n) ==
    CallsOf(n.body, {"invocation_expression", "object_creation_expression"}, CsTarget)

CsCallable(n, prefix) ==
    <<MakeUnit("Method", n, IF n.name = None THEN "<anonymous>" ELSE n.name,
               prefix, prefix, CsCalls(n), <<>>)>>

\* A property is a method if it or one of its accessors has a body.
CsProperty(n, prefix) ==
    IF \/ n.name = None
       \/ /\ n.value # "arrow_expression_clause"
          /\ \A i \in DOMAIN n.kids : n.kids[i].value = None
    THEN <<>>
    ELSE <<MakeUnit("Method", n, n.name, prefix, prefix, CsCalls(n), <<>>)>>

\* const always, static readonly only in upper case.
CsFields(n, prefix) ==
    FlatMap(SelectSeq(OfTypes(n.kids, {"variable_declarator"}), LAMBDA d :
              /\ d.name # None
              /\ \/ "const" \in n.mods
                 \/ {"static", "readonly"} \subseteq n.mods /\ IsConstantName(d.name)),
            LAMBDA d : <<MakeUnit("Constant", n, d.name, prefix, prefix, <<>>, <<>>)>>)

\* Nested types have the module as parent; an enum's body has no members.
RECURSIVE CsType(_, _, _)
CsType(n, m, prefix) ==
    IF n.name = None THEN <<>>
    ELSE <<MakeUnit("Class", n, n.name, prefix, m, <<>>, FlatMap(n.bases, CsDotted))>>
         \o (IF n.type = "enum_declaration" THEN <<>> ELSE FlatMap(n.kids, LAMBDA k :
              CASE k.type \in {"method_declaration", "constructor_declaration"} ->
                     CsCallable(k, Under(prefix, n.name))
                [] k.type = "property_declaration" -> CsProperty(k, Under(prefix, n.name))
                [] k.type = "field_declaration" -> CsFields(k, Under(prefix, n.name))
                [] k.type \in CsTypes -> CsType(k, m, Under(prefix, n.name))
                [] OTHER -> <<>>))

\* Namespaces are transparent: two of them may hold types of one name.
RECURSIVE CsDeclarations(_, _)
CsDeclarations(nodes, m) ==
    FlatMap(nodes, LAMBDA n :
        CASE n.type = "namespace_declaration" -> CsDeclarations(n.kids, m)
          [] n.type \in CsTypes -> CsType(n, m, m)
          [] OTHER -> <<>>)

\* With an alias the target is the last of the names.
CsUsing(n) == IF n.kids = <<>> THEN <<>> ELSE CsDotted(Last(n.kids).ref)

RECURSIVE CsImports(_)
CsImports(nodes) ==
    FlatMap(nodes, LAMBDA n :
        CASE n.type = "using_directive" -> CsUsing(n)
          [] n.type = "namespace_declaration" -> CsImports(n.kids)
          [] OTHER -> <<>>)

---------------------------------------------------------------------------
(* JavaScript and TypeScript.                                              *)

JsFunctionValues == {"arrow_function", "function_expression", "generator_function"}
JsContainers     == {"lexical_declaration", "variable_declaration"}

JsChain(ref) == Chain(ref, {"identifier", "this"}, {"member_expression"})

JsTarget(c) == JsChain(c.ref)

\* The unit of a function; a function bound to a name has that name and
\* the lines of the statement.
JsFunction(fn, span, prefix, kind) ==
    <<MakeUnit(kind, span, IF fn.name = None THEN "<anonymous>" ELSE fn.name, prefix,
               prefix, CallsOf(fn.body, {"call_expression", "new_expression"}, JsTarget),
               <<>>)>>

\* Destructuring patterns have no name and no unit.
JsDeclarators(n, m) ==
    FlatMap(SelectSeq(OfTypes(n.kids, {"variable_declarator"}), LAMBDA d : d.name # None),
            LAMBDA d :
              CASE d.value \in JsFunctionValues -> JsFunction(d, n, m, "Function")
                [] d.value \notin JsFunctionValues /\ IsConstantName(d.name) ->
                     <<MakeUnit("Constant", n, d.name, m, m, <<>>, <<>>)>>
                [] OTHER -> <<>>)

JsMember(k, prefix) ==
    CASE k.type = "method_definition" -> JsFunction(k, k, prefix, "Method")
      [] /\ k.type \in {"field_definition", "public_field_definition"}
         /\ k.name # None /\ k.value \in JsFunctionValues ->
           JsFunction(k, k, prefix, "Method")
      [] /\ k.type \in {"field_definition", "public_field_definition"}
         /\ k.name # None /\ k.value \notin JsFunctionValues /\ IsConstantName(k.name) ->
           <<MakeUnit("Constant", k, k.name, prefix, prefix, <<>>, <<>>)>>
      [] OTHER -> <<>>

\* implements clauses are types only and do not count.
JsClass(n, m) ==
    IF n.name = None THEN <<>>
    ELSE <<MakeUnit("Class", n, n.name, m, m, <<>>, FlatMap(n.bases, JsChain))>>
         \o FlatMap(n.kids, LAMBDA k : JsMember(k, Under(m, n.name)))

JsChildren(root, m) ==
    FlatMap(FlatMap(root, LAMBDA n : IF n.type = "export_statement" THEN n.kids ELSE <<n>>),
            LAMBDA d :
              CASE d.type \in {"function_declaration", "generator_function_declaration"} ->
                     JsFunction(d, d, m, "Function")
                [] d.type \in {"class_declaration", "abstract_class_declaration"} ->
                     JsClass(d, m)
                [] d.type \in JsContainers -> JsDeclarators(d, m)
                [] OTHER -> <<>>)

\* A specifier as a dotted name: relative ones against the importing file,
\* verbatim if they escape the repository, <<>> if they name its root.
JsSource(target, path) ==
    LET at == Normalize(path.dir, target) IN
    CASE ~target.rel -> <<Dotted(target.names)>>
      [] target.rel /\ at = <<>> -> <<Dotted(<<"..">> \o target.names)>>
      [] target.rel /\ at = <<<<>>>> -> <<>>
      [] OTHER -> <<PathQname([dir |-> Front(at[1]), stem |-> Last(at[1]),
                               suffix |-> target.suffix])>>

\* Import and re-export statements, one import per name listed.
JsFrom(n, path) ==
    IF n.ref = None THEN <<>>
    ELSE LET names == OfTypes(n.kids, {"import_specifier", "export_specifier"}) IN
         FlatMap(JsSource(n.ref, path), LAMBDA module :
             IF names = <<>> THEN <<module>>
             ELSE [i \in DOMAIN names |-> Under(module, names[i].name)])

\* const x = require("module").
JsRequires(n, path) ==
    FlatMap(SelectSeq(OfTypes(n.kids, {"variable_declarator"}), LAMBDA d :
              d.value = "call_expression" /\ "require" \in d.mods
              /\ Len(OfTypes(d.kids, {"string"})) = 1),
            LAMBDA d : JsSource(OfTypes(d.kids, {"string"})[1].ref, path))

JsImports(root, path) ==
    FlatMap(root, LAMBDA n :
        CASE n.type \in {"import_statement", "export_statement"} -> JsFrom(n, path)
          [] n.type \in JsContainers -> JsRequires(n, path)
          [] OTHER -> <<>>)

---------------------------------------------------------------------------
(* Python.                                                                 *)

PyChain(ref) == Chain(ref, {"Name"}, {"Attribute"})

PyTarget(c) == PyChain(c.ref)

\* A base that is no chain of names is kept as it is spelled.
PyBase(ref) == IF PyChain(ref) # <<>> THEN PyChain(ref) ELSE <<Dotted(ref.path)>>

\* One upper-case name with a value.
PyIsConstant(n) ==
    /\ \/ n.type = "Assign" /\ Len(n.kids) = 1
       \/ n.type = "AnnAssign" /\ n.value # None
    /\ n.name # None /\ IsConstantName(n.name)

PyConstant(n, prefix) == <<MakeUnit("Constant", n, n.name, prefix, prefix, <<>>, <<>>)>>

PyFunction(n, prefix, kind) ==
    <<MakeUnit(kind, n, n.name, prefix, prefix, CallsOf(n.body, {"Call"}, PyTarget), <<>>)>>

\* Classes inside a class have no unit.
PyClass(n, m) ==
    <<MakeUnit("Class", n, n.name, m, m, <<>>, FlatMap(n.bases, PyBase))>>
    \o FlatMap(n.kids, LAMBDA k :
         CASE k.type \in {"FunctionDef", "AsyncFunctionDef"} ->
                PyFunction(k, Under(m, n.name), "Method")
           [] PyIsConstant(k) -> PyConstant(k, Under(m, n.name))
           [] OTHER -> <<>>)

PyChildren(root, m) ==
    FlatMap(root, LAMBDA n :
        CASE n.type = "ClassDef" -> PyClass(n, m)
          [] n.type \in {"FunctionDef", "AsyncFunctionDef"} -> PyFunction(n, m, "Function")
          [] PyIsConstant(n) -> PyConstant(n, m)
          [] OTHER -> <<>>)

\* Relative imports keep their dots: here the first of ref's names.
PyImports(root) ==
    FlatMap(root, LAMBDA n :
        CASE n.type = "Import" ->
               [i \in DOMAIN n.kids |-> Dotted(n.kids[i].ref.path)]
          [] n.type = "ImportFrom" ->
               [i \in DOMAIN n.kids |->
                  IF n.kids[i].name = "*" THEN Dotted(n.ref.path)
                  ELSE Under(Dotted(n.ref.path), n.kids[i].name)]
          [] OTHER -> <<>>)

---------------------------------------------------------------------------
(* A file.                                                                 *)

Children(file, m) ==
    CASE file.lang = "go" -> GoChildren(file.root, m)
      [] file.lang = "rust" -> RustChildren(file.root, m)
      [] file.lang = "java" -> JavaChildren(file.root, m)
      [] file.lang = "csharp" -> CsDeclarations(file.root, m)
      [] file.lang = "javascript" -> JsChildren(file.root, m)
      [] file.lang = "python" -> PyChildren(file.root, m)

Imports(file) ==
    CASE file.lang = "go" -> GoImports(file.root)
      [] file.lang = "rust" -> RustImports(file.root)
      [] file.lang = "java" -> JavaImports(file.root)
      [] file.lang = "csharp" -> CsImports(file.root)
      [] file.lang = "javascript" -> JsImports(file.root, file.path)
      [] file.lang = "python" -> PyImports(file.root)

ModuleUnit(m, last, imports) ==
    [kind |-> "Module", name |-> m[Len(m)][1], qname |-> m, parent |-> None,
     from |-> 1, to |-> last, imports |-> imports, calls |-> <<>>, bases |-> <<>>]

\* By first line, then by name.
Before(u, v) == u.from < v.from \/ (u.from = v.from /\ Rank[u.name] < Rank[v.name])

\* The module first.  The grammars tolerate errors: what they could not
\* make sense of yields no nodes.
TreeSitterParseFile(file, m) ==
    <<ModuleUnit(m, file.last, Imports(file))>> \o SortSeq(Children(file, m), Before)

\* ast.parse raises on a syntax error, and the file has no units.
PythonParseFile(file, m) ==
    IF file.broken THEN <<>>
    ELSE <<ModuleUnit(m, file.last, PyImports(file.root))>>
         \o SortSeq(PyChildren(file.root, m), Before)

ParseFile(file) ==
    LET m == PathQname(file.path) IN
    IF file.lang = "python" THEN PythonParseFile(file, m) ELSE TreeSitterParseFile(file, m)
=============================================================================
