------------------------------ MODULE MCGates ------------------------------
(* A small instance of GateProperties for TLC. *)
EXTENDS GateProperties

(* Functions.  Import keys in text order; 1 and 2 have the same path text. *)

Paths4 == <<"a.b.c", "a.b.c", "env.f", "moonbit:ffi.make_closure">>

Function(k, ps, rs) == [key |-> k, params |-> ps, results |-> rs]
I32 == Plain("i32")
Opaque == Plain("externref")
Func == Plain("funcref")

Importing(fs) == [imports |-> fs, exports |-> <<>>]

Closure == Function(4, <<Func, Opaque>>, <<Func>>)

FunctionSets ==
    {[imports |-> <<Function(3, <<I32, Opaque>>, <<>>)>>,
      exports |-> <<Function(1, <<>>, <<Opaque>>)>>],
     Importing(<<Function(1, <<Opaque>>, <<>>), Function(2, <<Opaque>>, <<>>)>>),
     Importing(<<Function(3, <<Opaque>>, <<>>), Function(3, <<I32>>, <<>>)>>),
     Importing(<<Closure, Function(3, <<I32>>, <<>>)>>),
     Importing(<<Function(4, <<Func>>, <<Func>>)>>),
     Importing(<<Function(3, <<Plain("v128")>>, <<>>)>>)}

(* Resources. *)

Type(v, flags) == [value |-> v, limits |-> <<0>>, flags |-> flags]
Number(flags) == Type("i32", flags)
Memory(flags) == [Type("", flags) EXCEPT !.limits = <<1, 2>>]

NoItems == [kind \in Kinds |-> <<>>]
Nothing == [imports |-> <<>>, defined |-> NoItems, exports |-> <<>>, signatures |-> <<>>]
Signature(ps, rs) == [params |-> ps, results |-> rs]
Import(kind, name, type) == [kind |-> kind, path |-> <<"env", name>>, type |-> type]
Export(kind, name, index) == [kind |-> kind, path |-> <<name>>, index |-> index]

Exporting(kind, types, index) ==
    [Nothing EXCEPT !.defined[kind] = types, !.exports = <<Export(kind, "x", index)>>]

Imported == [Nothing EXCEPT !.imports = <<Import("global", "g", Number({}))>>]

Modules ==
    {Exporting("global", <<Number({})>>, 1),
     Exporting("global", <<Number({"mutable"}), Number({})>>, 2),
     Exporting("memory", <<Memory({})>>, 1),
     Exporting("memory", <<Memory({"shared"})>>, 1),
     Exporting("table", <<Type("concrete", {})>>, 1),
     [Exporting("tag", <<1>>, 1) EXCEPT !.signatures = <<Signature(<<"i32">>, <<>>)>>],
     [Exporting("tag", <<2>>, 1) EXCEPT
        !.signatures = <<Signature(<<"f64">>, <<>>), Signature(<<"i32">>, <<>>)>>],
     [Exporting("tag", <<1>>, 1) EXCEPT !.signatures = <<Signature(<<"f64">>, <<>>)>>],
     [Exporting("tag", <<1>>, 1) EXCEPT !.signatures = <<Signature(<<>>, <<"i32">>)>>],
     [Imported EXCEPT !.defined["global"] = <<Number({"mutable"})>>,
                      !.exports = <<Export("global", "x", 1)>>],
     [Imported EXCEPT !.defined["global"] = <<Number({"mutable"})>>,
                      !.exports = <<Export("global", "x", 2)>>],
     [Imported EXCEPT !.defined["global"] = <<Number({"mutable"}), Number({"mutable"})>>,
                      !.exports = <<Export("global", "x", 2)>>],
     [Imported EXCEPT !.imports = @ \o @],
     [Nothing EXCEPT !.imports = <<Import("global", "", Number({}))>>]}

Program(functions, module) == functions @@ [module |-> module]

OneFunction == CHOOSE fs \in FunctionSets : fs.exports # <<>>

SmallPrograms ==
    {Program(fs, Nothing) : fs \in FunctionSets} \cup
        {Program(OneFunction, m) : m \in Modules}

Drafts == <<"TExtern0", "TExtern1">>
Spelled == {"i32", "f64"}

\* Files that commands read or write together.
Pairs ==
    {{"lock", "contract"}, {"contract", "output"}, {"contract", "rcontract"},
     {"rcontract", "output"}, {"rlock", "rcontract"}}
=============================================================================
