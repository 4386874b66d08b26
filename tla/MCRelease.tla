----------------------------- MODULE MCRelease -----------------------------
(* Small instances of ReleaseProperties for TLC. *)
EXTENDS ReleaseProperties

Two == 1..2

Function(k, ps, rs) == [key |-> k, params |-> ps, results |-> rs]
Field(v, m) == [storage |-> v, mutable |-> m]
Struct(ss, fs) == [kind |-> "struct", supertypes |-> ss, final |-> FALSE, fields |-> fs]
Array(f) == [kind |-> "array", supertypes |-> <<>>, final |-> TRUE, fields |-> <<f>>]

I32 == Plain("i32")
Unknown == Plain("unknown")

F64 == Plain("f64")

\* Up to two imports, declared out of order, and one export.
SmallImports ==
    {<<>>, <<Function(1, <<I32>>, <<>>)>>,
     <<Function(2, <<I32>>, <<>>), Function(1, <<F64>>, <<I32>>)>>,
     <<Function(2, <<Ref(1)>>, <<>>), Function(1, <<Ref(2)>>, <<>>)>>,
     <<Function(1, <<Ref(2), Ref(1)>>, <<>>)>>}
SmallExports == {<<>>} \cup {<<Function(1, <<>>, <<r>>)>> : r \in {I32, Ref(2)}}
SmallDefinitions ==
    {NoDefinition, Struct(<<>>, <<Field(Ref(2), TRUE)>>),
     Struct(<<1>>, <<Field(I32, TRUE)>>), Array(Field(Unknown, TRUE))}
SmallFeatures == {{}, {"new"}}

\* The policy of the commands, and one that allows typed references.
SmallPolicies == {{}, {"ref", "ref null"}}

\* One name is imported with two signatures.
RepeatedImports == {<<Function(1, <<I32>>, <<>>), Function(1, <<>>, <<I32>>)>>}
=============================================================================
