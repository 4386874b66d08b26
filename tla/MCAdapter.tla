------------------------------ MODULE MCAdapter ------------------------------
(* Small instances of AdapterProperties for TLC: one import module with a   *)
(* function and a memory, and an artifact that is not the adapter's.        *)
EXTENDS AdapterProperties, TLC

CONSTANTS p1, r1, env, log, heap, mem1, mem2, o1, f1, g1, good, other, add

Call == <<env, log>>
Shared == <<env, heap>>
OneFunction == <<Call>>
OneMemory == <<Shared>>

\* The other artifact imports the memory only and does not export `add`.
MCNeeds == [a \in {good, other} |-> IF a = good THEN <<Call, Shared>> ELSE <<Shared>>]
MCProvides == [a \in {good, other} |-> IF a = good THEN {add} ELSE {}]

\* One memory fits and can grow; the other one's maximum is too large.
MCMaxOf == [v \in Memories |-> IF v = mem2 THEN 3 ELSE 2]
=============================================================================
