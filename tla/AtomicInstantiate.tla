------------------------- MODULE AtomicInstantiate -------------------------
(***************************************************************************)
(* What `instantiateWithResources` promises a host: each call takes the    *)
(* bytes at one moment and all imports at one later moment, admits them    *)
(* only when they are the adapter's artifact and fit, and runs exactly     *)
(* what it admitted.                                                       *)
(***************************************************************************)
EXTENDS Naturals

CONSTANTS Calls, Keys, Artifacts, Bound, Fitting(_, _, _), None

VARIABLES
    bytes,     \* what the host's buffer holds
    imports,   \* the host's imports: key |-> value
    memory,    \* what determines whether a value fits
    taken,     \* the bytes each call has taken, or None
    admitted,  \* the imports each call has admitted, or None
    running    \* the calls whose artifact has been started

vars == <<bytes, imports, memory, taken, admitted, running>>

Init ==
    /\ taken = [c \in Calls |-> None]
    /\ admitted = [c \in Calls |-> None]
    /\ running = {}

Take(c) ==
    /\ taken[c] = None
    /\ taken' = [taken EXCEPT ![c] = bytes]
    /\ UNCHANGED <<bytes, imports, memory, admitted, running>>

Admit(c) ==
    /\ taken[c] = Bound /\ admitted[c] = None
    /\ \A k \in Keys : Fitting(k, imports[k], memory)
    /\ admitted' = [admitted EXCEPT ![c] = imports]
    /\ UNCHANGED <<bytes, imports, memory, taken, running>>

\* What was admitted still fits; the artifact may change the memory.
Run(c) ==
    /\ admitted[c] # None /\ c \notin running
    /\ \A k \in Keys : Fitting(k, admitted[c][k], memory)
    /\ running' = running \cup {c}
    /\ UNCHANGED <<bytes, imports, taken, admitted>>

\* Everything else in the host.
Other == UNCHANGED <<taken, admitted, running>>

Next == Other \/ \E c \in Calls : Take(c) \/ Admit(c) \/ Run(c)

Spec == Init /\ [][Next]_vars
=============================================================================
