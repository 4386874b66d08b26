---------------------------- MODULE OutputStore ----------------------------
(***************************************************************************)
(* What the output path of `moonhostabi generate` promises its users: it   *)
(* holds a whole generation or nothing.  Writers publish into the empty    *)
(* path only.  An update first sets aside what is there, and then either   *)
(* publishes, and gives up what it set aside, or puts it back.             *)
(* Empty stands for no generation and is not one of Generations.           *)
(***************************************************************************)
CONSTANTS
    Updates,      \* the writers that replace an existing output
    Generations,  \* whole generations
    Empty

VARIABLES
    current,    \* the generation at the output path, or Empty
    claimed,    \* the generation each update has set aside, or Empty
    published   \* whether each update has published

vars == <<current, claimed, published>>

Init ==
    /\ current \in Generations \cup {Empty}
    /\ claimed = [u \in Updates |-> Empty]
    /\ published = [u \in Updates |-> FALSE]

Claim(u) ==
    /\ ~published[u] /\ claimed[u] = Empty /\ current # Empty
    /\ claimed' = [claimed EXCEPT ![u] = current]
    /\ current' = Empty
    /\ UNCHANGED published

PublishFresh ==
    /\ current = Empty /\ current' \in Generations
    /\ UNCHANGED <<claimed, published>>

PublishUpdate(u) ==
    /\ ~published[u] /\ claimed[u] # Empty
    /\ current = Empty /\ current' \in Generations
    /\ published' = [published EXCEPT ![u] = TRUE]
    /\ UNCHANGED claimed

Restore(u) ==
    /\ ~published[u] /\ claimed[u] # Empty /\ current = Empty
    /\ current' = claimed[u]
    /\ claimed' = [claimed EXCEPT ![u] = Empty]
    /\ UNCHANGED published

GiveUp(u) ==
    /\ published[u] /\ claimed[u] # Empty
    /\ claimed' = [claimed EXCEPT ![u] = Empty]
    /\ UNCHANGED <<current, published>>

Next ==
    \/ PublishFresh
    \/ \E u \in Updates :
          Claim(u) \/ PublishUpdate(u) \/ Restore(u) \/ GiveUp(u)

Spec == Init /\ [][Next]_vars
=============================================================================
