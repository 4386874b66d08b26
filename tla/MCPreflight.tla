----------------------------- MODULE MCPreflight -----------------------------
(* Small instances of PreflightProperties for TLC. *)
EXTENDS PreflightProperties

MCLimits == [bytes |-> 21, types |-> 2, items |-> 6, locals |-> 2,
             functionLocals |-> 1, instructions |-> 3, depth |-> 1]
=============================================================================
