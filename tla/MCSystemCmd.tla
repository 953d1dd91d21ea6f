---------------------------- MODULE MCSystemCmd ----------------------------
(* Small instances of SystemCmd for TLC. *)
EXTENDS SystemCmd

CONSTANT Chunks   \* the chunks of stdin

\* One chunk for every other pipe to the child.
MCSize == [p \in InPipes |-> IF p = Stdin THEN Chunks ELSE 1]
=============================================================================
