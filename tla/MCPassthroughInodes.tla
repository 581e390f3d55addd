------------------------- MODULE MCPassthroughInodes -------------------------
(* Instances of PassthroughInodes for TLC. *)
EXTENDS PassthroughInodes, TLC

Symmetry == Permutations(Workers) \cup Permutations(Names)

\* Everything the server answers.
All == {"lookup", "make", "link", "tmp", "create", "dirs", "atomic", "excl",
        "unlink", "rename", "exchange", "open"}

=============================================================================
