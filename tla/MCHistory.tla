------------------------------ MODULE MCHistory ------------------------------
(* Server processes are interchangeable: only their names tell them apart. *)
EXTENDS History

Interchangeable == Permutations(Server)
=============================================================================
