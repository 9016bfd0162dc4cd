----------------------- MODULE MCDirectoryPublication -----------------------
(* Values for TLC: publishers are interchangeable. *)
EXTENDS DirectoryPublication, TLC

Symmetry == Permutations(Publisher)
=============================================================================
