------------------------------ MODULE MCLogin ------------------------------
(* Login on small instances; requests are interchangeable. *)
EXTENDS Login, TLC
Symmetric == Permutations(Req)
=============================================================================
