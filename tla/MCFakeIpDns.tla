----------------------------- MODULE MCFakeIpDns -----------------------------
(* Three names, two lookups at a time, and a week of four moments: long    *)
(* enough for every row to expire and be written over.                     *)
EXTENDS FakeIpDns, TLC

(* Names and lookups differ from one another only by name. *)
Symmetry == Permutations(Names) \cup Permutations(Lookups)
=============================================================================
