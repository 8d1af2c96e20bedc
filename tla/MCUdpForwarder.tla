--------------------------- MODULE MCUdpForwarder ---------------------------
(* Two clients that use the same fake address, which stands for one of two *)
(* real ones.                                                              *)
EXTENDS UdpForwarder, TLC

(* Clients, associations, sockets and real addresses differ from one       *)
(* another only by name.                                                   *)
Symmetry ==
  Permutations(Sources) \cup Permutations(Associations)
    \cup Permutations(Sockets) \cup Permutations(Reals \ Originals)
=============================================================================
