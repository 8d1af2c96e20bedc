-------------------------- MODULE MCTunnelManager --------------------------
(* Small instances of TunnelManager: an HTTP/2 loop, a QUIC loop, and the  *)
(* two of them for one OUT.                                                *)
EXTENDS TunnelManager, TLC

CONSTANTS h, q, out, other

Const(S, v) == [x \in S |-> v]
KindOf == [l \in Loops |-> IF l = h THEN "http2" ELSE "quic"]
OneOut == Const(Loops, out)
OwnOut == [l \in Loops |-> IF l = h THEN out ELSE other]
SamePriority == Const(Loops, 0)
PreferHttp2 == [l \in Loops |-> IF l = h THEN 0 ELSE 1]
NoLabels == Const(Loops, {})
OneConnection == Const(Loops, 1)
TwoHttp2Connections == [l \in Loops |-> IF l = h THEN 2 ELSE 1]

(* Tunnels, and connections, differ from one another only by name.  Used   *)
(* by the runs without temporal properties.                                *)
Symmetry == Permutations(Tunnels) \cup Permutations(Conns)
=============================================================================
