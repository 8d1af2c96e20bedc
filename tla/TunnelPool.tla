----------------------------- MODULE TunnelPool -----------------------------
(* What the IN side promises about its tunnels, with no tasks, locks or    *)
(* caches: a tunnel joins the pool at most once and leaves it at most      *)
(* once; the OUTs that rules may route to are at every moment the OUTs     *)
(* with a tunnel in the pool; a connection starts only on a tunnel that is *)
(* in the pool and in use; a tunnel out of use stays out of use.           *)
CONSTANTS Tunnels, Conns, Outs, NoTunnel

VARIABLES
  out,       \* the OUT of each tunnel that is, or was, in the pool
  members,   \* tunnels in the pool
  gone,      \* tunnels that left it
  usable,    \* members that take new connections
  routed,    \* OUTs that rules may route to
  using      \* the tunnel a connection has selected

vars == <<out, members, gone, usable, routed, using>>

OutsOf(S) == {out[t] : t \in S}

Init ==
  /\ out = [t \in Tunnels |-> NoTunnel]
  /\ members = {}
  /\ gone = {}
  /\ usable = {}
  /\ routed = {}
  /\ using = [c \in Conns |-> NoTunnel]

(* The OUT of a tunnel is known before it joins. *)
Meet(t, o) ==
  /\ t \notin members \cup gone
  /\ out' = [out EXCEPT ![t] = o]
  /\ UNCHANGED <<members, gone, usable, routed, using>>

(* A tunnel that was lost on its way in joins without being usable. *)
Join(t) ==
  /\ t \notin members \cup gone
  /\ members' = members \cup {t}
  /\ usable' \in {usable, usable \cup {t}}
  /\ routed' = OutsOf(members')
  /\ UNCHANGED <<out, gone, using>>

Retire(t) ==
  /\ t \in usable
  /\ usable' = usable \ {t}
  /\ UNCHANGED <<out, members, gone, routed, using>>

Leave(t) ==
  /\ t \in members
  /\ members' = members \ {t}
  /\ gone' = gone \cup {t}
  /\ usable' = usable \ {t}
  /\ routed' = OutsOf(members')
  /\ UNCHANGED <<out, using>>

Start(c, t) ==
  /\ using[c] = NoTunnel
  /\ t \in usable
  /\ using' = [using EXCEPT ![c] = t]
  /\ UNCHANGED <<out, members, gone, usable, routed>>

Stop(c) ==
  /\ using[c] # NoTunnel
  /\ using' = [using EXCEPT ![c] = NoTunnel]
  /\ UNCHANGED <<out, members, gone, usable, routed>>

Next ==
  \/ \E t \in Tunnels, o \in Outs : Meet(t, o)
  \/ \E t \in Tunnels : Join(t) \/ Retire(t) \/ Leave(t)
  \/ \E c \in Conns : Stop(c) \/ \E t \in Tunnels : Start(c, t)

Spec == Init /\ [][Next]_vars
=============================================================================
