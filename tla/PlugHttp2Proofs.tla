--------------------------- MODULE PlugHttp2Proofs ---------------------------
(***************************************************************************)
(* Proofs about PlugHttp2: a tunnel of the IN gets the stream that its own *)
(* OUT opened for it, however many OUTs share the slot.  It is not enough  *)
(* that ids are compared: the id must have been handed to one handler      *)
(* only, and the stream that carries it must be in one place at a time.    *)
(***************************************************************************)
EXTENDS PlugHttp2, TLAPS

-----------------------------------------------------------------------------
(* The inductive invariant. *)

(* Tunnel id t was made up in a match with o. *)
MatchedWith(t, o) == t \in 1 .. Len(matches) /\ matches[t] = o

(* Whoever holds a tunnel id got it from the match. *)
IdsOK ==
  \A o \in Outs :
    /\ handler_tunnel[o] # None => MatchedWith(handler_tunnel[o], o)
    /\ answers[o] # None => MatchedWith(answers[o], o)
    /\ out_tunnel[o] # None => MatchedWith(out_tunnel[o], o)

InTunnelsOK ==
  \A x \in in_tunnels : x.stream = x.tunnel_id /\ MatchedWith(x.stream, x.id)

InBacklog(t) == \E i \in 1 .. Len(backlog) : backlog[i] = t
InTunnels(t) == \E x \in in_tunnels : x.stream = t

(* A stream is opened once, and is in one place from then on: the backlog, *)
(* with the listener, the slot, or a tunnel.                               *)
OnePlace ==
  /\ \A i, j \in 1 .. Len(backlog) : backlog[i] = backlog[j] => i = j
  /\ \A t \in TunnelIds :
       /\ InBacklog(t) => /\ t <= Len(matches) /\ ~ InTunnels(t)
                          /\ t # listener_stream /\ t # pending_stream
       /\ t = listener_stream =>
            t <= Len(matches) /\ ~ InTunnels(t) /\ t # pending_stream
       /\ t = pending_stream => t <= Len(matches) /\ ~ InTunnels(t)
  /\ \A o \in Outs : out_pc[o] = "connect" =>
       /\ ~ InBacklog(out_tunnel[o]) /\ ~ InTunnels(out_tunnel[o])
       /\ out_tunnel[o] # listener_stream /\ out_tunnel[o] # pending_stream

IInv == TypeOK /\ IdsOK /\ InTunnelsOK /\ OnePlace

-----------------------------------------------------------------------------
USE PlugAssumption DEF TunnelIds

LEMMA InitIInv == Init => IInv
<1> SUFFICES ASSUME Init PROVE IInv
  OBVIOUS
<1>1. Len(backlog) = 0 /\ Len(matches) = 0
  BY DEF Init
<1>2. TypeOK
  BY <1>1 DEF Init, TypeOK
<1>3. IdsOK /\ InTunnelsOK
  BY DEF Init, IdsOK, InTunnelsOK
<1>4. OnePlace
  BY <1>1 DEF Init, OnePlace, InBacklog
<1> QED
  BY <1>2, <1>3, <1>4 DEF IInv

(* Steps that move no stream and make no match. *)
LEMMA PlacesFrame ==
  ASSUME OnePlace, InTunnelsOK,
         UNCHANGED <<backlog, listener_stream, pending_stream, in_tunnels, matches>>,
         \A o \in Outs : out_pc'[o] = "connect" =>
           out_pc[o] = "connect" /\ out_tunnel'[o] = out_tunnel[o]
  PROVE  OnePlace' /\ InTunnelsOK'
BY DEF OnePlace, InBacklog, InTunnels, InTunnelsOK, MatchedWith

(* Steps that make no match and at most forget a tunnel id. *)
LEMMA IdsFrame ==
  ASSUME IdsOK, UNCHANGED matches,
         \A o \in Outs : /\ handler_tunnel'[o] \in {handler_tunnel[o], answers[o], None}
                         /\ answers'[o] \in {answers[o], None}
                         /\ out_tunnel'[o] \in {out_tunnel[o], None}
  PROVE  IdsOK'
BY DEF IdsOK, MatchedWith

(* The OUT's steps; two of them matter, the match and the connection. *)
LEMMA MatchedIInv ==
  ASSUME IInv, NEW o \in Outs, OutMatched(o)
  PROVE  IInv'
<1> DEFINE t == Len(matches) + 1
<1>1. /\ t \in TunnelIds /\ Len(matches) \in Nat
      /\ Len(matches') = t /\ matches'[t] = o
      /\ \A u \in 1 .. Len(matches) : matches'[u] = matches[u]
  BY DEF IInv, TypeOK, OutMatched
<1>2. TypeOK'
  BY <1>1 DEF IInv, TypeOK, OutMatched, OutGoes, NoFault, listenerVars
<1>3. \A u \in TunnelIds, p \in Outs : MatchedWith(u, p) => MatchedWith(u, p)'
  <2> SUFFICES ASSUME NEW u \in TunnelIds, NEW p \in Outs, MatchedWith(u, p)
               PROVE  u \in 1 .. Len(matches') /\ matches'[u] = p
    BY DEF MatchedWith
  <2>1. u \in 1 .. Len(matches) /\ matches[u] = p
    BY DEF MatchedWith
  <2>2. matches'[u] = matches[u]
    BY <2>1, <1>1
  <2>3. u \in 1 .. Len(matches')
    BY <2>1, <1>1
  <2> QED  BY <2>1, <2>2, <2>3
<1>4. Len(matches') = t /\ matches'[t] = o /\ t \in 1 .. t
  BY <1>1
<1>5. IdsOK'
  <2> SUFFICES ASSUME NEW p \in Outs
               PROVE  /\ (handler_tunnel[p] # None => MatchedWith(handler_tunnel[p], p))'
                      /\ (answers[p] # None => MatchedWith(answers[p], p))'
                      /\ (out_tunnel[p] # None => MatchedWith(out_tunnel[p], p))'
    BY DEF IdsOK
  <2>1. CASE p = o
    <3>1. handler_tunnel' = handler_tunnel /\ answers'[o] = t /\ out_tunnel'[o] = t
      BY DEF IInv, TypeOK, OutMatched
    <3>2. (handler_tunnel[o] # None => MatchedWith(handler_tunnel[o], o))'
      BY <3>1, <1>3 DEF IInv, IdsOK, TypeOK
    <3>3. MatchedWith(answers[o], o)' /\ MatchedWith(out_tunnel[o], o)'
      <4> HIDE DEF t
      <4> QED  BY <3>1, <1>4 DEF MatchedWith
    <3> QED  BY <2>1, <3>2, <3>3
  <2>2. CASE p # o
    BY <2>2, <1>3 DEF IInv, IdsOK, OutMatched, TypeOK
  <2> QED  BY <2>1, <2>2
<1>6. InTunnelsOK'
  BY <1>3 DEF IInv, TypeOK, InTunnel, InTunnelsOK, OutMatched
<1>7. ~ InBacklog(t) /\ ~ InTunnels(t) /\ t # listener_stream /\ t # pending_stream
  BY <1>1 DEF IInv, OnePlace, InTunnelsOK, InTunnels, MatchedWith, TypeOK
<1>8. OnePlace'
  <2>1. /\ UNCHANGED <<backlog, listener_stream, pending_stream, in_tunnels>>
        /\ Len(matches) \in Nat
    BY DEF OutMatched, listenerVars, IInv, TypeOK
  <2>2. \A p \in Outs : out_pc'[p] = "connect" =>
          \/ out_tunnel'[p] = t
          \/ out_pc[p] = "connect" /\ out_tunnel'[p] = out_tunnel[p]
    BY DEF OutMatched, OutGoes, IInv, TypeOK
  <2> QED  BY <1>1, <1>7, <2>1, <2>2 DEF IInv, OnePlace, InBacklog, InTunnels
<1> QED  BY <1>2, <1>5, <1>6, <1>8 DEF IInv

LEMMA ConnectsIInv ==
  ASSUME IInv, NEW o \in Outs, OutConnects(o)
  PROVE  IInv'
<1> DEFINE t == out_tunnel[o]
<1>1. t \in TunnelIds /\ MatchedWith(t, o)
  BY DEF IInv, TypeOK, IdsOK, OutConnects, OutGoes
<1>2. TypeOK'
  BY <1>1 DEF IInv, TypeOK, OutConnects, OutGoes, NoFault, handlerVars
<1>3. IdsOK'
  BY IdsFrame DEF IInv, OutConnects, handlerVars
<1>4. InTunnelsOK'
  BY DEF IInv, InTunnelsOK, MatchedWith, OutConnects
<1>5. /\ Len(backlog') = Len(backlog) + 1 /\ Len(backlog) \in Nat
      /\ \A i \in 1 .. Len(backlog) : backlog'[i] = backlog[i]
      /\ backlog'[Len(backlog) + 1] = t
  BY <1>1 DEF IInv, TypeOK, OutConnects
<1>6. \A u : InBacklog(u)' => InBacklog(u) \/ u = t
  BY <1>5 DEF InBacklog
<1>7. ~ InBacklog(t) /\ ~ InTunnels(t) /\ t # listener_stream /\ t # pending_stream
  BY DEF IInv, OnePlace, OutConnects, OutGoes
<1>8. \A p \in Outs : out_pc'[p] = "connect" =>
        out_pc[p] = "connect" /\ out_tunnel'[p] = out_tunnel[p] /\ out_tunnel[p] # t
  BY <1>1 DEF IInv, TypeOK, IdsOK, MatchedWith, OutConnects, OutGoes
<1>9. UNCHANGED <<listener_stream, pending_stream, in_tunnels, matches>>
  BY DEF OutConnects
<1>10. OnePlace'
  <2>1. \A i, j \in 1 .. Len(backlog') : backlog'[i] = backlog'[j] => i = j
    BY <1>5, <1>7 DEF IInv, OnePlace, InBacklog
  <2>2. t <= Len(matches)
    BY <1>1 DEF MatchedWith
  <2> QED  BY <2>1, <2>2, <1>6, <1>7, <1>8, <1>9 DEF IInv, OnePlace, InTunnels
<1> QED  BY <1>2, <1>3, <1>4, <1>10 DEF IInv

LEMMA OtherOutIInv ==
  ASSUME IInv, NEW o \in Outs,
         OutSendsId(o) \/ OutHandshake(o) \/ OutStreamClosed(o) \/ OutError(o)
  PROVE  IInv'
<1> DEFINE Quiet ==
      /\ \A p \in Outs : out_pc'[p] = "connect" =>
           out_pc[p] = "connect" /\ out_tunnel'[p] = out_tunnel[p]
      /\ \A p \in Outs : out_tunnel'[p] \in {out_tunnel[p], None}
      /\ UNCHANGED <<backlog, listener_stream, pending_stream, in_tunnels, matches>>
      /\ UNCHANGED <<handler_tunnel, answers>>
<1>1. Quiet
  <2>1. CASE OutSendsId(o)
    BY <2>1 DEF IInv, TypeOK, OutSendsId, OutGoes, listenerVars, handlerVars
  <2>2. CASE OutHandshake(o)
    BY <2>2 DEF IInv, TypeOK, OutHandshake, OutReturns, listenerVars, handlerVars
  <2>3. CASE OutStreamClosed(o)
    BY <2>3 DEF IInv, TypeOK, OutStreamClosed, OutReturns, listenerVars, handlerVars
  <2>4. CASE OutError(o)
    BY <2>4 DEF IInv, TypeOK, OutError, OutReturns, listenerVars, handlerVars
  <2> QED  BY <2>1, <2>2, <2>3, <2>4
<1>2. IdsOK' /\ InTunnelsOK' /\ OnePlace'
  BY <1>1, IdsFrame, PlacesFrame DEF IInv
<1>3. TypeOK'
  <2>1. CASE OutSendsId(o)
    BY <2>1 DEF IInv, TypeOK, OutSendsId, OutGoes, listenerVars, handlerVars, NoFault
  <2>2. CASE OutHandshake(o)
    BY <2>2 DEF IInv, TypeOK, OutHandshake, OutReturns, listenerVars, handlerVars, NoFault
  <2>3. CASE OutStreamClosed(o)
    BY <2>3 DEF IInv, TypeOK, OutStreamClosed, OutReturns, listenerVars, handlerVars,
                NoFault
  <2>4. CASE OutError(o)
    BY <2>4 DEF IInv, TypeOK, OutError, OutReturns, listenerVars, handlerVars, Fault
  <2> QED  BY <2>1, <2>2, <2>3, <2>4
<1> QED  BY <1>2, <1>3 DEF IInv
-----------------------------------------------------------------------------
(* The listener hands a stream on: from the backlog, to the slot. *)

LEMMA AcceptsIInv ==
  ASSUME IInv, ListenerAccepts
  PROVE  IInv'
<1> DEFINE h == backlog[1]
<1>1. /\ Len(backlog) \in Nat \ {0} /\ h \in TunnelIds
      /\ listener_stream' = h /\ listener_stream = None
      /\ Len(backlog') = Len(backlog) - 1
      /\ \A i \in 1 .. Len(backlog') : backlog'[i] = backlog[i + 1]
      /\ backlog' \in Seq(TunnelIds)
  BY DEF IInv, TypeOK, ListenerAccepts
<1>2. UNCHANGED <<handler_tunnel, answers, out_pc, out_tunnel, pending_stream,
                  in_tunnels, matches>>
  BY DEF ListenerAccepts, handlerVars, outVars
<1>3. TypeOK'
  BY <1>1 DEF IInv, TypeOK, ListenerAccepts, handlerVars, outVars, NoFault
<1>4. IdsOK' /\ InTunnelsOK'
  BY <1>2 DEF IInv, IdsOK, InTunnelsOK, MatchedWith
<1>5. InBacklog(h)
  BY <1>1 DEF InBacklog
<1>6. \A u : InBacklog(u)' => InBacklog(u) /\ u # h
  <2> SUFFICES ASSUME NEW i \in 1 .. Len(backlog')
               PROVE  /\ i + 1 \in 1 .. Len(backlog)
                      /\ backlog'[i] = backlog[i + 1] /\ backlog'[i] # h
    BY DEF InBacklog
  <2>1. i + 1 \in 1 .. Len(backlog) /\ 1 \in 1 .. Len(backlog) /\ i + 1 # 1
    BY <1>1
  <2>2. backlog[i + 1] # backlog[1]
    BY <2>1 DEF IInv, OnePlace
  <2> QED  BY <1>1, <2>1, <2>2
<1>7. \A i, j \in 1 .. Len(backlog') : backlog'[i] = backlog'[j] => i = j
  <2> SUFFICES ASSUME NEW i \in 1 .. Len(backlog'), NEW j \in 1 .. Len(backlog'),
                      backlog'[i] = backlog'[j]
               PROVE  i = j
    OBVIOUS
  <2>1. i + 1 \in 1 .. Len(backlog) /\ j + 1 \in 1 .. Len(backlog)
    BY <1>1
  <2>2. backlog[i + 1] = backlog[j + 1]
    BY <1>1
  <2>3. i + 1 = j + 1
    BY <2>1, <2>2 DEF IInv, OnePlace
  <2> QED  BY <2>3
<1>8. OnePlace'
  <2> HIDE DEF h
  <2>1. /\ h <= Len(matches) /\ ~ InTunnels(h) /\ h # pending_stream
    BY <1>1, <1>5 DEF IInv, OnePlace
  <2>2. \A o \in Outs : out_pc[o] = "connect" => out_tunnel[o] # h
    BY <1>5 DEF IInv, OnePlace
  <2> QED  BY <1>1, <1>2, <1>6, <1>7, <2>1, <2>2 DEF IInv, OnePlace, InTunnels
<1> QED  BY <1>3, <1>4, <1>8 DEF IInv

(* Steps after which the streams are where they were, save those dropped,  *)
(* and the one the listener may have put in the slot.                      *)
LEMMA PlacesShrink ==
  ASSUME IInv,
         UNCHANGED <<backlog, in_tunnels, matches, out_pc, out_tunnel>>,
         listener_stream' \in {listener_stream, None},
         \/ pending_stream' \in {pending_stream, None}
         \/ pending_stream' = listener_stream /\ listener_stream' = None
  PROVE  OnePlace' /\ InTunnelsOK'
<1>1. InTunnelsOK'
  BY DEF IInv, InTunnelsOK, MatchedWith
<1>2. /\ \A u : InBacklog(u)' <=> InBacklog(u)
      /\ \A u : InTunnels(u)' <=> InTunnels(u)
  BY DEF InBacklog, InTunnels
<1>3. \A i, j \in 1 .. Len(backlog') : backlog'[i] = backlog'[j] => i = j
  BY DEF IInv, OnePlace
<1>4. \A u \in TunnelIds :
        /\ u = listener_stream' => u = listener_stream
        /\ u = pending_stream' =>
             \/ u = pending_stream
             \/ u = listener_stream /\ listener_stream' = None
        /\ u # None
  OBVIOUS
<1>5. \A o \in Outs : out_pc'[o] = "connect" =>
        out_pc[o] = "connect" /\ out_tunnel'[o] = out_tunnel[o] /\ out_tunnel[o] \in TunnelIds
  BY DEF IInv, TypeOK
<1>6. \A u \in TunnelIds :
        /\ InBacklog(u)' => /\ u <= Len(matches') /\ ~ InTunnels(u)'
                            /\ u # listener_stream' /\ u # pending_stream'
        /\ u = listener_stream' =>
             u <= Len(matches') /\ ~ InTunnels(u)' /\ u # pending_stream'
        /\ u = pending_stream' => u <= Len(matches') /\ ~ InTunnels(u)'
  BY <1>2, <1>4 DEF IInv, OnePlace
<1>7. \A o \in Outs : out_pc'[o] = "connect" =>
        /\ ~ InBacklog(out_tunnel[o]) /\ ~ InTunnels(out_tunnel[o])
        /\ out_tunnel[o] # listener_stream' /\ out_tunnel[o] # pending_stream'
  BY <1>4, <1>5 DEF IInv, OnePlace
<1> QED  BY <1>1, <1>2, <1>3, <1>5, <1>6, <1>7 DEF OnePlace, InBacklog, InTunnels

LEMMA OtherListenerIInv ==
  ASSUME IInv,
         \/ ListenerAcceptError \/ ListenerWakes \/ ListenerTls
         \/ ListenerFails \/ ListenerStores
  PROVE  IInv'
<1>1. CASE ListenerAcceptError
  <2>1. TypeOK'
    BY <1>1 DEF IInv, TypeOK, ListenerAcceptError, Fault, handlerVars, outVars
  <2>2. IdsOK' /\ OnePlace' /\ InTunnelsOK'
    BY <1>1, IdsFrame, PlacesShrink DEF IInv, ListenerAcceptError, handlerVars, outVars
  <2> QED  BY <2>1, <2>2 DEF IInv
<1>2. CASE ListenerWakes
  <2>1. TypeOK'
    BY <1>2 DEF IInv, TypeOK, ListenerWakes, NoFault, handlerVars, outVars
  <2>2. IdsOK' /\ OnePlace' /\ InTunnelsOK'
    BY <1>2, IdsFrame, PlacesShrink DEF IInv, ListenerWakes, handlerVars, outVars
  <2> QED  BY <2>1, <2>2 DEF IInv
<1>3. CASE ListenerTls
  <2>1. TypeOK'
    BY <1>3 DEF IInv, TypeOK, ListenerTls, NoFault, handlerVars, outVars
  <2>2. IdsOK' /\ OnePlace' /\ InTunnelsOK'
    BY <1>3, IdsFrame, PlacesShrink DEF IInv, ListenerTls, handlerVars, outVars
  <2> QED  BY <2>1, <2>2 DEF IInv
<1>4. CASE ListenerFails
  <2>1. TypeOK'
    BY <1>4 DEF IInv, TypeOK, ListenerFails, Fault, NoFault, handlerVars, outVars
  <2>2. IdsOK' /\ OnePlace' /\ InTunnelsOK'
    BY <1>4, IdsFrame, PlacesShrink DEF IInv, ListenerFails, handlerVars, outVars
  <2> QED  BY <2>1, <2>2 DEF IInv
<1>5. CASE ListenerStores
  <2>1. TypeOK'
    BY <1>5 DEF IInv, TypeOK, ListenerStores, NoFault, handlerVars, outVars
  <2>2. IdsOK' /\ OnePlace' /\ InTunnelsOK'
    BY <1>5, IdsFrame, PlacesShrink DEF IInv, ListenerStores, handlerVars, outVars
  <2> QED  BY <2>1, <2>2 DEF IInv
<1> QED  BY <1>1, <1>2, <1>3, <1>4, <1>5

-----------------------------------------------------------------------------
(* The handler's steps; TakeOwn makes a tunnel of the stream in the slot. *)

LEMMA TakeOwnIInv ==
  ASSUME IInv, NEW o \in Outs, TakeOwn(o)
  PROVE  IInv'
<1> DEFINE t == pending_stream
           x == [id |-> o, tunnel_id |-> t, stream |-> t]
<1>1. /\ t \in TunnelIds /\ t = handler_tunnel[o] /\ MatchedWith(t, o)
      /\ in_tunnels' = in_tunnels \cup {x} /\ pending_stream' = None
      /\ UNCHANGED <<backlog, listener_stream, out_pc, out_tunnel, matches>>
  BY DEF IInv, TypeOK, IdsOK, TakeOwn, Own, outVars, listenerVars
<1>2. TypeOK'
  <2>1. x \in InTunnel
    BY <1>1 DEF InTunnel
  <2> QED
    BY <1>1, <2>1 DEF IInv, TypeOK, TakeOwn, HandlerGoes, NoFault, outVars, listenerVars
<1>3. IdsOK'
  <2>1. /\ \A p \in Outs : handler_tunnel'[p] \in {handler_tunnel[p], None}
        /\ UNCHANGED <<answers, out_tunnel, matches>>
    BY <1>1 DEF IInv, TypeOK, TakeOwn, HandlerGoes
  <2> QED  BY <2>1, IdsFrame DEF IInv
<1>4. InTunnelsOK'
  BY <1>1 DEF IInv, InTunnelsOK, MatchedWith
<1>5. \A u : InTunnels(u)' => InTunnels(u) \/ u = t
  BY <1>1 DEF InTunnels
<1>6. /\ ~ InBacklog(t) /\ t # listener_stream
      /\ \A p \in Outs : out_pc[p] = "connect" => out_tunnel[p] # t
  BY <1>1 DEF IInv, OnePlace
<1>7. OnePlace'
  <2> HIDE DEF t
  <2>1. \A u : InBacklog(u)' <=> InBacklog(u)
    BY <1>1 DEF InBacklog
  <2>2. \A u \in TunnelIds : u # None /\ u # pending_stream'
    BY <1>1
  <2>3. \A i, j \in 1 .. Len(backlog') : backlog'[i] = backlog'[j] => i = j
    BY <1>1 DEF IInv, OnePlace
  <2>4. \A u \in TunnelIds :
          /\ InBacklog(u)' => u <= Len(matches') /\ ~ InTunnels(u)' /\ u # listener_stream'
          /\ u = listener_stream' => u <= Len(matches') /\ ~ InTunnels(u)'
    BY <1>1, <1>5, <1>6, <2>1 DEF IInv, OnePlace
  <2>5. \A p \in Outs : out_pc'[p] = "connect" =>
          /\ ~ InBacklog(out_tunnel[p]) /\ ~ InTunnels(out_tunnel[p])'
          /\ out_tunnel[p] # listener_stream' /\ out_tunnel[p] # pending_stream'
    <3> SUFFICES ASSUME NEW p \in Outs, out_pc[p] = "connect"
                 PROVE  /\ ~ InBacklog(out_tunnel[p])
                        /\ ~ \E y \in in_tunnels' : y.stream = out_tunnel[p]
                        /\ out_tunnel[p] # listener_stream /\ out_tunnel[p] # None
      BY <1>1 DEF InTunnels
    <3>1. out_tunnel[p] # t /\ out_tunnel[p] # None
      BY <1>6 DEF IInv, TypeOK
    <3>2. \A y \in in_tunnels' : y \in in_tunnels \/ y.stream = t
      BY <1>1 DEF t
    <3> QED  BY <3>1, <3>2 DEF IInv, OnePlace, InTunnels
  <2> QED  BY <1>1, <2>1, <2>2, <2>3, <2>4, <2>5 DEF OnePlace, InBacklog, InTunnels
<1> QED  BY <1>2, <1>3, <1>4, <1>7 DEF IInv

LEMMA OtherHandlerIInv ==
  ASSUME IInv, NEW o \in Outs,
         \/ HandlerMatched(o) \/ AnswerLost(o) \/ MatchFails(o)
         \/ HandshakeFails(o) \/ TakeOther(o) \/ WaitTimeout(o) \/ WakeUp(o)
  PROVE  IInv'
<1> DEFINE Quiet ==
      /\ \A p \in Outs : /\ handler_tunnel'[p] \in {handler_tunnel[p], answers[p], None}
                         /\ answers'[p] \in {answers[p], None}
      /\ UNCHANGED <<backlog, in_tunnels, matches, out_pc, out_tunnel, listener_stream>>
      /\ pending_stream' \in {pending_stream, None}
<1>1. Quiet => IdsOK' /\ InTunnelsOK' /\ OnePlace'
  BY IdsFrame, PlacesShrink DEF IInv
<1>2. CASE HandlerMatched(o)
  <2>1. Quiet
    BY <1>2 DEF IInv, TypeOK, HandlerMatched, outVars, listenerVars
  <2>2. TypeOK'
    BY <1>2 DEF IInv, TypeOK, HandlerMatched, outVars, listenerVars, NoFault
  <2> QED  BY <1>1, <2>1, <2>2 DEF IInv
<1>3. CASE AnswerLost(o)
  <2>1. Quiet
    BY <1>3 DEF IInv, TypeOK, AnswerLost, outVars, listenerVars
  <2>2. TypeOK'
    BY <1>3 DEF IInv, TypeOK, AnswerLost, outVars, listenerVars, Fault
  <2> QED  BY <1>1, <2>1, <2>2 DEF IInv
<1>4. CASE MatchFails(o)
  <2>1. Quiet
    BY <1>4 DEF IInv, TypeOK, MatchFails, HandlerGoes, outVars, listenerVars
  <2>2. TypeOK'
    BY <1>4 DEF IInv, TypeOK, MatchFails, HandlerGoes, outVars, listenerVars, Fault
  <2> QED  BY <1>1, <2>1, <2>2 DEF IInv
<1>5. CASE HandshakeFails(o)
  <2>1. Quiet
    BY <1>5 DEF IInv, TypeOK, HandshakeFails, HandlerGoes, outVars, listenerVars
  <2>2. TypeOK'
    BY <1>5 DEF IInv, TypeOK, HandshakeFails, HandlerGoes, outVars, listenerVars, Fault,
                NoFault
  <2> QED  BY <1>1, <2>1, <2>2 DEF IInv
<1>6. CASE TakeOther(o)
  <2>1. Quiet
    BY <1>6 DEF IInv, TypeOK, TakeOther, handlerVars, outVars, listenerVars
  <2>2. TypeOK'
    BY <1>6 DEF IInv, TypeOK, TakeOther, handlerVars, outVars, listenerVars, NoFault
  <2> QED  BY <1>1, <2>1, <2>2 DEF IInv
<1>7. CASE WaitTimeout(o)
  <2>1. Quiet
    BY <1>7 DEF IInv, TypeOK, WaitTimeout, HandlerGoes, outVars, listenerVars
  <2>2. TypeOK'
    BY <1>7 DEF IInv, TypeOK, WaitTimeout, HandlerGoes, outVars, listenerVars, Fault,
                NoFault
  <2> QED  BY <1>1, <2>1, <2>2 DEF IInv
<1>8. CASE WakeUp(o)
  <2>1. Quiet
    BY <1>8 DEF IInv, TypeOK, WakeUp, HandlerGoes, outVars, listenerVars
  <2>2. TypeOK'
    BY <1>8 DEF IInv, TypeOK, WakeUp, HandlerGoes, outVars, listenerVars, NoFault
  <2> QED  BY <1>1, <2>1, <2>2 DEF IInv
<1> QED  BY <1>2, <1>3, <1>4, <1>5, <1>6, <1>7, <1>8

-----------------------------------------------------------------------------
LEMMA NextIInv == IInv /\ [Next]_vars => IInv'
<1> SUFFICES ASSUME IInv, [Next]_vars PROVE IInv'
  OBVIOUS
<1>1. CASE UNCHANGED vars
  BY <1>1 DEF vars, handlerVars, outVars, listenerVars, IInv, TypeOK, IdsOK,
     InTunnelsOK, OnePlace, MatchedWith, InBacklog, InTunnels
<1>2. ASSUME NEW o \in Outs,
             OutMatched(o) \/ OutTask(o) \/ OutError(o)
      PROVE  IInv'
  BY <1>2, MatchedIInv, ConnectsIInv, OtherOutIInv DEF OutTask
<1>3. ASSUME NEW o \in Outs,
             \/ HandlerTask(o) \/ WaitTimeout(o) \/ AnswerLost(o)
             \/ MatchFails(o) \/ HandshakeFails(o)
      PROVE  IInv'
  BY <1>3, TakeOwnIInv, OtherHandlerIInv DEF HandlerTask
<1>4. CASE ListenerTask \/ ListenerAcceptError \/ ListenerFails
  BY <1>4, AcceptsIInv, OtherListenerIInv DEF ListenerTask
<1> QED  BY <1>1, <1>2, <1>3, <1>4 DEF Next

LEMMA IInvPaired == IInv => TunnelsPaired
<1> SUFFICES ASSUME IInv, NEW x \in in_tunnels
             PROVE  /\ x.stream = x.tunnel_id
                    /\ x.stream <= Len(matches) /\ matches[x.stream] = x.id
                    /\ x.stream \notin ToSet(backlog)
                    /\ x.stream \notin {listener_stream, pending_stream}
  BY DEF TunnelsPaired
<1>1. x.stream \in TunnelIds
  BY DEF IInv, TypeOK, InTunnel
<1>2. InTunnels(x.stream)
  BY DEF InTunnels
<1>3. x.stream = x.tunnel_id /\ MatchedWith(x.stream, x.id)
  BY DEF IInv, InTunnelsOK
<1>4. ~ InBacklog(x.stream) /\ x.stream \notin {listener_stream, pending_stream}
  BY <1>1, <1>2 DEF IInv, OnePlace
<1>5. ToSet(backlog) = {backlog[i] : i \in 1 .. Len(backlog)}
  BY DEF ToSet, IInv, TypeOK
<1> QED  BY <1>3, <1>4, <1>5 DEF MatchedWith, InBacklog

-----------------------------------------------------------------------------
(* The places of the streams, for any number of OUTs, matches and faults. *)
THEOREM Invariance == Spec => []IInv
BY InitIInv, NextIInv, PTL DEF Spec

(* Type correctness of the provider's two ends. *)
THEOREM TypeCorrect == Spec => []TypeOK
<1>1. IInv => TypeOK
  BY DEF IInv
<1> QED  BY Invariance, <1>1, PTL

(* A tunnel of the IN runs on the stream that its own OUT opened for this  *)
(* match, and no other task of the IN holds that stream, although every    *)
(* handler takes whatever it finds in the one slot.                        *)
THEOREM StreamsPaired == Spec => []TunnelsPaired
BY Invariance, IInvPaired, PTL
=============================================================================
