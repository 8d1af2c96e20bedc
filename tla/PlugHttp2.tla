------------------------------ MODULE PlugHttp2 ------------------------------
(***************************************************************************)
(* The plug-http2 provider (tunnel/http2/plug_http2_tunnel_provider.rs):   *)
(* here the OUT connects to the IN.  One listener task of the IN reads the *)
(* tunnel id an incoming stream begins with and puts the stream in a slot; *)
(* every handler that waits for its tunnel polls that one slot.            *)
(*                                                                         *)
(* The match itself is external here (MatchServer models it): an OUT in    *)
(* match_in answers a handler in match_out with a new tunnel id.  The IN   *)
(* has one handler, the OUT one call of accept, at a time for each other.  *)
(***************************************************************************)
EXTENDS Naturals, Sequences, SequencesExt

CONSTANTS
  Outs,        \* OUTs of this provider; each is served by one handler
  MaxTunnels,  \* bound: matches, and so tunnel ids, in all
  MaxFaults,   \* bound: failures, lost answers and delays past a timeout
  None

ASSUME PlugAssumption ==
  /\ MaxTunnels \in Nat \ {0}
  /\ MaxFaults \in Nat
  /\ None \notin 1 .. MaxTunnels

VARIABLES
  handler_pc,       \* IN: handle_out of an OUT, in the provider's accept
  handler_tunnel,   \* IN: the tunnel id match_out returned
  answers,          \* the MatchOut on its way to the handler
  out_pc,           \* OUT: the provider's accept
  out_tunnel,       \* OUT: the tunnel id match_in returned
  backlog,          \* connections the listener has yet to accept
  listener_pc,
  listener_stream,
  pending_stream,   \* the slot
  sent,             \* streams whose OUT finished TLS and wrote the id
  in_tunnels,       \* Http2InTunnels made
  out_tunnels,      \* Http2OutTunnels made
  matches,          \* the OUT of each tunnel id handed out so far
  faults

handlerVars == <<handler_pc, handler_tunnel, answers>>
outVars == <<out_pc, out_tunnel, sent, out_tunnels>>
listenerVars == <<backlog, listener_pc, listener_stream>>
vars == <<handlerVars, outVars, listenerVars, pending_stream, in_tunnels,
          matches, faults>>

(* A connection is named by the tunnel id its OUT sends on it. *)
TunnelIds == 1 .. MaxTunnels
InTunnel == [id : Outs, tunnel_id : TunnelIds, stream : TunnelIds]

TypeOK ==
  /\ handler_pc \in [Outs -> {"match_out", "waiting", "sleep"}]
  /\ handler_tunnel \in [Outs -> TunnelIds \cup {None}]
  /\ answers \in [Outs -> TunnelIds \cup {None}]
  /\ out_pc \in [Outs -> {"match_in", "connect", "tls", "handshake"}]
  /\ out_tunnel \in [Outs -> TunnelIds \cup {None}]
  /\ backlog \in Seq(TunnelIds)
  /\ listener_pc \in {"accept", "sleep", "tls", "read"}
  /\ listener_stream \in TunnelIds \cup {None}
  /\ pending_stream \in TunnelIds \cup {None}
  /\ sent \in SUBSET TunnelIds
  /\ in_tunnels \in SUBSET InTunnel
  /\ out_tunnels \in SUBSET TunnelIds
  /\ matches \in Seq(Outs) /\ Len(matches) <= MaxTunnels
  /\ faults \in 0 .. MaxFaults
  /\ \A o \in Outs : /\ handler_pc[o] = "waiting" <=> handler_tunnel[o] # None
                     /\ out_pc[o] = "match_in" <=> out_tunnel[o] = None
  /\ listener_pc \in {"tls", "read"} <=> listener_stream # None

Init ==
  /\ handler_pc = [o \in Outs |-> "match_out"]
  /\ handler_tunnel = [o \in Outs |-> None]
  /\ answers = [o \in Outs |-> None]
  /\ out_pc = [o \in Outs |-> "match_in"]
  /\ out_tunnel = [o \in Outs |-> None]
  /\ backlog = <<>>
  /\ listener_pc = "accept"
  /\ listener_stream = None
  /\ pending_stream = None
  /\ sent = {}
  /\ in_tunnels = {}
  /\ out_tunnels = {}
  /\ matches = <<>>
  /\ faults = 0

Fault == faults < MaxFaults /\ faults' = faults + 1
NoFault == faults' = faults

-----------------------------------------------------------------------------
(* The two ends of a connection. *)

OutHolds(t) == \E o \in Outs : out_tunnel[o] = t \/ t \in out_tunnels
InHolds(t) ==
  \/ t \in ToSet(backlog) \cup {listener_stream, pending_stream}
  \/ \E x \in in_tunnels : x.stream = t

(* The OUT is about to open the connection, or the IN has it somewhere. *)
OnItsWay(t) ==
  OutHolds(t) /\ (InHolds(t) \/ \E o \in Outs : /\ out_tunnel[o] = t
                                               /\ out_pc[o] = "connect")

-----------------------------------------------------------------------------
(* OUT: accept. *)

OutGoes(o, from, to) == out_pc[o] = from /\ out_pc' = [out_pc EXCEPT ![o] = to]

(* `up` makes the next call at once, whatever this one returned. *)
OutReturns(o) ==
  /\ out_pc' = [out_pc EXCEPT ![o] = "match_in"]
  /\ out_tunnel' = [out_tunnel EXCEPT ![o] = None]

(* match_in answers the handler and returns. *)
OutMatched(o) ==
  /\ OutGoes(o, "match_in", "connect")
  /\ handler_pc[o] = "match_out" /\ answers[o] = None
  /\ Len(matches) < MaxTunnels
  /\ matches' = Append(matches, o)
  /\ out_tunnel' = [out_tunnel EXCEPT ![o] = Len(matches) + 1]
  /\ answers' = [answers EXCEPT ![o] = Len(matches) + 1]
  /\ NoFault
  /\ UNCHANGED <<handler_pc, handler_tunnel, sent, out_tunnels, listenerVars,
                 pending_stream, in_tunnels>>

OutConnects(o) ==
  /\ OutGoes(o, "connect", "tls")
  /\ backlog' = Append(backlog, out_tunnel[o])
  /\ NoFault
  /\ UNCHANGED <<handlerVars, out_tunnel, sent, out_tunnels, listener_pc,
                 listener_stream, pending_stream, in_tunnels, matches>>

(* TLS with the listener; the id follows. *)
OutSendsId(o) ==
  /\ OutGoes(o, "tls", "handshake")
  /\ listener_pc = "tls" /\ listener_stream = out_tunnel[o]
  /\ sent' = sent \cup {out_tunnel[o]}
  /\ NoFault
  /\ UNCHANGED <<handlerVars, out_tunnel, out_tunnels, listenerVars,
                 pending_stream, in_tunnels, matches>>

(* The IN, the h2 client, has sent its preface. *)
OutHandshake(o) ==
  /\ out_pc[o] = "handshake"
  /\ \E x \in in_tunnels : x.stream = out_tunnel[o]
  /\ out_tunnels' = out_tunnels \cup {out_tunnel[o]}
  /\ OutReturns(o)
  /\ NoFault
  /\ UNCHANGED <<handlerVars, sent, listenerVars, pending_stream, in_tunnels,
                 matches>>

(* The IN dropped the stream. *)
OutStreamClosed(o) ==
  /\ out_pc[o] \in {"tls", "handshake"} /\ ~ InHolds(out_tunnel[o])
  /\ OutReturns(o)
  /\ NoFault
  /\ UNCHANGED <<handlerVars, sent, out_tunnels, listenerVars, pending_stream,
                 in_tunnels, matches>>

(* A step of accept fails; its end of the connection is closed. *)
OutError(o) ==
  /\ out_pc[o] # "match_in"
  /\ Fault
  /\ OutReturns(o)
  /\ UNCHANGED <<handlerVars, sent, out_tunnels, listenerVars, pending_stream,
                 in_tunnels, matches>>

-----------------------------------------------------------------------------
(* IN: the listener's task. *)

ListenerAccepts ==
  /\ listener_pc = "accept" /\ backlog # <<>>
  /\ listener_pc' = "tls"
  /\ listener_stream' = Head(backlog)
  /\ backlog' = Tail(backlog)
  /\ NoFault
  /\ UNCHANGED <<handlerVars, outVars, pending_stream, in_tunnels, matches>>

ListenerAcceptError ==
  /\ listener_pc = "accept"
  /\ Fault
  /\ listener_pc' = "sleep"
  /\ UNCHANGED <<handlerVars, outVars, backlog, listener_stream,
                 pending_stream, in_tunnels, matches>>

ListenerWakes ==
  /\ listener_pc = "sleep"
  /\ listener_pc' = "accept"
  /\ NoFault
  /\ UNCHANGED <<handlerVars, outVars, backlog, listener_stream,
                 pending_stream, in_tunnels, matches>>

ListenerTls ==
  /\ listener_pc = "tls" /\ listener_stream \in sent
  /\ listener_pc' = "read"
  /\ NoFault
  /\ UNCHANGED <<handlerVars, outVars, backlog, listener_stream,
                 pending_stream, in_tunnels, matches>>

(* Mutant: the task ends at the first stream that fails. *)
ListenerStops ==
  /\ listener_pc \in {"tls", "read"}
  /\ IF OutHolds(listener_stream) THEN Fault ELSE NoFault
  /\ listener_pc' = "stopped"
  /\ listener_stream' = None
  /\ UNCHANGED <<handlerVars, outVars, backlog, pending_stream, in_tunnels,
                 matches>>

(* TLS fails, or the id cannot be read within a second: the stream is      *)
(* dropped, the next one accepted.                                         *)
ListenerFails ==
  /\ listener_pc \in {"tls", "read"}
  /\ IF OutHolds(listener_stream) THEN Fault ELSE NoFault
  /\ listener_pc' = "accept"
  /\ listener_stream' = None
  /\ UNCHANGED <<handlerVars, outVars, backlog, pending_stream, in_tunnels,
                 matches>>

(* Mutant: a stream that nobody waits for yet is dropped. *)
ListenerStoresExpected ==
  /\ listener_pc = "read"
  /\ listener_pc' = "accept"
  /\ listener_stream' = None
  /\ pending_stream' =
       IF \E o \in Outs : handler_tunnel[o] = listener_stream
       THEN listener_stream ELSE pending_stream
  /\ NoFault
  /\ UNCHANGED <<handlerVars, outVars, backlog, in_tunnels, matches>>

(* The id is read and the stream put in the slot; one that is still there  *)
(* is dropped.                                                             *)
ListenerStores ==
  /\ listener_pc = "read"
  /\ listener_pc' = "accept"
  /\ listener_stream' = None
  /\ pending_stream' = listener_stream
  /\ NoFault
  /\ UNCHANGED <<handlerVars, outVars, backlog, in_tunnels, matches>>

-----------------------------------------------------------------------------
(* IN: accept, and the loop around it. *)

(* Mutant: a handler takes what is in the slot for its own. *)
OwnAny(o) == pending_stream # None

Own(o) == pending_stream = handler_tunnel[o]

(* Mutant: the tunnel id of a call that is over is kept. *)
HandlerGoesKeeping(o, from, to) ==
  /\ handler_pc[o] = from
  /\ handler_pc' = [handler_pc EXCEPT ![o] = to]
  /\ UNCHANGED handler_tunnel

HandlerGoes(o, from, to) ==
  /\ handler_pc[o] = from
  /\ handler_pc' = [handler_pc EXCEPT ![o] = to]
  /\ handler_tunnel' = [handler_tunnel EXCEPT ![o] = None]

(* match_out returns with the answer. *)
HandlerMatched(o) ==
  /\ handler_pc[o] = "match_out" /\ answers[o] # None
  /\ handler_pc' = [handler_pc EXCEPT ![o] = "waiting"]
  /\ handler_tunnel' = [handler_tunnel EXCEPT ![o] = answers[o]]
  /\ answers' = [answers EXCEPT ![o] = None]
  /\ NoFault
  /\ UNCHANGED <<outVars, listenerVars, pending_stream, in_tunnels, matches>>

(* The answer is lost, and the handler keeps announcing itself, or the     *)
(* STUN probe or match_out fails.                                          *)
AnswerLost(o) ==
  /\ answers[o] # None
  /\ Fault
  /\ answers' = [answers EXCEPT ![o] = None]
  /\ UNCHANGED <<handler_pc, handler_tunnel, outVars, listenerVars,
                 pending_stream, in_tunnels, matches>>

MatchFails(o) ==
  /\ HandlerGoes(o, "match_out", "sleep")
  /\ Fault
  /\ answers' = [answers EXCEPT ![o] = None]
  /\ UNCHANGED <<outVars, listenerVars, pending_stream, in_tunnels, matches>>

(* wait_for_pending_stream, its own stream: the h2 client writes its       *)
(* preface without waiting for the OUT's, and accept returns the tunnel.   *)
TakeOwn(o) ==
  /\ pending_stream # None /\ Own(o)
  /\ HandlerGoes(o, "waiting", "match_out")
  /\ in_tunnels' = in_tunnels \cup
       {[id |-> o, tunnel_id |-> handler_tunnel[o], stream |-> pending_stream]}
  /\ pending_stream' = None
  /\ NoFault
  /\ UNCHANGED <<answers, outVars, listenerVars, matches>>

(* The preface cannot be written. *)
HandshakeFails(o) ==
  /\ pending_stream # None /\ Own(o)
  /\ HandlerGoes(o, "waiting", "sleep")
  /\ IF OutHolds(pending_stream) THEN Fault ELSE NoFault
  /\ pending_stream' = None
  /\ UNCHANGED <<answers, outVars, listenerVars, in_tunnels, matches>>

(* Another's stream is taken out all the same, and dropped. *)
TakeOther(o) ==
  /\ handler_pc[o] = "waiting"
  /\ pending_stream # None /\ ~ Own(o)
  /\ pending_stream' = None
  /\ NoFault
  /\ UNCHANGED <<handlerVars, outVars, listenerVars, in_tunnels, matches>>

(* Three seconds are over; that a stream on its way takes longer counts as *)
(* a fault.                                                                *)
WaitTimeout(o) ==
  /\ HandlerGoes(o, "waiting", "sleep")
  /\ IF OnItsWay(handler_tunnel[o]) THEN Fault ELSE NoFault
  /\ UNCHANGED <<answers, outVars, listenerVars, pending_stream, in_tunnels,
                 matches>>

WakeUp(o) ==
  /\ HandlerGoes(o, "sleep", "match_out")
  /\ NoFault
  /\ UNCHANGED <<answers, outVars, listenerVars, pending_stream, in_tunnels,
                 matches>>

-----------------------------------------------------------------------------
OutTask(o) ==
  OutConnects(o) \/ OutSendsId(o) \/ OutHandshake(o) \/ OutStreamClosed(o)
ListenerTask ==
  ListenerAccepts \/ ListenerWakes \/ ListenerTls \/ ListenerStores
HandlerTask(o) ==
  HandlerMatched(o) \/ TakeOwn(o) \/ TakeOther(o) \/ WakeUp(o)

Next ==
  \/ \E o \in Outs : \/ OutMatched(o) \/ OutTask(o) \/ OutError(o)
                     \/ HandlerTask(o) \/ WaitTimeout(o) \/ AnswerLost(o)
                     \/ MatchFails(o) \/ HandshakeFails(o)
  \/ ListenerTask \/ ListenerAcceptError \/ ListenerFails

Spec == Init /\ [][Next]_vars

(* Every task is run again and again: a stream in the slot is found by a   *)
(* handler that polls for it, a stream whose OUT closed it fails, and a    *)
(* wait for a stream that is not coming is over after three seconds.       *)
Fairness ==
  /\ WF_vars(ListenerTask)
  /\ WF_vars(ListenerFails /\ NoFault)
  /\ \A o \in Outs : /\ WF_vars(OutTask(o)) /\ WF_vars(HandlerTask(o))
                     /\ WF_vars(WaitTimeout(o) /\ NoFault)

FairSpec == Spec /\ Fairness

-----------------------------------------------------------------------------
(* Whatever the handlers take from one another's slot, a tunnel of the IN  *)
(* runs on the stream its own OUT opened for this very match, and nobody   *)
(* else can get hold of that stream any more.                              *)
TunnelsPaired ==
  \A x \in in_tunnels :
    /\ x.stream = x.tunnel_id
    /\ x.stream <= Len(matches) /\ matches[x.stream] = x.id
    /\ x.stream \notin ToSet(backlog) \cup {listener_stream, pending_stream}

(* A call of the OUT's accept, which has no time limit, comes to its end:  *)
(* the handlers' stealing makes it fail, never hang.  The one exception is *)
(* a stream whose handler gave it up after a fault and that stays in the   *)
(* slot because no other handler or stream comes by.                       *)
OutCallEnds ==
  \A o \in Outs :
    \/ []<>(out_pc[o] = "match_in")
    \/ <>[](faults > 0 /\ pending_stream = out_tunnel[o])

(* While only one OUT has been matched and nothing failed, every match     *)
(* becomes a tunnel at both ends, though the stream may be there before    *)
(* the IN has read the answer.                                             *)
AloneIsServed ==
  \A t \in TunnelIds :
    LET Alone == /\ faults = 0 /\ t <= Len(matches)
                 /\ \A u \in 1 .. Len(matches) : matches[u] = matches[t]
        Served == t \in out_tunnels /\ \E x \in in_tunnels : x.tunnel_id = t
    IN Alone ~> (Served \/ ~ Alone)
=============================================================================
