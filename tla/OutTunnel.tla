----------------------------- MODULE OutTunnel -----------------------------
(***************************************************************************)
(* One tunnel on the OUT side: the loop of handle_tunnel (out.rs), and     *)
(* what accepts a stream for it, Http2OutTunnel (http2_tunnel.rs) or       *)
(* ByteStreamOutTunnel over QuicOutTunnelConnection (byte_stream_tunnel.rs *)
(* and quic_tunnel.rs).  What a stream carries is in ProxyConnection.      *)
(*                                                                         *)
(* The IN opens streams and drops them.  An h2 request brings its          *)
(* destination with it; on a QUIC stream a head does, which is written     *)
(* after the stream is opened and is read before the next stream is        *)
(* accepted.  h2 and QUIC are external: both hand streams over in the      *)
(* order in which they were opened.                                        *)
(***************************************************************************)
EXTENDS Naturals, Sequences, Functions

CONSTANTS
  Streams,    \* bound: streams the IN opens
  MaxFaults,  \* bound: heads never written, and the connection lost
  None

ASSUME OutTunnelAssumption == None \notin Streams /\ MaxFaults \in Nat

VARIABLES
  kind,         \* "http2" or "quic"
  connection,   \* "up", or "over": lost, or dropped with the tunnel
  closed,       \* Http2OutTunnel.closed
  pc,           \* handle_tunnel: "accept", "head" or "ended"
  current,      \* the stream whose head is read
  arrived,      \* streams opened and not accepted, in order
  head,         \* stream: "none", "written", "whole" or "cut"
  stream,       \* IN's side: "new", "open" or "dropped"
  task,         \* handle_tcp_stream: "none", "running" or "over"
  lost,         \* history: the connection was lost
  faults        \* history: faults so far

loopVars == <<closed, pc, current>>
vars == <<kind, connection, loopVars, arrived, head, stream, task, lost,
          faults>>

TypeOK ==
  /\ kind \in {"http2", "quic"}
  /\ connection \in {"up", "over"}
  /\ closed \in BOOLEAN
  /\ pc \in {"accept", "head", "ended"}
  /\ current \in IF pc = "head" THEN Streams ELSE {None}
  /\ arrived \in Seq(Streams) /\ IsInjective(arrived)
  /\ \A i \in DOMAIN arrived : task[arrived[i]] = "none"
  /\ head \in [Streams -> {"none", "written", "whole", "cut"}]
  /\ stream \in [Streams -> {"new", "open", "dropped"}]
  /\ task \in [Streams -> {"none", "running", "over"}]
  /\ lost \in BOOLEAN
  /\ faults \in 0 .. MaxFaults

Init ==
  /\ kind \in {"http2", "quic"}
  /\ connection = "up"
  /\ closed = FALSE
  /\ pc = "accept"
  /\ current = None
  /\ arrived = <<>>
  /\ head = [s \in Streams |-> "none"]
  /\ stream = [s \in Streams |-> "new"]
  /\ task = [s \in Streams |-> "none"]
  /\ lost = FALSE
  /\ faults = 0

Fault == faults < MaxFaults /\ faults' = faults + 1
NoFault == faults' = faults

-----------------------------------------------------------------------------
(* The IN. *)

(* open_bi, or send_request with the destination in its headers. *)
Open(s) ==
  /\ connection = "up" /\ stream[s] = "new"
  /\ stream' = [stream EXCEPT ![s] = "open"]
  /\ arrived' = Append(arrived, s)
  /\ head' = [head EXCEPT ![s] = IF kind = "http2" THEN "whole" ELSE "none"]
  /\ NoFault
  /\ UNCHANGED <<kind, connection, loopVars, task, lost>>

WriteHead(s) ==
  /\ connection = "up" /\ stream[s] = "open" /\ head[s] = "none"
  /\ head' = [head EXCEPT ![s] = "written"]
  /\ NoFault
  /\ UNCHANGED <<kind, connection, loopVars, arrived, stream, task, lost>>

(* A name or tag does not fit its length byte: connect fails, and the      *)
(* stream it drops is finished without a head.                             *)
HeadTooLong(s) ==
  /\ connection = "up" /\ stream[s] = "open" /\ head[s] = "none"
  /\ Fault
  /\ head' = [head EXCEPT ![s] = "cut"]
  /\ stream' = [stream EXCEPT ![s] = "dropped"]
  /\ UNCHANGED <<kind, connection, loopVars, arrived, task, lost>>

(* Heads of different streams arrive in any order. *)
HeadArrives(s) ==
  /\ connection = "up" /\ head[s] = "written"
  /\ head' = [head EXCEPT ![s] = "whole"]
  /\ NoFault
  /\ UNCHANGED <<kind, connection, loopVars, arrived, stream, task, lost>>

(* The client has gone, say: the halves of a stream are dropped. *)
DropStream(s) ==
  /\ connection = "up" /\ stream[s] = "open" /\ head[s] # "none"
  /\ stream' = [stream EXCEPT ![s] = "dropped"]
  /\ NoFault
  /\ UNCHANGED <<kind, connection, loopVars, arrived, head, task, lost>>

ConnectionLost ==
  /\ connection = "up"
  /\ Fault
  /\ connection' = "over"
  /\ lost' = TRUE
  /\ UNCHANGED <<kind, loopVars, arrived, head, stream, task>>

-----------------------------------------------------------------------------
(* OUT: handle_tunnel. *)

Accepted(s) ==
  /\ task' = [task EXCEPT ![s] = "running"]
  /\ pc' = "accept"
  /\ current' = None
  /\ UNCHANGED <<closed, connection>>

(* Mutant: any error of accept closes a tunnel. *)
IsClosedByError == TRUE

(* QUIC asks its connection, h2 the flag that an error of accept sets. *)
IsClosed == IF kind = "http2" THEN closed' ELSE connection = "over"

(* Mutant: an error ends the loop, whether the tunnel is closed or not; a  *)
(* QUIC connection lives on in its streams.                                *)
AcceptFailedBreaks ==
  /\ closed' = (kind = "http2")
  /\ current' = None
  /\ pc' = "ended"
  /\ connection' = IF kind = "http2" THEN "over" ELSE connection
  /\ UNCHANGED task

(* Mutant: the flag is not set. *)
AcceptFailedUnmarked ==
  /\ UNCHANGED closed
  /\ current' = None
  /\ IF kind = "quic" /\ connection = "over" THEN pc' = "ended" ELSE pc' = "accept"
  /\ UNCHANGED <<task, connection>>

(* accept returned an error.  A closed tunnel is dropped, and with an h2   *)
(* tunnel its connection.                                                  *)
AcceptFailed ==
  /\ closed' = (kind = "http2")
  /\ current' = None
  /\ IF IsClosed THEN pc' = "ended" /\ connection' = "over"
     ELSE pc' = "accept" /\ UNCHANGED connection
  /\ UNCHANGED task

(* poll_accept; the response to a request that was reset meanwhile cannot  *)
(* be sent.                                                                *)
AcceptRequest ==
  /\ kind = "http2" /\ pc = "accept"
  /\ connection = "up" /\ arrived # <<>>
  /\ LET s == Head(arrived) IN
     IF stream[s] = "dropped" THEN AcceptFailed ELSE Accepted(s)
  /\ arrived' = Tail(arrived)
  /\ NoFault
  /\ UNCHANGED <<kind, head, stream, lost>>

(* accept_bi; what had arrived is still handed over by a connection that   *)
(* is over.                                                                *)
AcceptStream ==
  /\ kind = "quic" /\ pc = "accept" /\ arrived # <<>>
  /\ pc' = "head"
  /\ current' = Head(arrived)
  /\ arrived' = Tail(arrived)
  /\ NoFault
  /\ UNCHANGED <<kind, connection, closed, head, stream, task, lost>>

(* The head is read, is not there, or never will be. *)
ReadHead ==
  /\ pc = "head"
  /\ \/ head[current] = "whole" /\ Accepted(current)
     \/ head[current] = "cut" /\ AcceptFailed
     \/ head[current] \in {"none", "written"} /\ connection = "over"
        /\ AcceptFailed
  /\ NoFault
  /\ UNCHANGED <<kind, arrived, head, stream, lost>>

(* The connection is over, and nothing more to accept. *)
AcceptError ==
  /\ pc = "accept" /\ connection = "over"
  /\ kind = "quic" => arrived = <<>>
  /\ AcceptFailed
  /\ NoFault
  /\ UNCHANGED <<kind, arrived, head, stream, lost>>

(* handle_tcp_stream returns: its server or its client is done, or its     *)
(* stream has failed with the connection.                                  *)
StreamDone(s) ==
  /\ task[s] = "running"
  /\ task' = [task EXCEPT ![s] = "over"]
  /\ NoFault
  /\ UNCHANGED <<kind, connection, loopVars, arrived, head, stream, lost>>

-----------------------------------------------------------------------------
InTask(s) == WriteHead(s) \/ HeadArrives(s)
HandleTunnel == AcceptRequest \/ AcceptStream \/ ReadHead \/ AcceptError

Next ==
  \/ \E s \in Streams :
       Open(s) \/ InTask(s) \/ HeadTooLong(s) \/ DropStream(s) \/ StreamDone(s)
  \/ ConnectionLost
  \/ HandleTunnel

Spec == Init /\ [][Next]_vars

(* The IN writes the head it has to, the network brings it, and the loop   *)
(* is polled.                                                              *)
Fairness ==
  /\ \A s \in Streams : WF_vars(InTask(s))
  /\ WF_vars(HandleTunnel)

FairSpec == Spec /\ Fairness

-----------------------------------------------------------------------------
(* Properties. *)

(* A stream that goes wrong leaves the others alone: as long as nothing    *)
(* happens to the connection itself, the OUT ends it only for an h2 stream *)
(* that was dropped before it could be accepted, which takes all the       *)
(* others with it (http2_tunnel.rs:391).                                   *)
StreamsIndependent ==
  (connection = "over" /\ ~ lost) =>
    /\ kind = "http2"
    /\ \E s \in Streams : stream[s] = "dropped" /\ task[s] = "none"

(* A stream the IN has opened and keeps is handled, however late its head  *)
(* or the one ahead of it comes, and whatever becomes of other streams,    *)
(* unless the connection ends: the OUT never stops to accept on a          *)
(* connection an IN can still open streams on.                             *)
StreamServed ==
  \A s \in Streams :
    (stream[s] = "open")
      ~> (task[s] # "none" \/ stream[s] = "dropped" \/ connection = "over")

(* The loop ends with the connection; it does not call accept again and    *)
(* again on a tunnel that is gone.                                         *)
LoopEnds == (connection = "over") ~> (pc = "ended")
=============================================================================
