-------------------------- MODULE ProxyConnection --------------------------
(***************************************************************************)
(* One TCP connection from its client to its server, through both ends of  *)
(* a tunnel: resolve_tcp_destination (the sniffing) and                    *)
(* handle_in_tcp_stream of transparent_proxy.rs, connect of the two kinds  *)
(* of tunnel, handle_tcp_stream of out.rs, and copy_bidirectional of       *)
(* utils/io.rs, which both ends run over the h2 stream of compat.rs or     *)
(* over a QUIC stream.                                                     *)
(*                                                                         *)
(*   client --- "client" --- in --- "tunnel" --- out --- "server" --- server *)
(*                                                                         *)
(* or, with DIRECT for a tunnel (direct_tunnel.rs), through the IN alone:  *)
(*                                                                         *)
(*   client --- "client" --- in --- "server" --- server                    *)
(*                                                                         *)
(* Every segment carries two pipes, "up" to the server and "down" to the   *)
(* client.  The end of a pipe is behind its data; `deaf` says that nobody  *)
(* reads it any more.  TCP, h2 and QUIC are external: what a dropped half  *)
(* does to the other side is theirs.  A byte is its place in what its      *)
(* sender sent; name and destination of the request are left out.          *)
(***************************************************************************)
EXTENDS Naturals, Sequences, SequencesExt

CONSTANTS
  MaxBytes,           \* bound: bytes each end sends
  BufferSize,         \* of tokio::io::copy
  SocketSize,         \* bytes a TCP pipe holds
  WindowSize,         \* bytes a tunnel's pipe holds
  ReadAttemptsLimit,
  MaxFaults           \* bound: ends that leave, and failures between them

Ends == {"client", "server"}
Relays == {"in", "out"}
Directions == {"up", "down"}
Segments == {"client", "tunnel", "server"}

ASSUME ProxyAssumption ==
  /\ MaxBytes \in [Ends -> Nat]
  /\ BufferSize \in Nat \ {0}
  /\ SocketSize \in Nat \ {0}
  /\ WindowSize \in Nat \ {0}
  /\ ReadAttemptsLimit \in Nat
  /\ MaxFaults \in Nat

VARIABLES
  kind,           \* of the tunnel: "http2", "quic" or "direct"
  pipe,           \* segment, direction -> its data, its end, and deaf
  pc,             \* of the task of each relay
  read_attempts,  \* IN: of the sniffing
  end,            \* IN: the sniffing has read the client's end
  copy,           \* relay, direction -> its half of copy_bidirectional
  buffer,         \* relay, direction -> read and not yet written
  pending,        \* relay: the rest of an h2 frame, H2RecvStreamAsyncRead
  sent,           \* end: number of bytes it has sent
  received,       \* end: bytes it has received
  saw,            \* end: the end of what it receives
  reached,        \* the server has been connected to
  faults          \* history: faults so far

endVars == <<sent, received, saw>>
inVars == <<read_attempts, end>>
copyVars == <<copy, buffer, pending>>
vars == <<kind, pipe, pc, inVars, copyVars, endVars, reached, faults>>

Bytes == 1 .. MaxBytes["client"] + MaxBytes["server"]
InStages == {"sniff", "select", "connect", "copy", "done"}
OutStages == {"none", "accept", "connect", "copy", "done"}
Pipe == [data : Seq(Seq(Bytes) \ {<<>>}),
         end : {"open", "fin", "reset"},
         deaf : BOOLEAN]
Contents(p) == FlattenSeq(p.data)
Capacity(s) == IF s = "tunnel" THEN WindowSize ELSE SocketSize

TypeOK ==
  /\ kind \in {"http2", "quic", "direct"}
  /\ pipe \in [Segments -> [Directions -> Pipe]]
  /\ \A s \in Segments, d \in Directions :
       Len(Contents(pipe[s][d])) <= Capacity(s)
  /\ pc \in [Relays -> InStages \union OutStages]
  /\ pc["in"] \in InStages /\ pc["out"] \in OutStages
  /\ read_attempts \in 0 .. ReadAttemptsLimit
  /\ end \in BOOLEAN
  /\ copy \in [Relays -> [Directions -> {"copying", "flushing", "ended"}]]
  /\ pending \in [Relays -> Seq(Bytes)]
  /\ buffer \in [Relays -> [Directions -> Seq(Bytes)]]
  /\ \A r \in Relays, d \in Directions :
       pc[r] = "copy" => Len(buffer[r][d]) <= BufferSize
  /\ sent \in [Ends -> Nat] /\ \A e \in Ends : sent[e] <= MaxBytes[e]
  /\ received \in [Ends -> Seq(Bytes)]
  /\ saw \in [Ends -> {"nothing", "eof", "reset"}]
  /\ reached \in BOOLEAN
  /\ faults \in 0 .. MaxFaults

Both(v) == [d \in Directions |-> v]
Relay(v) == [r \in Relays |-> v]
NewPipe == [data |-> <<>>, end |-> "open", deaf |-> FALSE]

(* The name is known already (from a fake address), or is sniffed. *)
Init ==
  /\ kind \in {"http2", "quic", "direct"}
  /\ pipe = [s \in Segments |-> Both(NewPipe)]
  /\ \E start \in {"sniff", "select"} :
       pc = [Relay("none") EXCEPT !["in"] = start]
  /\ read_attempts = 0
  /\ end = FALSE
  /\ copy = Relay(Both("copying"))
  /\ buffer = Relay(Both(<<>>))
  /\ pending = Relay(<<>>)
  /\ sent = [e \in Ends |-> 0]
  /\ received = [e \in Ends |-> <<>>]
  /\ saw = [e \in Ends |-> "nothing"]
  /\ reached = FALSE
  /\ faults = 0

Fault == faults < MaxFaults /\ faults' = faults + 1
NoFault == faults' = faults

-----------------------------------------------------------------------------
(* Pipes. *)

Opposite(d) == IF d = "up" THEN "down" ELSE "up"
Outwards(e) == IF e = "client" THEN "up" ELSE "down"
Inwards(e) == Opposite(Outwards(e))

Near(r) == IF r = "in" THEN "client" ELSE "server"
Forth(r) == IF r = "in" THEN "up" ELSE "down"

Far(r) == IF kind = "direct" THEN "server" ELSE "tunnel"

(* The segment a relay reads from, and the one it writes to. *)
From(r, d) == IF d = Forth(r) THEN Near(r) ELSE Far(r)
To(r, d) == IF d = Forth(r) THEN Far(r) ELSE Near(r)

Framed(s) == s = "tunnel" /\ kind = "http2"
(* Mutant: data is sent whatever the capacity. *)
RoomUnlimited(s, p) == MaxBytes["client"] + MaxBytes["server"]

Room(s, p) == Capacity(s) - Len(Contents(p))

Smaller(a, b) == IF a < b THEN a ELSE b
First(q, n) == SubSeq(q, 1, Smaller(n, Len(q)))
Rest(q, n) == SubSeq(q, n + 1, Len(q))

(* A byte stream keeps no boundaries, h2 keeps its frames. *)
Stream(bytes) == IF bytes = <<>> THEN <<>> ELSE <<bytes>>
Put(s, p, bytes) ==
  [p EXCEPT !.data = IF Framed(s) THEN Append(@, bytes)
                     ELSE Stream(Contents(p) \o bytes)]

Finished(p) == [p EXCEPT !.end = IF @ = "open" THEN "fin" ELSE @]
Unread(p) == [p EXCEPT !.data = <<>>, !.deaf = TRUE]

(* One side drops both halves of segment s, `out` that it wrote and `in`   *)
(* that it read.  The ends the other side may find:                        *)
(*   TCP   a socket with unread data is reset, another one is closed;      *)
(*   QUIC  what was written is finished, what was read is stopped;         *)
(*   h2    a stream that is not over is reset behind its data, and a       *)
(*         reset may be found before an end that was sent.                 *)
EndsFound(s, out, in) ==
  IF out.end = "open"
  THEN {IF s = "tunnel" THEN IF kind = "quic" THEN "fin" ELSE "reset"
        ELSE IF in.data = <<>> THEN "fin" ELSE "reset"}
  ELSE {out.end} \cup
         IF Framed(s) /\ in.end = "open" THEN {"reset"} ELSE {}

(* d is the direction that the side which drops s has written. *)
Dropped(s, d, segment) ==
  LET out == segment[d]
      in == segment[Opposite(d)]
  IN {[segment EXCEPT ![d].end = found, ![Opposite(d)] = Unread(in)] :
        found \in EndsFound(s, out, in)}

(* The task of relay r ends, and with it its halves of both segments. *)
TaskEnds(r, pipes) ==
  /\ \E near \in Dropped(Near(r), Opposite(Forth(r)), pipes[Near(r)]),
        far \in Dropped(Far(r), Forth(r), pipes[Far(r)]) :
       pipe' = [pipes EXCEPT ![Near(r)] = near, ![Far(r)] = far]
  /\ buffer' = [buffer EXCEPT ![r] = Both(<<>>)]
  /\ pending' = [pending EXCEPT ![r] = <<>>]
  /\ copy' = [copy EXCEPT ![r] = Both("ended")]

-----------------------------------------------------------------------------
(* The ends: a client and a server, which do as they like.  They read what *)
(* arrives as long as they are there.                                      *)

Connected(e) == e = "client" \/ reached
Left(e) == pipe[e][Inwards(e)].deaf

Send(e) ==
  /\ Connected(e) /\ sent[e] < MaxBytes[e]
  /\ LET p == pipe[e][Outwards(e)] IN
     /\ p.end = "open" /\ ~ p.deaf /\ Room(e, p) > 0
     /\ pipe' = [pipe EXCEPT ![e][Outwards(e)] = Put(e, p, <<sent[e] + 1>>)]
  /\ sent' = [sent EXCEPT ![e] = @ + 1]
  /\ NoFault
  /\ UNCHANGED <<kind, pc, inVars, copyVars, received, saw, reached>>

Finish(e) ==
  /\ Connected(e) /\ pipe[e][Outwards(e)].end = "open"
  /\ pipe' = [pipe EXCEPT ![e][Outwards(e)] = Finished(@)]
  /\ NoFault
  /\ UNCHANGED <<kind, pc, inVars, copyVars, endVars, reached>>

Receive(e) ==
  LET p == pipe[e][Inwards(e)] IN
  /\ saw[e] = "nothing" /\ ~ p.deaf
  /\ \/ /\ p.data # <<>>
        /\ received' = [received EXCEPT ![e] = @ \o Contents(p)]
        /\ pipe' = [pipe EXCEPT ![e][Inwards(e)].data = <<>>]
        /\ UNCHANGED saw
     \/ /\ p.end = "reset" \/ (p.data = <<>> /\ p.end = "fin")
        /\ saw' = [saw EXCEPT ![e] = IF p.end = "fin" THEN "eof" ELSE "reset"]
        /\ UNCHANGED <<received, pipe>>
  /\ NoFault
  /\ UNCHANGED <<kind, pc, inVars, copyVars, sent, reached>>

(* The end closes its socket without regard to what is still to come, or   *)
(* resets it.                                                              *)
Leave(e) ==
  /\ Connected(e) /\ ~ Left(e)
  /\ Fault
  /\ LET d == Outwards(e) IN
     \E segment \in Dropped(e, d, pipe[e]), how \in {"closed", "reset"} :
       pipe' = [pipe EXCEPT ![e] =
                  IF how = "reset" /\ pipe[e][d].end = "open"
                  THEN [segment EXCEPT ![d].end = "reset"] ELSE segment]
  /\ UNCHANGED <<kind, pc, inVars, copyVars, endVars, reached>>

-----------------------------------------------------------------------------
(* IN: resolve_tcp_destination and handle_in_tcp_stream. *)

(* One try_read.  What is read decides at once, unless it is the beginning *)
(* of a TLS hello.  The error of a socket is reported once, what follows   *)
(* it is its end.                                                          *)
Sniff ==
  LET p == pipe["client"]["up"]
      Determined == /\ pc' = [pc EXCEPT !["in"] = "select"]
                    /\ read_attempts' = 0
  IN
  /\ pc["in"] = "sniff"
  /\ \/ /\ p.data # <<>>
        /\ buffer' = [buffer EXCEPT !["in"]["up"] = @ \o Contents(p)]
        /\ pipe' = [pipe EXCEPT !["client"]["up"].data = <<>>]
        /\ Determined \/ UNCHANGED <<pc, read_attempts>>
        /\ UNCHANGED end
     \/ /\ p.data = <<>> /\ p.end = "fin"
        /\ end' = TRUE
        /\ Determined
        /\ UNCHANGED <<pipe, buffer>>
     \/ /\ p.data = <<>> /\ p.end = "open"
        /\ IF read_attempts < ReadAttemptsLimit
           THEN read_attempts' = read_attempts + 1 /\ UNCHANGED pc
           ELSE Determined
        /\ UNCHANGED <<pipe, buffer, end>>
     \/ /\ p.end = "reset"
        /\ pipe' = [pipe EXCEPT !["client"]["up"] =
                       [@ EXCEPT !.data = <<>>, !.end = "fin"]]
        /\ Determined
        /\ UNCHANGED <<buffer, end>>
  /\ NoFault
  /\ UNCHANGED <<kind, copy, pending, endVars, reached>>

(* A tunnel is selected and a stream of it opened. *)
OpenStream ==
  /\ pc["in"] = "select" /\ kind # "direct"
  /\ pc' = [pc EXCEPT !["in"] = "connect", !["out"] = "accept"]
  /\ NoFault
  /\ UNCHANGED <<kind, pipe, inVars, copyVars, endVars, reached>>

(* DIRECT: the IN connects to the server. *)
ConnectDirect ==
  /\ pc["in"] = "select" /\ kind = "direct"
  /\ pc' = [pc EXCEPT !["in"] = "connect"]
  /\ reached' = TRUE
  /\ NoFault
  /\ UNCHANGED <<kind, pipe, inVars, copyVars, endVars>>

(* There is no tunnel, and the client's stream is shut down, or connect    *)
(* fails before there is a stream, and it is dropped.                      *)
Reject ==
  /\ pc["in"] = "select"
  /\ Fault
  /\ \E client \in Dropped("client", "down", pipe["client"]),
        how \in {"shutdown", "dropped"} :
       pipe' = [pipe EXCEPT !["client"] =
                  IF how = "dropped" THEN client
                  ELSE [client EXCEPT !["down"].end = "fin"]]
  /\ pc' = [pc EXCEPT !["in"] = "done"]
  /\ buffer' = [buffer EXCEPT !["in"] = Both(<<>>)]
  /\ end' = FALSE
  /\ UNCHANGED <<kind, read_attempts, copy, pending, endVars, reached>>

(* The sniffed bytes are written (Write): copying begins. *)
InConnected ==
  /\ pc["in"] = "connect" /\ buffer["in"]["up"] = <<>>
  /\ pc' = [pc EXCEPT !["in"] = "copy"]
  /\ copy' = [copy EXCEPT !["in"]["up"] =
                 IF end THEN "flushing" ELSE "copying"]
  /\ end' = FALSE
  /\ NoFault
  /\ UNCHANGED <<kind, pipe, read_attempts, buffer, pending, endVars, reached>>

-----------------------------------------------------------------------------
(* OUT: handle_tunnel and handle_tcp_stream. *)

OutAccept ==
  /\ pc["out"] = "accept"
  /\ IF pipe["tunnel"]["up"].end = "reset"
     THEN /\ pc' = [pc EXCEPT !["out"] = "done"]
          /\ TaskEnds("out", pipe)
     ELSE /\ pc' = [pc EXCEPT !["out"] = "connect"]
          /\ UNCHANGED <<pipe, copyVars>>
  /\ NoFault
  /\ UNCHANGED <<kind, inVars, endVars, reached>>

OutConnected ==
  /\ pc["out"] = "connect"
  /\ pc' = [pc EXCEPT !["out"] = "copy"]
  /\ reached' = TRUE
  /\ NoFault
  /\ UNCHANGED <<kind, pipe, inVars, copyVars, endVars>>

(* The name cannot be looked up, or the server not be connected to. *)
OutConnectFails ==
  /\ pc["out"] = "connect"
  /\ Fault
  /\ pc' = [pc EXCEPT !["out"] = "done"]
  /\ TaskEnds("out", pipe)
  /\ UNCHANGED <<kind, inVars, endVars, reached>>

-----------------------------------------------------------------------------
(* copy_bidirectional, on both sides. *)

Copying(r, d) == pc[r] = "copy" /\ copy[r][d] # "ended"
Reading(r, d) == /\ pc[r] = "copy" /\ copy[r][d] = "copying"
                 /\ Len(buffer[r][d]) < BufferSize
Source(r, d) == pipe[From(r, d)][d]
Target(r, d) == pipe[To(r, d)][d]

(* Mutant: a new frame is read while there is a rest of the last one. *)
ReadOverPending(r, d) ==
  /\ Reading(r, d)
  /\ LET p == Source(r, d) IN
     \E room \in 1 .. BufferSize - Len(buffer[r][d]) :
       /\ p.data # <<>>
       /\ buffer' = [buffer EXCEPT ![r][d] = @ \o First(Head(p.data), room)]
       /\ LET rest == Rest(Head(p.data), room) IN
          IF Framed(From(r, d))
          THEN /\ pending' = [pending EXCEPT ![r] = rest]
               /\ pipe' = [pipe EXCEPT ![From(r, d)][d].data = Tail(@)]
          ELSE /\ pipe' = [pipe EXCEPT ![From(r, d)][d].data = Stream(rest)]
               /\ UNCHANGED pending
  /\ NoFault
  /\ UNCHANGED <<kind, pc, inVars, copy, endVars, reached>>

(* poll_read: `room` bytes of the buffer are free to read into.  Of an h2  *)
(* frame that is longer the rest is kept, and read first the next time.    *)
Read(r, d) ==
  /\ Reading(r, d)
  /\ LET p == Source(r, d) IN
     \E room \in 1 .. BufferSize - Len(buffer[r][d]) :
       \/ /\ From(r, d) = "tunnel" /\ pending[r] # <<>>
          /\ buffer' = [buffer EXCEPT ![r][d] = @ \o First(pending[r], room)]
          /\ pending' = [pending EXCEPT ![r] = Rest(@, room)]
          /\ UNCHANGED pipe
       \/ /\ From(r, d) = "tunnel" => pending[r] = <<>>
          /\ p.data # <<>>
          /\ buffer' = [buffer EXCEPT ![r][d] = @ \o First(Head(p.data), room)]
          /\ LET rest == Rest(Head(p.data), room) IN
             IF Framed(From(r, d))
             THEN /\ pending' = [pending EXCEPT ![r] = rest]
                  /\ pipe' = [pipe EXCEPT ![From(r, d)][d].data = Tail(@)]
             ELSE /\ pipe' = [pipe EXCEPT ![From(r, d)][d].data = Stream(rest)]
                  /\ UNCHANGED pending
  /\ NoFault
  /\ UNCHANGED <<kind, pc, inVars, copy, endVars, reached>>

AllRead(r, d) ==
  /\ Source(r, d).data = <<>>
  /\ From(r, d) = "tunnel" => pending[r] = <<>>

(* Mutant: an h2 stream without more data leaves its reader pending. *)
ReadEndOfSocket(r, d) ==
  /\ Reading(r, d) /\ From(r, d) # "tunnel"
  /\ AllRead(r, d) /\ Source(r, d).end = "fin"
  /\ copy' = [copy EXCEPT ![r][d] = "flushing"]
  /\ NoFault
  /\ UNCHANGED <<kind, pipe, pc, inVars, buffer, pending, endVars, reached>>

(* Nothing read: the end, and what is in the buffer is still to write. *)
ReadEnd(r, d) ==
  /\ Reading(r, d)
  /\ AllRead(r, d) /\ Source(r, d).end = "fin"
  /\ copy' = [copy EXCEPT ![r][d] = "flushing"]
  /\ NoFault
  /\ UNCHANGED <<kind, pipe, pc, inVars, buffer, pending, endVars, reached>>

(* poll_write: as much as the connection, or the h2 window, takes.  It is  *)
(* what writes the sniffed bytes, too, before copying begins.              *)
Writing(r, d) ==
  /\ Copying(r, d) \/ (pc[r] = "connect" /\ r = "in")
  /\ buffer[r][d] # <<>>

CanWrite(p) == ~ p.deaf /\ p.end = "open"

Write(r, d) ==
  /\ Writing(r, d) /\ CanWrite(Target(r, d))
  /\ LET p == Target(r, d)
         n == Room(To(r, d), p)
     IN /\ n > 0
        /\ pipe' = [pipe EXCEPT ![To(r, d)][d] =
                       Put(To(r, d), p, First(buffer[r][d], n))]
        /\ buffer' = [buffer EXCEPT ![r][d] = Rest(@, n)]
  /\ NoFault
  /\ UNCHANGED <<kind, pc, inVars, copy, pending, endVars, reached>>

(* shutdown after the last byte; its error is ignored. *)
Shutdown(r, d) ==
  /\ Copying(r, d) /\ copy[r][d] = "flushing" /\ buffer[r][d] = <<>>
  /\ pipe' = [pipe EXCEPT ![To(r, d)][d] = Finished(@)]
  /\ copy' = [copy EXCEPT ![r][d] = "ended"]
  /\ NoFault
  /\ UNCHANGED <<kind, pc, inVars, buffer, pending, endVars, reached>>

(* Mutant: join! instead of try_join!, and no shutdown after an error. *)
FailQuietly(r, d) ==
  /\ \/ Reading(r, d) /\ Source(r, d).end = "reset" /\ AllRead(r, d)
     \/ Writing(r, d) /\ ~ CanWrite(Target(r, d))
  /\ copy' = [copy EXCEPT ![r][d] = "ended"]
  /\ buffer' = [buffer EXCEPT ![r][d] = <<>>]
  /\ NoFault
  /\ UNCHANGED <<kind, pipe, pc, inVars, pending, endVars, reached>>

(* A direction fails: its writer is shut down as after the last byte,      *)
(* try_join! cancels the other direction, and all four halves are dropped. *)
ReadFails(r, d) ==
  /\ Reading(r, d)
  /\ Source(r, d).end = "reset"
  /\ From(r, d) = "tunnel" => AllRead(r, d)
WriteFails(r, d) == Writing(r, d) /\ ~ CanWrite(Target(r, d))

Fail(r, d) ==
  /\ ReadFails(r, d) \/ WriteFails(r, d)
  /\ TaskEnds(r, IF pc[r] = "connect" THEN pipe
                 ELSE [pipe EXCEPT ![To(r, d)][d] = Finished(@)])
  /\ pc' = [pc EXCEPT ![r] = "done"]
  /\ NoFault
  /\ UNCHANGED <<kind, inVars, endVars, reached>>

(* Mutant: select! instead of try_join!. *)
DoneWhenOneEnds(r) ==
  /\ pc[r] = "copy" /\ \E d \in Directions : copy[r][d] = "ended"
  /\ TaskEnds(r, pipe)
  /\ pc' = [pc EXCEPT ![r] = "done"]
  /\ NoFault
  /\ UNCHANGED <<kind, inVars, endVars, reached>>

(* Both directions are over. *)
Done(r) ==
  /\ pc[r] = "copy" /\ \A d \in Directions : copy[r][d] = "ended"
  /\ TaskEnds(r, pipe)
  /\ pc' = [pc EXCEPT ![r] = "done"]
  /\ NoFault
  /\ UNCHANGED <<kind, inVars, endVars, reached>>

-----------------------------------------------------------------------------
(* The tunnel's connection is lost, with what had not arrived. *)
Lost(p) ==
  {[p EXCEPT !.data = SubSeq(@, 1, n), !.end = "reset"] :
     n \in 0 .. Len(p.data)}
  \cup {q \in {p} : p.end = "fin"}

TunnelLost ==
  /\ pc["out"] # "none" /\ pc # Relay("done")
  /\ Fault
  /\ \E up \in Lost(pipe["tunnel"]["up"]),
        down \in Lost(pipe["tunnel"]["down"]) :
       pipe' = [pipe EXCEPT !["tunnel"]["up"] = up, !["tunnel"]["down"] = down]
  /\ UNCHANGED <<kind, pc, inVars, copyVars, endVars, reached>>

-----------------------------------------------------------------------------
InTask == Sniff \/ OpenStream \/ ConnectDirect \/ InConnected
OutTask == OutAccept \/ OutConnected
Copy(r, d) == \/ Read(r, d) \/ ReadEnd(r, d) \/ Write(r, d)
              \/ Shutdown(r, d) \/ Fail(r, d)

Next ==
  \/ \E e \in Ends : Send(e) \/ Finish(e) \/ Receive(e) \/ Leave(e)
  \/ InTask \/ Reject
  \/ OutTask \/ OutConnectFails
  \/ \E r \in Relays : Done(r) \/ \E d \in Directions : Copy(r, d)
  \/ TunnelLost

Spec == Init /\ [][Next]_vars

(* The tasks are polled, both directions of a copy are, and an end that is *)
(* there reads.  Nobody has to send, to finish or to leave.                *)
Fairness ==
  /\ WF_vars(InTask) /\ WF_vars(OutTask)
  /\ \A r \in Relays : /\ WF_vars(Done(r))
                        /\ \A d \in Directions : WF_vars(Copy(r, d))
  /\ \A e \in Ends : WF_vars(Receive(e))

FairSpec == Spec /\ Fairness

-----------------------------------------------------------------------------
(* Properties. *)

Sending(e) == pipe[e][Outwards(e)].end = "open"

(* Both directions are pipes: whatever was sniffed, split into frames,     *)
(* kept as pending or left in a buffer at the end, the bytes arrive in     *)
(* order and once, and the end behind them.  A client that waits for the   *)
(* server's greeting gets it although it sends nothing to sniff, and each  *)
(* direction goes on after the other has ended.                            *)
Up == INSTANCE BytePipe WITH
  MaxBytes <- MaxBytes["client"], sent <- sent["client"],
  finished <- ~ Sending("client"), received <- received["server"],
  ended <- saw["server"] # "nothing", broken <- faults > 0
Down == INSTANCE BytePipe WITH
  MaxBytes <- MaxBytes["server"], sent <- sent["server"],
  finished <- ~ Sending("server"), received <- received["client"],
  ended <- saw["client"] # "nothing", broken <- faults > 0
UpPipe == Up!Spec
DownPipe == Down!Spec

(* When something between them fails, or one of them leaves, no end stays  *)
(* behind on a connection that is gone: it sees an end, even if it only    *)
(* listens.                                                                *)
EndsNotice ==
  \A e \in Ends :
    (faults > 0 /\ Connected(e)) ~> (saw[e] # "nothing" \/ Left(e))

(* When neither end sends any more, whichever way it stopped, the relays   *)
(* end their tasks: a stream left behind would keep a retired tunnel from  *)
(* closing.                                                                *)
RelaysEnd ==
  (\A e \in Ends : Connected(e) /\ ~ Sending(e))
    ~> (\A r \in Relays : pc[r] \in {"none", "done"})
=============================================================================
