-------------------------- MODULE OutTunnelProofs --------------------------
(***************************************************************************)
(* Proofs about OutTunnel, for any set of streams and any number of        *)
(* faults: its type invariant, and that one stream's failure ends the      *)
(* connection of the others in no case but the one StreamsIndependent      *)
(* names.                                                                  *)
(***************************************************************************)
EXTENDS OutTunnel, TLAPS

(* A stream waits, is read or has a task only after it was opened, and is  *)
(* in one of these states at a time; a stream that waits, or whose head is *)
(* read, has no task yet.                                                  *)
StreamsInPlace ==
  /\ \A i \in DOMAIN arrived : stream[arrived[i]] # "new"
  /\ \A s \in Streams : stream[s] = "new" => task[s] = "none"
  /\ pc = "head" =>
       /\ kind = "quic"
       /\ stream[current] # "new" /\ task[current] = "none"
       /\ \A i \in DOMAIN arrived : arrived[i] # current

IInv == TypeOK /\ StreamsInPlace /\ StreamsIndependent

-----------------------------------------------------------------------------
(* What happens to the queue. *)

LEMMA DequeuedQueue ==
  ASSUME NEW S, NEW q \in Seq(S), IsInjective(q), q # <<>>
  PROVE  /\ Head(q) \in S /\ Tail(q) \in Seq(S) /\ IsInjective(Tail(q))
         /\ 1 \in DOMAIN q /\ q[1] = Head(q)
         /\ \A i \in DOMAIN Tail(q) :
              /\ i + 1 \in DOMAIN q
              /\ Tail(q)[i] = q[i + 1] /\ Tail(q)[i] # Head(q)
  BY DEF IsInjective

LEMMA EnqueuedQueue ==
  ASSUME NEW S, NEW q \in Seq(S), IsInjective(q), NEW s \in S,
         \A i \in DOMAIN q : q[i] # s
  PROVE  /\ Append(q, s) \in Seq(S) /\ IsInjective(Append(q, s))
         /\ \A i \in DOMAIN Append(q, s) :
              \/ i \in DOMAIN q /\ Append(q, s)[i] = q[i]
              \/ Append(q, s)[i] = s
  BY DEF IsInjective

-----------------------------------------------------------------------------
USE OutTunnelAssumption

LEMMA InitIInv == Init => IInv
<1> SUFFICES ASSUME Init PROVE IInv
  OBVIOUS
<1>1. arrived \in Seq(Streams) /\ DOMAIN arrived = {}
  BY DEF Init
<1>2. TypeOK
  <2>1. faults \in 0 .. MaxFaults
    BY DEF Init
  <2> QED  BY <1>1, <2>1 DEF Init, TypeOK, IsInjective
<1>3. StreamsInPlace /\ StreamsIndependent
  BY <1>1 DEF Init, StreamsInPlace, StreamsIndependent
<1> QED  BY <1>2, <1>3 DEF IInv

LEMMA FaultsBounded ==
  ASSUME faults \in 0 .. MaxFaults, NoFault \/ Fault
  PROVE  faults' \in 0 .. MaxFaults
BY DEF NoFault, Fault

-----------------------------------------------------------------------------
(* The IN. *)

LEMMA OpenIInv == ASSUME IInv, NEW s \in Streams, Open(s) PROVE IInv'
<1> USE DEF IInv
<1>1. \A i \in DOMAIN arrived : arrived[i] # s
  BY DEF StreamsInPlace, Open
<1>2. /\ arrived' \in Seq(Streams) /\ IsInjective(arrived')
      /\ \A i \in DOMAIN arrived' :
           \/ i \in DOMAIN arrived /\ arrived'[i] = arrived[i]
           \/ arrived'[i] = s
  BY <1>1, EnqueuedQueue DEF Open, TypeOK
<1>3. task[s] = "none" /\ stream[s] = "new" /\ UNCHANGED <<task, loopVars>>
  BY DEF StreamsInPlace, Open
<1>4. \A i \in DOMAIN arrived : arrived[i] \in Streams
  BY DEF TypeOK
<1>5. stream' = [stream EXCEPT ![s] = "open"]
  BY DEF Open
<1>6. TypeOK'
  <2>1. \A i \in DOMAIN arrived' : task'[arrived'[i]] = "none"
    BY <1>2, <1>3 DEF TypeOK
  <2>2. head' \in [Streams -> {"none", "written", "whole", "cut"}]
    BY DEF Open, TypeOK
  <2>3. stream' \in [Streams -> {"new", "open", "dropped"}]
    BY <1>5 DEF TypeOK
  <2> QED  BY <1>2, <1>3, <2>1, <2>2, <2>3, FaultsBounded
             DEF Open, TypeOK, loopVars
<1>7. StreamsInPlace'
  <2>1. \A i \in DOMAIN arrived' : stream'[arrived'[i]] # "new"
    BY <1>2, <1>4, <1>5 DEF StreamsInPlace, TypeOK
  <2>2. pc = "head" => current # s
    BY <1>3 DEF StreamsInPlace
  <2> QED  BY <1>2, <1>3, <1>5, <2>1, <2>2
             DEF StreamsInPlace, Open, TypeOK, loopVars
<1>8. StreamsIndependent'
  BY DEF Open, StreamsIndependent
<1> QED  BY <1>6, <1>7, <1>8

LEMMA InIInv ==
  ASSUME IInv, NEW s \in Streams,
         WriteHead(s) \/ HeadTooLong(s) \/ HeadArrives(s) \/ DropStream(s)
  PROVE  IInv'
<1> USE DEF IInv
<1>1. /\ connection = "up" /\ (NoFault \/ Fault)
      /\ UNCHANGED <<kind, connection, loopVars, arrived, task, lost>>
  BY DEF WriteHead, HeadTooLong, HeadArrives, DropStream
<1>2. head' \in [Streams -> {"none", "written", "whole", "cut"}]
  BY DEF WriteHead, HeadTooLong, HeadArrives, DropStream, TypeOK
<1>3. stream' = stream \/ (stream[s] = "open"
                            /\ stream' = [stream EXCEPT ![s] = "dropped"])
  BY DEF WriteHead, HeadTooLong, HeadArrives, DropStream
<1>4. TypeOK'
  BY <1>1, <1>2, <1>3, FaultsBounded DEF TypeOK, loopVars
<1>5. StreamsInPlace'
  BY <1>1, <1>3 DEF TypeOK, StreamsInPlace, loopVars
<1>6. StreamsIndependent'
  BY <1>1 DEF StreamsIndependent
<1> QED  BY <1>4, <1>5, <1>6

LEMMA ConnectionLostIInv == ASSUME IInv, ConnectionLost PROVE IInv'
<1> USE DEF IInv, ConnectionLost
<1>1. TypeOK'
  BY FaultsBounded DEF TypeOK, loopVars
<1>2. StreamsInPlace' /\ StreamsIndependent'
  BY DEF StreamsInPlace, StreamsIndependent, loopVars
<1> QED  BY <1>1, <1>2

-----------------------------------------------------------------------------
(* OUT. *)

(* The head of the queue is taken from it. *)
LEMMA HeadArrived ==
  ASSUME IInv, arrived # <<>>, arrived' = Tail(arrived)
  PROVE  /\ Head(arrived) \in Streams /\ stream[Head(arrived)] # "new"
         /\ task[Head(arrived)] = "none"
         /\ arrived' \in Seq(Streams) /\ IsInjective(arrived')
         /\ \A i \in DOMAIN arrived' :
              /\ arrived'[i] \in Streams /\ arrived'[i] # Head(arrived)
              /\ task[arrived'[i]] = "none" /\ stream[arrived'[i]] # "new"
<1>1. /\ arrived \in Seq(Streams) /\ IsInjective(arrived)
      /\ \A i \in DOMAIN arrived : task[arrived[i]] = "none"
      /\ \A i \in DOMAIN arrived : stream[arrived[i]] # "new"
  BY DEF IInv, TypeOK, StreamsInPlace
<1>2. /\ Head(arrived) \in Streams /\ Tail(arrived) \in Seq(Streams)
      /\ IsInjective(Tail(arrived))
      /\ 1 \in DOMAIN arrived /\ arrived[1] = Head(arrived)
      /\ \A i \in DOMAIN Tail(arrived) :
           /\ i + 1 \in DOMAIN arrived
           /\ Tail(arrived)[i] = arrived[i + 1]
           /\ Tail(arrived)[i] # Head(arrived)
  BY <1>1, DequeuedQueue
<1>3. \A i \in DOMAIN Tail(arrived) : Tail(arrived)[i] \in Streams
  BY <1>2
<1> QED  BY <1>1, <1>2, <1>3

(* A stream out of the queue gets its task. *)
LEMMA AcceptedIInv ==
  ASSUME IInv, NEW s \in Streams, Accepted(s), NoFault,
         stream[s] # "new", connection = "up" \/ kind = "quic",
         arrived' \in Seq(Streams), IsInjective(arrived'),
         \A i \in DOMAIN arrived' :
           /\ arrived'[i] \in Streams /\ arrived'[i] # s
           /\ task[arrived'[i]] = "none" /\ stream[arrived'[i]] # "new",
         UNCHANGED <<kind, head, stream, lost>>
  PROVE  IInv'
<1> USE DEF IInv, Accepted
<1>1. task' \in [Streams -> {"none", "running", "over"}]
      /\ \A t \in Streams \ {s} : task'[t] = task[t]
  BY DEF TypeOK
<1>2. TypeOK'
  BY <1>1, FaultsBounded DEF TypeOK
<1>3. StreamsInPlace'
  BY <1>1 DEF StreamsInPlace, TypeOK
<1>4. StreamsIndependent'
  BY DEF StreamsIndependent
<1> QED  BY <1>2, <1>3, <1>4

(* accept has failed: for h2 with a request dropped too early, or with the *)
(* connection over, for QUIC with any stream or with the connection.       *)
LEMMA AcceptFailedIInv ==
  ASSUME IInv, AcceptFailed, NoFault,
         \/ kind = "quic"
         \/ connection = "over"
         \/ \E s \in Streams : stream[s] = "dropped" /\ task[s] = "none",
         arrived' \in Seq(Streams), IsInjective(arrived'),
         \A i \in DOMAIN arrived' :
           task[arrived'[i]] = "none" /\ stream[arrived'[i]] # "new",
         UNCHANGED <<kind, head, stream, lost>>
  PROVE  IInv'
<1> USE DEF IInv, AcceptFailed
<1>1. TypeOK'
  BY FaultsBounded DEF TypeOK
<1>2. StreamsInPlace'
  BY DEF StreamsInPlace
<1>3. StreamsIndependent'
  BY DEF StreamsIndependent, IsClosed, TypeOK
<1> QED  BY <1>1, <1>2, <1>3

LEMMA AcceptRequestIInv == ASSUME IInv, AcceptRequest PROVE IInv'
<1> USE DEF AcceptRequest
<1>1. CASE stream[Head(arrived)] = "dropped"
  BY <1>1, HeadArrived, AcceptFailedIInv
<1>2. CASE stream[Head(arrived)] # "dropped"
  BY <1>2, HeadArrived, AcceptedIInv
<1> QED  BY <1>1, <1>2

LEMMA AcceptStreamIInv == ASSUME IInv, AcceptStream PROVE IInv'
<1> USE DEF IInv, AcceptStream
<1>1. TypeOK'
  BY HeadArrived, FaultsBounded DEF TypeOK
<1>2. StreamsInPlace'
  BY HeadArrived DEF StreamsInPlace
<1>3. StreamsIndependent'
  BY DEF StreamsIndependent
<1> QED  BY <1>1, <1>2, <1>3

LEMMA ReadHeadIInv == ASSUME IInv, ReadHead PROVE IInv'
<1>1. /\ kind = "quic" /\ current \in Streams /\ stream[current] # "new"
      /\ NoFault /\ UNCHANGED <<kind, arrived, head, stream, lost>>
      /\ arrived \in Seq(Streams) /\ IsInjective(arrived)
      /\ \A i \in DOMAIN arrived :
           /\ arrived[i] \in Streams /\ arrived[i] # current
           /\ task[arrived[i]] = "none" /\ stream[arrived[i]] # "new"
  BY DEF ReadHead, IInv, TypeOK, StreamsInPlace
<1>2. CASE Accepted(current)
  BY <1>1, <1>2, AcceptedIInv
<1>3. CASE AcceptFailed
  BY <1>1, <1>3, AcceptFailedIInv
<1> QED  BY <1>2, <1>3 DEF ReadHead

LEMMA AcceptErrorIInv == ASSUME IInv, AcceptError PROVE IInv'
<1>1. /\ arrived' \in Seq(Streams) /\ IsInjective(arrived')
      /\ \A i \in DOMAIN arrived' :
           task[arrived'[i]] = "none" /\ stream[arrived'[i]] # "new"
  BY DEF AcceptError, IInv, TypeOK, StreamsInPlace
<1> QED  BY <1>1, AcceptFailedIInv DEF AcceptError

LEMMA StreamDoneIInv ==
  ASSUME IInv, NEW s \in Streams, StreamDone(s) PROVE IInv'
<1> USE DEF IInv, StreamDone
<1>1. \A t \in Streams : task[t] = "none" => task'[t] = "none"
  BY DEF TypeOK
<1>2. \A t \in Streams : task'[t] = "none" => task[t] = "none"
  BY DEF TypeOK
<1>3. \A i \in DOMAIN arrived : arrived[i] \in Streams
  BY DEF TypeOK
<1>4. TypeOK'
  BY <1>1, <1>3, FaultsBounded DEF TypeOK, loopVars
<1>5. StreamsInPlace'
  BY <1>1, <1>2, <1>3 DEF StreamsInPlace, TypeOK, loopVars
<1>6. StreamsIndependent'
  BY <1>1 DEF StreamsIndependent
<1> QED  BY <1>4, <1>5, <1>6

LEMMA NextIInv == IInv /\ [Next]_vars => IInv'
<1> SUFFICES ASSUME IInv, [Next]_vars PROVE IInv'
  OBVIOUS
<1>1. CASE UNCHANGED vars
  BY <1>1 DEF vars, loopVars, IInv, TypeOK, StreamsInPlace, StreamsIndependent
<1>2. CASE \E s \in Streams :
             Open(s) \/ InTask(s) \/ HeadTooLong(s) \/ DropStream(s) \/ StreamDone(s)
  BY <1>2, OpenIInv, InIInv, StreamDoneIInv DEF InTask
<1>3. CASE ConnectionLost \/ HandleTunnel
  BY <1>3, ConnectionLostIInv, AcceptRequestIInv, AcceptStreamIInv,
     ReadHeadIInv, AcceptErrorIInv DEF HandleTunnel
<1> QED  BY <1>1, <1>2, <1>3 DEF Next

-----------------------------------------------------------------------------
(* Every stream is in one place: the queue, the loop's hands, or a task of *)
(* its own.                                                                *)
THEOREM Invariance == Spec => []IInv
BY InitIInv, NextIInv, PTL DEF Spec

(* Type correctness: in particular a stream has no task as long as it      *)
(* waits to be accepted.                                                   *)
THEOREM TypeCorrect == Spec => []TypeOK
<1>1. IInv => TypeOK
  BY DEF IInv
<1> QED  BY Invariance, <1>1, PTL

(* However many streams the IN opens, and whatever becomes of each of them *)
(* and in which order, the OUT ends a connection that is up only for an h2 *)
(* stream dropped before it was accepted.                                  *)
THEOREM FailuresIsolated == Spec => []StreamsIndependent
<1>1. IInv => StreamsIndependent
  BY DEF IInv
<1> QED  BY Invariance, <1>1, PTL
=============================================================================
