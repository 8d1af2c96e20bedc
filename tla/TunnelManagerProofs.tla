------------------------ MODULE TunnelManagerProofs ------------------------
(***************************************************************************)
(* Proofs about TunnelManager, for every number of loops, tunnels,         *)
(* connections and permits.  First the types and the agreement of the      *)
(* maps; then, with an invariant on top of that one, what it promises      *)
(* beyond its maps: no permit and no stream is lost or counted twice, a    *)
(* tunnel in use keeps its sender, and the whole implements TunnelPool.    *)
(***************************************************************************)
EXTENDS TunnelManager, FiniteSetTheorems, TLAPS

(* A tunnel is with its loop from accept until its closer is spawned. *)
LoopsOwnTunnels ==
  /\ \A l \in Loops :
       /\ loop_pc[l] \in {"set_permit", "lock_map", "registering"}
            <=> loop_tunnel[l] # None
       /\ loop_tunnel[l] # None =>
            /\ tunnel_loop[loop_tunnel[l]] = l
            /\ closer_pc[loop_tunnel[l]] = "none"
  /\ \A t \in Tunnels : closer_pc[t] # "none" => tunnel_loop[t] \in Loops

(* The two mutexes and the progress of the process that owns them. *)
LocksOK ==
  /\ \A p \in Procs : section[p] # "out" <=> tunnel_map_lock = p
  /\ \A p \in Procs :
       label_lock = p <=> section[p] \in {"router", "collect", "write", "leave"}
  /\ \A l \in Loops : loop_pc[l] = "registering" <=> section[l] # "out"
  /\ \A t \in Tunnels : closer_pc[t] = "unregistering" <=> section[t] # "out"

ConnsOK == \A c \in Conns : conn_pc[c] # "idle" => conn_tunnel[c] \in Tunnels

(* A tunnel counts in the shared maps from some step of its registration   *)
(* to the same step of its removal.                                        *)
Counts(t, before) ==
  \/ closer_pc[t] \in {"spawned", "waiting", "closed"}
  \/ closer_pc[t] = "unregistering" /\ section[t] \in before
  \/ \E l \in Loops : /\ loop_tunnel[l] = t
                      /\ section[l] \in SectionStates \ (before \cup {"out"})

InMap == {t \in Tunnels : Counts(t, {})}
InLabels == {t \in Tunnels : Counts(t, {"labels"})}
InRouter == {t \in Tunnels : Counts(t, {"labels", "router"})}
InCache == {t \in Tunnels : Counts(t, {"labels", "router", "collect", "write"})}

MapsOK ==
  /\ tunnel_map = InMap
  /\ label_to_tunnels_map =
       [x \in Labels |-> {t \in InLabels : x \in LabelsOf(t)}]
  /\ out_rules_map = [o \in Outs |-> {t \in InRouter : Out(t) = o}]
  /\ \A p \in Procs :
       section[p] = "write" => collected[p] = {Out(t) : t \in InRouter}
  /\ rules_groups_cache = {Out(t) : t \in InCache}

IInv == TypeOK /\ LoopsOwnTunnels /\ LocksOK /\ ConnsOK /\ MapsOK
-----------------------------------------------------------------------------

USE ConstantsAssumption
    DEF Procs, LoopGoes, CloserGoes, ConnectionGoes, SectionGoes, ConnGoes,
        LoopStates, CloserStates, SectionStates, ConnStates,
        loopVars, permitVars, taskVars, streamVars, lockVars, mapVars, connVars

(* Taking or dropping a permit leaves semaphores and permits well typed. *)
PermitTypes ==
  permits \in [Loops -> Nat] /\ active_permit \in [Tunnels -> 0 .. MaxGeneration]

LEMMA TakePermitType ==
  ASSUME PermitTypes, NEW t, TakePermit(t)
  PROVE  PermitTypes'
<1>1. permits' = permits
        \/ permits' = [permits EXCEPT ![tunnel_loop[t]] = @ + 1]
  BY DEF TakePermit, Returned
<1>2. permits' \in [Loops -> Nat]
  BY <1>1 DEF PermitTypes
<1>3. active_permit' \in [Tunnels -> 0 .. MaxGeneration]
  <2>1. active_permit' = [active_permit EXCEPT ![t] = 0]  BY DEF TakePermit
  <2>2. 0 \in 0 .. MaxGeneration  OBVIOUS
  <2> QED  BY <2>1, <2>2 DEF PermitTypes
<1> QED  BY <1>2, <1>3 DEF PermitTypes

LEMMA DropArcType ==
  ASSUME PermitTypes, NEW t, NEW last, DropArc(t, last)
  PROVE  PermitTypes'
BY TakePermitType DEF DropArc, PermitTypes

(* The steps of a loop keep every variable in its type. *)
LEMMA LoopStepType ==
  ASSUME TypeOK, LoopsOwnTunnels, LocksOK, ConnsOK, NEW l \in Loops, LoopStep(l)
  PROVE  TypeOK'
<1>1. CASE AcceptOut(l)
  BY <1>1 DEF TypeOK, AcceptOut
<1>2. CASE AcquirePermit(l)
  BY <1>2 DEF TypeOK, AcquirePermit, PermitFree
<1>3. CASE \E t \in Tunnels : AcceptTunnel(l, t)
  BY <1>3 DEF TypeOK, AcceptTunnel
<1>4. CASE AcceptNone(l)
  BY <1>4 DEF TypeOK, AcceptNone
<1>5. CASE AcceptError(l)
  BY <1>5 DEF TypeOK, AcceptError
<1>6. CASE WakeUp(l)
  BY <1>6 DEF TypeOK, WakeUp
<1>7. CASE SetActivePermit(l)
  BY <1>7 DEF TypeOK, SetActivePermit
<1>8. CASE LockAndInsert(l)
  BY <1>8 DEF TypeOK, LockAndInsert, LoopsOwnTunnels, LockTunnelMap
<1>9. CASE RegisterTunnel(l)
  BY <1>9 DEF TypeOK, RegisterTunnel, LoopsOwnTunnels, LocksOK, UpdateOutRules
<1>10. CASE FinishRegister(l)
  BY <1>10 DEF TypeOK, FinishRegister, Unlock
<1> QED  BY <1>1, <1>2, <1>3, <1>4, <1>5, <1>6, <1>7, <1>8, <1>9, <1>10 DEF LoopStep

(* The steps of a tunnel keep every variable in its type. *)
LEMMA TunnelStepType ==
  ASSUME TypeOK, LoopsOwnTunnels, LocksOK, ConnsOK, NEW t \in Tunnels, TunnelStep(t)
  PROVE  TypeOK'
<1>1. CASE LoseConnection(t)
  BY <1>1 DEF TypeOK, LoseConnection
<1>2. CASE ConnectionIdle(t)
  BY <1>2 DEF TypeOK, ConnectionIdle, LoseConnection
<1>3. CASE TakePermitOnEnd(t)
  BY <1>3, TakePermitType DEF TypeOK, TakePermitOnEnd, PermitTypes
<1>4. CASE NotifyClosed(t)
  BY <1>4 DEF TypeOK, NotifyClosed, Woken
<1>5. CASE CloserWait(t)
  BY <1>5 DEF TypeOK, CloserWait
<1>6. CASE QuicClosed(t)
  BY <1>6 DEF TypeOK, QuicClosed
<1>7. CASE LockAndRemove(t)
  BY <1>7 DEF TypeOK, LockAndRemove, LockTunnelMap
<1>8. CASE UnregisterTunnel(t)
  BY <1>8 DEF TypeOK, UnregisterTunnel, UpdateOutRules
<1>9. CASE FinishClose(t)
  BY <1>9, DropArcType DEF TypeOK, FinishClose, Unlock, PermitTypes
<1> QED  BY <1>1, <1>2, <1>3, <1>4, <1>5, <1>6, <1>7, <1>8, <1>9 DEF TunnelStep

(* The steps of a section keep every variable in its type. *)
LEMMA SectionStepType ==
  ASSUME TypeOK, LoopsOwnTunnels, LocksOK, ConnsOK, NEW p \in Procs, SectionStep(p)
  PROVE  TypeOK'
<1>1. CASE UpdateLabelMap(p)
  BY <1>1 DEF TypeOK, UpdateLabelMap, Relabelled
<1>2. CASE CollectRules(p)
  BY <1>2 DEF TypeOK, CollectRules
<1>3. CASE WriteCache(p)
  BY <1>3 DEF TypeOK, WriteCache
<1> QED  BY <1>1, <1>2, <1>3 DEF SectionStep

(* The steps of a conn keep every variable in its type. *)
LEMMA ConnStepType ==
  ASSUME TypeOK, LoopsOwnTunnels, LocksOK, ConnsOK, NEW c \in Conns, ConnStep(c)
  PROVE  TypeOK'
<1>1. CASE \E x \in Labels, t \in Tunnels : SelectTunnel(c, x, t)
  BY <1>1 DEF TypeOK, SelectTunnel
<1>2. CASE CountLifetime(c)
  <2>1. PermitTypes'
    BY <1>2, TakePermitType DEF TypeOK, CountLifetime, PermitTypes
  <2>2. lifetime_streams' \in [Tunnels -> Nat]
    <3>1. lifetime_streams' =
            [lifetime_streams EXCEPT ![conn_tunnel[c]] = @ + 1]
      BY <1>2 DEF CountLifetime
    <3>2. conn_tunnel[c] \in Tunnels
      BY <1>2 DEF ConnsOK, CountLifetime
    <3> QED  BY <3>1, <3>2 DEF TypeOK
  <2> QED  BY <1>2, <2>1, <2>2 DEF TypeOK, CountLifetime, PermitTypes
<1>3. CASE SendRequest(c)
  BY <1>3 DEF TypeOK, SendRequest
<1>4. CASE CountStream(c)
  BY <1>4 DEF TypeOK, CountStream, ConnsOK
<1>5. CASE OpenQuicStream(c)
  BY <1>5 DEF TypeOK, OpenQuicStream
<1>6. CASE ConnectError(c)
  BY <1>6, DropArcType DEF TypeOK, ConnectError, LeaveTunnel, DropConnArc, PermitTypes
<1>7. CASE LeaveQuic(c)
  BY <1>7, DropArcType DEF TypeOK, LeaveQuic, LeaveTunnel, DropConnArc, PermitTypes
<1>8. CASE EndStream(c)
  BY <1>8, DropArcType DEF TypeOK, EndStream, DropConnArc, PermitTypes
<1>9. CASE CountDown(c)
  BY <1>9 DEF TypeOK, CountDown, ConnsOK
<1>10. CASE CloseIfRetired(c)
  <2>1. request_sender' \in [Tunnels -> BOOLEAN]
    BY <1>10 DEF TypeOK, CloseIfRetired
  <2>2. /\ remaining' \in [Conns -> Int]
        /\ conn_tunnel' \in [Conns -> Tunnels \cup {None}]
    BY <1>10 DEF TypeOK, CloseIfRetired
  <2> QED  BY <1>10, <2>1, <2>2 DEF TypeOK, CloseIfRetired
<1> QED  BY <1>1, <1>2, <1>3, <1>4, <1>5, <1>6, <1>7, <1>8, <1>9, <1>10 DEF ConnStep

-----------------------------------------------------------------------------
(* Control: where tunnels, locks and tasks are. *)

(* Connections touch neither the tasks of a tunnel nor the maps. *)
TaskVars == <<loop_pc, loop_tunnel, tunnel_loop, closer_pc, lockVars, mapVars>>

LEMMA ConnFrame ==
  ASSUME NEW c \in Conns, ConnStep(c)
  PROVE  UNCHANGED TaskVars
BY DEF ConnStep, TaskVars, taskVars, SelectTunnel, CountLifetime, SendRequest,
       CountStream, OpenQuicStream, ConnectError, LeaveQuic, LeaveTunnel,
       EndStream, CountDown, CloseIfRetired

(* The steps of a loop preserve LoopsOwnTunnels. *)
LEMMA LoopStepOwns ==
  ASSUME TypeOK, LoopsOwnTunnels, LocksOK, ConnsOK, NEW l \in Loops, LoopStep(l)
  PROVE  LoopsOwnTunnels'
<1>1. CASE AcceptOut(l)
  BY <1>1 DEF LoopsOwnTunnels, LocksOK, TypeOK, AcceptOut
<1>2. CASE AcquirePermit(l)
  BY <1>2 DEF LoopsOwnTunnels, LocksOK, TypeOK, AcquirePermit
<1>3. CASE \E t \in Tunnels : AcceptTunnel(l, t)
  BY <1>3 DEF LoopsOwnTunnels, LocksOK, TypeOK, AcceptTunnel
<1>4. CASE AcceptNone(l)
  BY <1>4 DEF LoopsOwnTunnels, LocksOK, TypeOK, AcceptNone
<1>5. CASE AcceptError(l)
  BY <1>5 DEF LoopsOwnTunnels, LocksOK, TypeOK, AcceptError
<1>6. CASE WakeUp(l)
  BY <1>6 DEF LoopsOwnTunnels, LocksOK, TypeOK, WakeUp
<1>7. CASE SetActivePermit(l)
  BY <1>7 DEF LoopsOwnTunnels, LocksOK, TypeOK, SetActivePermit
<1>8. CASE LockAndInsert(l)
  BY <1>8 DEF LoopsOwnTunnels, LocksOK, TypeOK, LockAndInsert, LockTunnelMap, MapLockFree
<1>9. CASE RegisterTunnel(l)
  BY <1>9 DEF LoopsOwnTunnels, LocksOK, TypeOK, RegisterTunnel, UpdateOutRules
<1>10. CASE FinishRegister(l)
  BY <1>10 DEF LoopsOwnTunnels, LocksOK, TypeOK, FinishRegister, Unlock
<1> QED  BY <1>1, <1>2, <1>3, <1>4, <1>5, <1>6, <1>7, <1>8, <1>9, <1>10 DEF LoopStep

(* The steps of a tunnel preserve LoopsOwnTunnels. *)
LEMMA TunnelStepOwns ==
  ASSUME TypeOK, LoopsOwnTunnels, LocksOK, ConnsOK, NEW t \in Tunnels, TunnelStep(t)
  PROVE  LoopsOwnTunnels'
<1>1. CASE LoseConnection(t)
  BY <1>1 DEF LoopsOwnTunnels, LocksOK, TypeOK, LoseConnection
<1>2. CASE ConnectionIdle(t)
  BY <1>2 DEF LoopsOwnTunnels, LocksOK, TypeOK, ConnectionIdle, LoseConnection
<1>3. CASE TakePermitOnEnd(t)
  BY <1>3 DEF LoopsOwnTunnels, LocksOK, TypeOK, TakePermitOnEnd
<1>4. CASE NotifyClosed(t)
  BY <1>4 DEF LoopsOwnTunnels, LocksOK, TypeOK, NotifyClosed, Woken
<1>5. CASE CloserWait(t)
  BY <1>5 DEF LoopsOwnTunnels, LocksOK, TypeOK, CloserWait
<1>6. CASE QuicClosed(t)
  BY <1>6 DEF LoopsOwnTunnels, LocksOK, TypeOK, QuicClosed
<1>7. CASE LockAndRemove(t)
  BY <1>7 DEF LoopsOwnTunnels, LocksOK, TypeOK, LockAndRemove, LockTunnelMap, MapLockFree
<1>8. CASE UnregisterTunnel(t)
  BY <1>8 DEF LoopsOwnTunnels, LocksOK, TypeOK, UnregisterTunnel, UpdateOutRules
<1>9. CASE FinishClose(t)
  BY <1>9 DEF LoopsOwnTunnels, LocksOK, TypeOK, FinishClose, Unlock
<1> QED  BY <1>1, <1>2, <1>3, <1>4, <1>5, <1>6, <1>7, <1>8, <1>9 DEF TunnelStep

(* The steps of a section preserve LoopsOwnTunnels. *)
LEMMA SectionStepOwns ==
  ASSUME TypeOK, LoopsOwnTunnels, LocksOK, ConnsOK, NEW p \in Procs, SectionStep(p)
  PROVE  LoopsOwnTunnels'
<1>1. CASE UpdateLabelMap(p)
  BY <1>1 DEF LoopsOwnTunnels, LocksOK, TypeOK, UpdateLabelMap
<1>2. CASE CollectRules(p)
  BY <1>2 DEF LoopsOwnTunnels, LocksOK, TypeOK, CollectRules
<1>3. CASE WriteCache(p)
  BY <1>3 DEF LoopsOwnTunnels, LocksOK, TypeOK, WriteCache
<1> QED  BY <1>1, <1>2, <1>3 DEF SectionStep

(* The steps of a loop preserve LocksOK. *)
LEMMA LoopStepLocks ==
  ASSUME TypeOK, LoopsOwnTunnels, LocksOK, ConnsOK, NEW l \in Loops, LoopStep(l)
  PROVE  LocksOK'
<1>1. CASE AcceptOut(l)
  BY <1>1 DEF LocksOK, TypeOK, AcceptOut
<1>2. CASE AcquirePermit(l)
  BY <1>2 DEF LocksOK, TypeOK, AcquirePermit
<1>3. CASE \E t \in Tunnels : AcceptTunnel(l, t)
  BY <1>3 DEF LocksOK, TypeOK, AcceptTunnel
<1>4. CASE AcceptNone(l)
  BY <1>4 DEF LocksOK, TypeOK, AcceptNone
<1>5. CASE AcceptError(l)
  BY <1>5 DEF LocksOK, TypeOK, AcceptError
<1>6. CASE WakeUp(l)
  BY <1>6 DEF LocksOK, TypeOK, WakeUp
<1>7. CASE SetActivePermit(l)
  BY <1>7 DEF LocksOK, TypeOK, SetActivePermit
<1>8. CASE LockAndInsert(l)
  BY <1>8 DEF LocksOK, TypeOK, LockAndInsert, LockTunnelMap, MapLockFree
<1>9. CASE RegisterTunnel(l)
  BY <1>9 DEF LocksOK, TypeOK, RegisterTunnel, UpdateOutRules
<1>10. CASE FinishRegister(l)
  BY <1>10 DEF LocksOK, TypeOK, FinishRegister, Unlock
<1> QED  BY <1>1, <1>2, <1>3, <1>4, <1>5, <1>6, <1>7, <1>8, <1>9, <1>10 DEF LoopStep

(* The steps of a tunnel preserve LocksOK. *)
LEMMA TunnelStepLocks ==
  ASSUME TypeOK, LoopsOwnTunnels, LocksOK, ConnsOK, NEW t \in Tunnels, TunnelStep(t)
  PROVE  LocksOK'
<1>1. CASE LoseConnection(t)
  BY <1>1 DEF LocksOK, TypeOK, LoseConnection
<1>2. CASE ConnectionIdle(t)
  BY <1>2 DEF LocksOK, TypeOK, ConnectionIdle, LoseConnection
<1>3. CASE TakePermitOnEnd(t)
  BY <1>3 DEF LocksOK, TypeOK, TakePermitOnEnd
<1>4. CASE NotifyClosed(t)
  BY <1>4 DEF LocksOK, TypeOK, NotifyClosed, Woken
<1>5. CASE CloserWait(t)
  BY <1>5 DEF LocksOK, TypeOK, CloserWait
<1>6. CASE QuicClosed(t)
  BY <1>6 DEF LocksOK, TypeOK, QuicClosed
<1>7. CASE LockAndRemove(t)
  BY <1>7 DEF LocksOK, TypeOK, LockAndRemove, LockTunnelMap, MapLockFree
<1>8. CASE UnregisterTunnel(t)
  BY <1>8 DEF LocksOK, TypeOK, UnregisterTunnel, UpdateOutRules
<1>9. CASE FinishClose(t)
  BY <1>9 DEF LocksOK, TypeOK, FinishClose, Unlock
<1> QED  BY <1>1, <1>2, <1>3, <1>4, <1>5, <1>6, <1>7, <1>8, <1>9 DEF TunnelStep

(* The steps of a section preserve LocksOK. *)
LEMMA SectionStepLocks ==
  ASSUME TypeOK, LoopsOwnTunnels, LocksOK, ConnsOK, NEW p \in Procs, SectionStep(p)
  PROVE  LocksOK'
<1>1. CASE UpdateLabelMap(p)
  BY <1>1 DEF LocksOK, TypeOK, UpdateLabelMap
<1>2. CASE CollectRules(p)
  BY <1>2 DEF LocksOK, TypeOK, CollectRules
<1>3. CASE WriteCache(p)
  BY <1>3 DEF LocksOK, TypeOK, WriteCache
<1> QED  BY <1>1, <1>2, <1>3 DEF SectionStep

LEMMA OtherStepConns ==
  ASSUME ConnsOK, UNCHANGED <<conn_pc, conn_tunnel>>
  PROVE  ConnsOK'
BY DEF ConnsOK

(* A connection that is not idle has a tunnel. *)
LEMMA ConnStepConns ==
  ASSUME TypeOK, ConnsOK, NEW c \in Conns, ConnStep(c)
  PROVE  ConnsOK'
<1>1. CASE \E x \in Labels, t \in Tunnels : SelectTunnel(c, x, t)
  BY <1>1 DEF TypeOK, ConnsOK, SelectTunnel
<1>2. CASE CountLifetime(c)
  BY <1>2 DEF TypeOK, ConnsOK, CountLifetime
<1>3. CASE SendRequest(c)
  BY <1>3 DEF TypeOK, ConnsOK, SendRequest
<1>4. CASE CountStream(c)
  BY <1>4 DEF TypeOK, ConnsOK, CountStream
<1>5. CASE OpenQuicStream(c)
  BY <1>5 DEF TypeOK, ConnsOK, OpenQuicStream
<1>6. CASE ConnectError(c)
  BY <1>6 DEF TypeOK, ConnsOK, ConnectError, LeaveTunnel
<1>7. CASE LeaveQuic(c)
  BY <1>7 DEF TypeOK, ConnsOK, LeaveQuic, LeaveTunnel
<1>8. CASE EndStream(c)
  BY <1>8 DEF TypeOK, ConnsOK, EndStream
<1>9. CASE CountDown(c)
  BY <1>9 DEF TypeOK, ConnsOK, CountDown
<1>10. CASE CloseIfRetired(c)
  BY <1>10 DEF TypeOK, ConnsOK, CloseIfRetired
<1> QED  BY <1>1, <1>2, <1>3, <1>4, <1>5, <1>6, <1>7, <1>8, <1>9, <1>10 DEF ConnStep

-----------------------------------------------------------------------------
(* Maps: each step of a critical section moves one tunnel into, or out of, *)
(* one of the four sets, and brings the matching map up to date.           *)

InSets == <<InMap, InLabels, InRouter, InCache>>
Present == {"spawned", "waiting", "closed"}

(* What the maps' invariant depends on, but for the waiting of a closer. *)
MapsVars == <<section, collected, loop_tunnel, tunnel_loop, tunnel_map,
              label_to_tunnels_map, out_rules_map, rules_groups_cache>>

CloserWaits ==
  \A t \in Tunnels : \/ closer_pc'[t] = closer_pc[t]
                     \/ closer_pc[t] \in Present /\ closer_pc'[t] \in Present

LEMMA MapsFrame ==
  ASSUME MapsOK, UNCHANGED MapsVars, CloserWaits
  PROVE  MapsOK'
<1>1. UNCHANGED InSets
  BY DEF MapsVars, InSets, InMap, InLabels, InRouter, InCache, Counts, Present,
         CloserWaits
<1>2. /\ \A t \in Tunnels : Out(t)' = Out(t) /\ LabelsOf(t)' = LabelsOf(t)
      /\ {Out(t) : t \in InCache}' = {Out(t) : t \in InCache}
      /\ {Out(t) : t \in InRouter}' = {Out(t) : t \in InRouter}
  BY <1>1 DEF MapsVars, Out, LabelsOf, InSets
<1> QED
  BY <1>1, <1>2 DEF MapsVars, MapsOK, InSets, InMap, InLabels, InRouter, InCache

LEMMA MapsQuiet ==
  ASSUME MapsOK, UNCHANGED <<MapsVars, closer_pc>>
  PROVE  MapsOK'
<1>1. UNCHANGED MapsVars  OBVIOUS
<1>2. CloserWaits  BY DEF CloserWaits
<1> QED  BY <1>1, <1>2, MapsFrame

(* A process of which the section has not begun counts for nothing. *)
LEMMA AcceptMaps ==
  ASSUME IInv, NEW l \in Loops, NEW t \in Tunnels, AcceptTunnel(l, t)
  PROVE  MapsOK'
<1>1. section[l] = "out" /\ tunnel_loop[t] = None /\ loop_tunnel[l] = None
  BY DEF IInv, LocksOK, LoopsOwnTunnels, AcceptTunnel
<1>2. UNCHANGED <<section, closer_pc, collected, mapVars>>
  BY DEF AcceptTunnel
<1>3. \A k \in Loops : k # l => loop_tunnel'[k] = loop_tunnel[k]
  BY DEF AcceptTunnel, IInv, TypeOK
<1>4. UNCHANGED InSets
  BY <1>1, <1>2, <1>3 DEF InSets, InMap, InLabels, InRouter, InCache, Counts
<1>5. t \notin InLabels \cup InRouter \cup InCache
  BY <1>1 DEF IInv, LoopsOwnTunnels, InLabels, InRouter, InCache, Counts
<1>6. \A u \in Tunnels \ {t} : tunnel_loop'[u] = tunnel_loop[u]
  BY DEF AcceptTunnel, IInv, TypeOK
<1>7. \A u \in InLabels \cup InRouter \cup InCache :
        Out(u)' = Out(u) /\ LabelsOf(u)' = LabelsOf(u)
  BY <1>5, <1>6 DEF Out, LabelsOf, InLabels, InRouter, InCache
<1>8. /\ [x \in Labels |-> {u \in InLabels : x \in LabelsOf(u)}]'
           = [x \in Labels |-> {u \in InLabels : x \in LabelsOf(u)}]
      /\ [o \in Outs |-> {u \in InRouter : Out(u) = o}]'
           = [o \in Outs |-> {u \in InRouter : Out(u) = o}]
      /\ {Out(u) : u \in InRouter}' = {Out(u) : u \in InRouter}
      /\ {Out(u) : u \in InCache}' = {Out(u) : u \in InCache}
  BY <1>4, <1>7 DEF InSets
<1> QED
  BY <1>2, <1>4, <1>8 DEF IInv, MapsOK, InSets

LEMMA InsertMaps ==
  ASSUME IInv, NEW l \in Loops, LockAndInsert(l)
  PROVE  MapsOK'
<1> DEFINE t == loop_tunnel[l]
<1>1. /\ t \in Tunnels /\ section[l] = "out"
      /\ \A k \in Loops : k # l => loop_tunnel[k] # t
  BY DEF IInv, TypeOK, LocksOK, LoopsOwnTunnels, LockAndInsert
<1>2. /\ section' = [section EXCEPT ![l] = "labels"]
      /\ UNCHANGED <<loop_tunnel, tunnel_loop, closer_pc, collected>>
      /\ tunnel_map' = tunnel_map \cup {t}
      /\ UNCHANGED <<label_to_tunnels_map, out_rules_map, rules_groups_cache>>
  BY DEF LockAndInsert, LockTunnelMap
<1>3. \A p \in Procs : p # l => section'[p] = section[p]
  BY <1>2 DEF IInv, TypeOK
<1>4. section'[l] = "labels"
  BY <1>2 DEF IInv, TypeOK
<1>5. InMap' = InMap \cup {t}
  BY <1>1, <1>2, <1>3, <1>4 DEF InMap, Counts
<1>6. InLabels' = InLabels /\ InRouter' = InRouter /\ InCache' = InCache
  BY <1>1, <1>2, <1>3, <1>4 DEF InLabels, InRouter, InCache, Counts
<1> QED
  BY <1>2, <1>3, <1>4, <1>5, <1>6 DEF IInv, MapsOK, Out, LabelsOf

LEMMA RemoveMaps ==
  ASSUME IInv, NEW t \in Tunnels, LockAndRemove(t)
  PROVE  MapsOK'
<1>1. /\ section[t] = "out" /\ closer_pc[t] = "closed"
      /\ \A k \in Loops : loop_tunnel[k] # t
  BY DEF IInv, TypeOK, LocksOK, LoopsOwnTunnels, LockAndRemove
<1>2. /\ section' = [section EXCEPT ![t] = "labels"]
      /\ closer_pc' = [closer_pc EXCEPT ![t] = "unregistering"]
      /\ UNCHANGED <<loop_tunnel, tunnel_loop, collected>>
      /\ tunnel_map' = tunnel_map \ {t}
      /\ UNCHANGED <<label_to_tunnels_map, out_rules_map, rules_groups_cache>>
  BY DEF LockAndRemove, LockTunnelMap
<1>3. /\ \A p \in Procs : p # t => section'[p] = section[p]
      /\ section'[t] = "labels"
      /\ \A u \in Tunnels : u # t => closer_pc'[u] = closer_pc[u]
      /\ closer_pc'[t] = "unregistering"
  BY <1>2 DEF IInv, TypeOK
<1>4. InMap' = InMap \ {t}
  BY <1>1, <1>2, <1>3 DEF InMap, Counts
<1>5. InLabels' = InLabels /\ InRouter' = InRouter /\ InCache' = InCache
  BY <1>1, <1>2, <1>3 DEF InLabels, InRouter, InCache, Counts
<1> QED
  BY <1>2, <1>3, <1>4, <1>5 DEF IInv, MapsOK, Out, LabelsOf

(* Only the owner of the map's lock is in a section: the others' steps of  *)
(* counting stay as they are when the owner's section goes on to b.        *)
LEMMA SectionMove ==
  ASSUME IInv, NEW p \in Procs, NEW b \in SectionStates,
         section[p] # "out", section' = [section EXCEPT ![p] = b]
  PROVE  /\ section'[p] = b
         /\ \A q \in Procs : q # p => section[q] = "out" /\ section'[q] = "out"
         /\ p \in Loops => /\ loop_tunnel[p] \in Tunnels
                           /\ tunnel_loop[loop_tunnel[p]] = p
         /\ p \in Tunnels => /\ closer_pc[p] = "unregistering"
                             /\ \A k \in Loops : loop_tunnel[k] # p
         /\ \A u \in Tunnels : u # p => closer_pc[u] # "unregistering"
         /\ \A k \in Loops : k # p /\ p \in Loops =>
              loop_tunnel[k] # loop_tunnel[p]
BY DEF IInv, LoopsOwnTunnels, LocksOK, TypeOK

(* A step within the section matters only to the maps in which one of its  *)
(* two places counts and the other does not.                               *)
LEMMA CountsKept ==
  ASSUME IInv, NEW p \in Procs, NEW b \in SectionStates \ {"out"}, NEW before,
         section[p] # "out", section' = [section EXCEPT ![p] = b],
         section[p] \in before <=> b \in before,
         UNCHANGED <<loop_tunnel, closer_pc>>, NEW u \in Tunnels
  PROVE  Counts(u, before)' <=> Counts(u, before)
<1>1. \A q \in Procs : /\ section[q] \in SectionStates /\ section'[q] \in SectionStates
                       /\ section'[q] = "out" <=> section[q] = "out"
                       /\ section'[q] \in before <=> section[q] \in before
  BY DEF IInv, TypeOK
<1> QED  BY <1>1 DEF Counts

LEMMA LabelMaps ==
  ASSUME IInv, NEW p \in Procs, UpdateLabelMap(p)
  PROVE  MapsOK'
<1>1. /\ section[p] = "labels"
      /\ section' = [section EXCEPT ![p] = "router"]
      /\ UNCHANGED <<loop_tunnel, tunnel_loop, closer_pc, collected,
                     tunnel_map, out_rules_map, rules_groups_cache>>
      /\ label_to_tunnels_map' = Relabelled
  BY DEF UpdateLabelMap
<1>2. InMap' = InMap /\ InRouter' = InRouter /\ InCache' = InCache
  <2>1. section[p] # "out" /\ "router" \in SectionStates \ {"out"}
    BY <1>1
  <2>2. \A u \in Tunnels :
          Counts(u, {})' <=> Counts(u, {})
    BY <1>1, <2>1, CountsKept
  <2>3. \A u \in Tunnels :
          Counts(u, {"labels", "router"})' <=> Counts(u, {"labels", "router"})
    BY <1>1, <2>1, CountsKept
  <2>4. \A u \in Tunnels :
          Counts(u, {"labels", "router", "collect", "write"})' <=> Counts(u, {"labels", "router", "collect", "write"})
    BY <1>1, <2>1, CountsKept
  <2> QED  BY <2>2, <2>3, <2>4 DEF InMap, InRouter, InCache
<1>3. InLabels' = InMap
  <2>1. /\ section'[p] = "router"
        /\ \A q \in Procs : q # p => section[q] = "out" /\ section'[q] = "out"
    BY <1>1 DEF IInv, TypeOK, LocksOK
  <2> QED  BY <1>1, <2>1 DEF InLabels, InMap, Counts
<1>4. section'[p] # "write" /\ \A q \in Procs : q # p => section'[q] = section[q]
  BY <1>1 DEF IInv, TypeOK
<1> QED
  BY <1>1, <1>2, <1>3, <1>4 DEF IInv, MapsOK, Relabelled, Out, LabelsOf

LEMMA RegisterMaps ==
  ASSUME IInv, NEW l \in Loops, RegisterTunnel(l)
  PROVE  MapsOK'
<1>1. /\ section[l] = "router"
      /\ section' = [section EXCEPT ![l] = "collect"]
      /\ UNCHANGED <<loop_tunnel, tunnel_loop, closer_pc, collected,
                     tunnel_map, label_to_tunnels_map, rules_groups_cache>>
      /\ out_rules_map' = [out_rules_map EXCEPT
                             ![OutOf[l]] = @ \cup {loop_tunnel[l]}]
  BY DEF RegisterTunnel, UpdateOutRules
<1>2. loop_tunnel[l] \in Tunnels /\ Out(loop_tunnel[l]) = OutOf[l]
  BY <1>1 DEF IInv, TypeOK, LocksOK, LoopsOwnTunnels, Out
<1>3. InMap' = InMap /\ InLabels' = InLabels /\ InCache' = InCache
  <2>1. section[l] # "out" /\ "collect" \in SectionStates \ {"out"}
    BY <1>1
  <2>2. \A u \in Tunnels :
          Counts(u, {})' <=> Counts(u, {})
    BY <1>1, <2>1, CountsKept
  <2>3. \A u \in Tunnels :
          Counts(u, {"labels"})' <=> Counts(u, {"labels"})
    BY <1>1, <2>1, CountsKept
  <2>4. \A u \in Tunnels :
          Counts(u, {"labels", "router", "collect", "write"})' <=> Counts(u, {"labels", "router", "collect", "write"})
    BY <1>1, <2>1, CountsKept
  <2> QED  BY <2>2, <2>3, <2>4 DEF InMap, InLabels, InCache
<1>4. InRouter' = InRouter \cup {loop_tunnel[l]}
  <2>1. /\ section'[l] = "collect"
        /\ \A q \in Procs : q # l => section[q] = "out" /\ section'[q] = "out"
        /\ \A u \in Tunnels : closer_pc[u] # "unregistering"
    BY <1>1, SectionMove
  <2>2. \A u \in Tunnels :
          Counts(u, {"labels", "router"})'
            <=> Counts(u, {"labels", "router"}) \/ u = loop_tunnel[l]
    BY <1>1, <2>1 DEF Counts
  <2> QED  BY <1>2, <2>2 DEF InRouter
<1>5. out_rules_map' = [o \in Outs |-> {t \in InRouter' : Out(t) = o}]
  <2>1. out_rules_map = [o \in Outs |-> {t \in InRouter : Out(t) = o}]
    BY DEF IInv, MapsOK
  <2>2. ASSUME NEW o \in Outs
        PROVE  out_rules_map'[o] = {t \in InRouter' : Out(t) = o}
    BY <1>1, <1>2, <1>4, <2>1
  <2> QED  BY <1>1, <2>1, <2>2
<1>6. \A q \in Procs : section'[q] # "write"
  BY <1>1 DEF IInv, TypeOK, LocksOK
<1>7. [x \in Labels |-> {u \in InLabels : x \in LabelsOf(u)}]'
        = [x \in Labels |-> {u \in InLabels : x \in LabelsOf(u)}]
  BY <1>1, <1>3 DEF LabelsOf, Out
<1>8. /\ {Out(u) : u \in InCache}' = {Out(u) : u \in InCache}
      /\ [o \in Outs |-> {u \in InRouter : Out(u) = o}]'
           = [o \in Outs |-> {u \in InRouter' : Out(u) = o}]
  BY <1>1, <1>3 DEF Out
<1> QED
  BY <1>1, <1>3, <1>5, <1>6, <1>7, <1>8 DEF IInv, MapsOK

LEMMA UnregisterMaps ==
  ASSUME IInv, NEW t \in Tunnels, UnregisterTunnel(t)
  PROVE  MapsOK'
<1>1. /\ section[t] = "router"
      /\ section' = [section EXCEPT ![t] = "collect"]
      /\ UNCHANGED <<loop_tunnel, tunnel_loop, closer_pc, collected,
                     tunnel_map, label_to_tunnels_map, rules_groups_cache>>
      /\ out_rules_map' = [out_rules_map EXCEPT ![Out(t)] = @ \ {t}]
  BY DEF UnregisterTunnel, UpdateOutRules
<1>2. InMap' = InMap /\ InLabels' = InLabels /\ InCache' = InCache
  <2>1. section[t] # "out" /\ "collect" \in SectionStates \ {"out"}
    BY <1>1
  <2>2. \A u \in Tunnels :
          Counts(u, {})' <=> Counts(u, {})
    BY <1>1, <2>1, CountsKept
  <2>3. \A u \in Tunnels :
          Counts(u, {"labels"})' <=> Counts(u, {"labels"})
    BY <1>1, <2>1, CountsKept
  <2>4. \A u \in Tunnels :
          Counts(u, {"labels", "router", "collect", "write"})' <=> Counts(u, {"labels", "router", "collect", "write"})
    BY <1>1, <2>1, CountsKept
  <2> QED  BY <2>2, <2>3, <2>4 DEF InMap, InLabels, InCache
<1>3. InRouter' = InRouter \ {t}
  <2>1. /\ section'[t] = "collect"
        /\ \A q \in Procs : q # t => section[q] = "out" /\ section'[q] = "out"
        /\ \A k \in Loops : loop_tunnel[k] # t
        /\ closer_pc[t] = "unregistering"
        /\ \A u \in Tunnels : u # t => closer_pc[u] # "unregistering"
    BY <1>1, SectionMove
  <2>2. \A u \in Tunnels :
          Counts(u, {"labels", "router"})'
            <=> Counts(u, {"labels", "router"}) /\ u # t
    BY <1>1, <2>1 DEF Counts
  <2> QED  BY <2>2 DEF InRouter
<1>4. out_rules_map' = [o \in Outs |-> {u \in InRouter' : Out(u) = o}]
  BY <1>1, <1>3 DEF IInv, MapsOK
<1>5. \A q \in Procs : section'[q] # "write"
  BY <1>1 DEF IInv, TypeOK, LocksOK
<1>6. [x \in Labels |-> {u \in InLabels : x \in LabelsOf(u)}]'
        = [x \in Labels |-> {u \in InLabels : x \in LabelsOf(u)}]
  BY <1>1, <1>2 DEF LabelsOf, Out
<1>7. /\ {Out(u) : u \in InCache}' = {Out(u) : u \in InCache}
      /\ [o \in Outs |-> {u \in InRouter : Out(u) = o}]'
           = [o \in Outs |-> {u \in InRouter' : Out(u) = o}]
  BY <1>1, <1>2 DEF Out
<1> QED
  BY <1>1, <1>2, <1>4, <1>5, <1>6, <1>7 DEF IInv, MapsOK

LEMMA CollectMaps ==
  ASSUME IInv, NEW p \in Procs, CollectRules(p)
  PROVE  MapsOK'
<1>1. /\ section[p] = "collect"
      /\ section' = [section EXCEPT ![p] = "write"]
      /\ UNCHANGED <<loop_tunnel, tunnel_loop, closer_pc, mapVars>>
      /\ collected' = [collected EXCEPT ![p] =
                         {o \in Outs : out_rules_map[o] # {}}]
  BY DEF CollectRules
<1>2. UNCHANGED InSets
  <2>1. section[p] # "out" /\ "write" \in SectionStates \ {"out"}
    BY <1>1
  <2>2. \A u \in Tunnels :
          Counts(u, {})' <=> Counts(u, {})
    BY <1>1, <2>1, CountsKept
  <2>3. \A u \in Tunnels :
          Counts(u, {"labels"})' <=> Counts(u, {"labels"})
    BY <1>1, <2>1, CountsKept
  <2>4. \A u \in Tunnels :
          Counts(u, {"labels", "router"})' <=> Counts(u, {"labels", "router"})
    BY <1>1, <2>1, CountsKept
  <2>5. \A u \in Tunnels :
          Counts(u, {"labels", "router", "collect", "write"})' <=> Counts(u, {"labels", "router", "collect", "write"})
    BY <1>1, <2>1, CountsKept
  <2> QED  BY <2>2, <2>3, <2>4, <2>5 DEF InMap, InLabels, InRouter, InCache, InSets
<1>3. \A q \in Procs : section'[q] = "write" => q = p
  BY <1>1 DEF IInv, TypeOK, LocksOK
<1>4. \A t \in InRouter : Out(t) \in Outs
  BY DEF IInv, TypeOK, LoopsOwnTunnels, InRouter, Counts, Out
<1>5. collected'[p] = {Out(t) : t \in InRouter}
  BY <1>1, <1>4 DEF IInv, TypeOK, MapsOK
<1> QED
  BY <1>1, <1>2, <1>3, <1>5 DEF IInv, MapsOK, InSets, Out, LabelsOf

LEMMA WriteMaps ==
  ASSUME IInv, NEW p \in Procs, WriteCache(p)
  PROVE  MapsOK'
<1>1. /\ section[p] = "write"
      /\ section' = [section EXCEPT ![p] = "leave"]
      /\ UNCHANGED <<loop_tunnel, tunnel_loop, closer_pc, collected,
                     tunnel_map, label_to_tunnels_map, out_rules_map>>
      /\ rules_groups_cache' = collected[p]
  BY DEF WriteCache
<1>2. InMap' = InMap /\ InLabels' = InLabels /\ InRouter' = InRouter
  <2>1. section[p] # "out" /\ "leave" \in SectionStates \ {"out"}
    BY <1>1
  <2>2. \A u \in Tunnels :
          Counts(u, {})' <=> Counts(u, {})
    BY <1>1, <2>1, CountsKept
  <2>3. \A u \in Tunnels :
          Counts(u, {"labels"})' <=> Counts(u, {"labels"})
    BY <1>1, <2>1, CountsKept
  <2>4. \A u \in Tunnels :
          Counts(u, {"labels", "router"})' <=> Counts(u, {"labels", "router"})
    BY <1>1, <2>1, CountsKept
  <2> QED  BY <2>2, <2>3, <2>4 DEF InMap, InLabels, InRouter
<1>3. /\ section'[p] = "leave"
      /\ \A q \in Procs : q # p => section[q] = "out" /\ section'[q] = "out"
  BY <1>1 DEF IInv, TypeOK, LocksOK
<1>4. InCache' = InRouter
  BY <1>1, <1>3 DEF InCache, InRouter, Counts
<1> QED
  BY <1>1, <1>2, <1>3, <1>4 DEF IInv, MapsOK, Out, LabelsOf

(* Leaving the section changes who holds the tunnel, not whether it counts. *)
LEMMA FinishRegisterMaps ==
  ASSUME IInv, NEW l \in Loops, FinishRegister(l)
  PROVE  MapsOK'
<1> DEFINE t == loop_tunnel[l]
<1>1. /\ section[l] = "leave"
      /\ section' = [section EXCEPT ![l] = "out"]
      /\ closer_pc' = [closer_pc EXCEPT ![t] = "spawned"]
      /\ loop_tunnel' = [loop_tunnel EXCEPT ![l] = None]
      /\ UNCHANGED <<tunnel_loop, mapVars>>
  BY DEF FinishRegister, Unlock
<1>2. /\ t \in Tunnels
      /\ \A k \in Loops : k # l => loop_tunnel[k] # t
      /\ \A q \in Procs : section'[q] = "out"
      /\ \A q \in Procs : q # l => section[q] = "out"
  BY <1>1 DEF IInv, TypeOK, LocksOK, LoopsOwnTunnels
<1>3. /\ closer_pc'[t] = "spawned"
      /\ \A u \in Tunnels : u # t => closer_pc'[u] = closer_pc[u]
  BY <1>1, <1>2 DEF IInv, TypeOK
<1>4. UNCHANGED InSets
  BY <1>1, <1>2, <1>3 DEF InSets, InMap, InLabels, InRouter, InCache, Counts,
                          IInv, LocksOK
<1> QED
  BY <1>1, <1>2, <1>4 DEF IInv, MapsOK, InSets, Out, LabelsOf

LEMMA FinishCloseMaps ==
  ASSUME IInv, NEW t \in Tunnels, FinishClose(t)
  PROVE  MapsOK'
<1>1. /\ section[t] = "leave" /\ closer_pc[t] = "unregistering"
      /\ section' = [section EXCEPT ![t] = "out"]
      /\ closer_pc' = [closer_pc EXCEPT ![t] = "done"]
      /\ UNCHANGED <<loop_tunnel, tunnel_loop, mapVars>>
  BY DEF FinishClose, Unlock, loopVars
<1>2. /\ \A q \in Procs : section'[q] = "out"
      /\ \A q \in Procs : q # t => section[q] = "out"
      /\ closer_pc'[t] = "done"
      /\ \A u \in Tunnels : u # t => closer_pc'[u] = closer_pc[u]
      /\ \A k \in Loops : loop_tunnel[k] # t
  BY <1>1 DEF IInv, TypeOK, LocksOK, LoopsOwnTunnels
<1>3. UNCHANGED InSets
  BY <1>1, <1>2 DEF InSets, InMap, InLabels, InRouter, InCache, Counts, IInv,
                    LocksOK
<1> QED
  BY <1>1, <1>2, <1>3 DEF IInv, MapsOK, InSets, Out, LabelsOf

(* The steps of a loop preserve MapsOK. *)
LEMMA LoopStepMaps ==
  ASSUME IInv, NEW l \in Loops, LoopStep(l)
  PROVE  MapsOK'
<1>1. CASE AcceptOut(l)
  <2>1. UNCHANGED <<MapsVars, closer_pc>>
    BY <1>1 DEF AcceptOut, MapsVars
  <2> QED  BY <2>1, MapsQuiet DEF IInv
<1>2. CASE AcquirePermit(l)
  <2>1. UNCHANGED <<MapsVars, closer_pc>>
    BY <1>2 DEF AcquirePermit, MapsVars
  <2> QED  BY <2>1, MapsQuiet DEF IInv
<1>3. CASE \E t \in Tunnels : AcceptTunnel(l, t)
  BY <1>3, AcceptMaps
<1>4. CASE AcceptNone(l)
  <2>1. UNCHANGED <<MapsVars, closer_pc>>
    BY <1>4 DEF AcceptNone, MapsVars
  <2> QED  BY <2>1, MapsQuiet DEF IInv
<1>5. CASE AcceptError(l)
  <2>1. UNCHANGED <<MapsVars, closer_pc>>
    BY <1>5 DEF AcceptError, MapsVars
  <2> QED  BY <2>1, MapsQuiet DEF IInv
<1>6. CASE WakeUp(l)
  <2>1. UNCHANGED <<MapsVars, closer_pc>>
    BY <1>6 DEF WakeUp, MapsVars
  <2> QED  BY <2>1, MapsQuiet DEF IInv
<1>7. CASE SetActivePermit(l)
  <2>1. UNCHANGED <<MapsVars, closer_pc>>
    BY <1>7 DEF SetActivePermit, MapsVars
  <2> QED  BY <2>1, MapsQuiet DEF IInv
<1>8. CASE LockAndInsert(l)
  BY <1>8, InsertMaps
<1>9. CASE RegisterTunnel(l)
  BY <1>9, RegisterMaps
<1>10. CASE FinishRegister(l)
  BY <1>10, FinishRegisterMaps
<1> QED  BY <1>1, <1>2, <1>3, <1>4, <1>5, <1>6, <1>7, <1>8, <1>9, <1>10 DEF LoopStep

(* The steps of a tunnel preserve MapsOK. *)
LEMMA TunnelStepMaps ==
  ASSUME IInv, NEW t \in Tunnels, TunnelStep(t)
  PROVE  MapsOK'
<1>1. CASE LoseConnection(t)
  <2>1. UNCHANGED <<MapsVars, closer_pc>>
    BY <1>1 DEF LoseConnection, MapsVars
  <2> QED  BY <2>1, MapsQuiet DEF IInv
<1>2. CASE ConnectionIdle(t)
  <2>1. UNCHANGED <<MapsVars, closer_pc>>
    BY <1>2 DEF ConnectionIdle, LoseConnection, MapsVars
  <2> QED  BY <2>1, MapsQuiet DEF IInv
<1>3. CASE TakePermitOnEnd(t)
  <2>1. UNCHANGED <<MapsVars, closer_pc>>
    BY <1>3 DEF TakePermitOnEnd, MapsVars
  <2> QED  BY <2>1, MapsQuiet DEF IInv
<1>4. CASE NotifyClosed(t)
  <2>1. UNCHANGED MapsVars
    BY <1>4 DEF NotifyClosed, Woken, MapsVars
  <2>2. CloserWaits
    BY <1>4 DEF NotifyClosed, Woken, Present, CloserWaits, IInv, TypeOK
  <2> QED  BY <2>1, <2>2, MapsFrame DEF IInv
<1>5. CASE CloserWait(t)
  <2>1. UNCHANGED MapsVars
    BY <1>5 DEF CloserWait, MapsVars
  <2>2. CloserWaits
    BY <1>5 DEF CloserWait, Present, CloserWaits, IInv, TypeOK
  <2> QED  BY <2>1, <2>2, MapsFrame DEF IInv
<1>6. CASE QuicClosed(t)
  <2>1. UNCHANGED MapsVars
    BY <1>6 DEF QuicClosed, MapsVars
  <2>2. CloserWaits
    BY <1>6 DEF QuicClosed, Present, CloserWaits, IInv, TypeOK
  <2> QED  BY <2>1, <2>2, MapsFrame DEF IInv
<1>7. CASE LockAndRemove(t)
  BY <1>7, RemoveMaps
<1>8. CASE UnregisterTunnel(t)
  BY <1>8, UnregisterMaps
<1>9. CASE FinishClose(t)
  BY <1>9, FinishCloseMaps
<1> QED  BY <1>1, <1>2, <1>3, <1>4, <1>5, <1>6, <1>7, <1>8, <1>9 DEF TunnelStep

(* The steps of a section preserve MapsOK. *)
LEMMA SectionStepMaps ==
  ASSUME IInv, NEW p \in Procs, SectionStep(p)
  PROVE  MapsOK'
<1>1. CASE UpdateLabelMap(p)
  BY <1>1, LabelMaps
<1>2. CASE CollectRules(p)
  BY <1>2, CollectMaps
<1>3. CASE WriteCache(p)
  BY <1>3, WriteMaps
<1> QED  BY <1>1, <1>2, <1>3 DEF SectionStep

-----------------------------------------------------------------------------

LEMMA InitInv == Init => IInv
<1> SUFFICES ASSUME Init PROVE IInv
  OBVIOUS
<1>1. TypeOK
  BY DEF Init, TypeOK
<1>2. LoopsOwnTunnels /\ LocksOK /\ ConnsOK
  BY DEF Init, LoopsOwnTunnels, LocksOK, ConnsOK
<1>3. \A t \in Tunnels : /\ ~ Counts(t, {})
                         /\ ~ Counts(t, {"labels"})
                         /\ ~ Counts(t, {"labels", "router"})
                         /\ ~ Counts(t, {"labels", "router", "collect", "write"})
  BY DEF Init, Counts
<1>4. InMap = {} /\ InLabels = {} /\ InRouter = {} /\ InCache = {}
  BY <1>3 DEF InMap, InLabels, InRouter, InCache
<1>5. MapsOK
  BY <1>4 DEF Init, MapsOK
<1> QED  BY <1>1, <1>2, <1>5 DEF IInv

LEMMA StepInv == IInv /\ [Next]_vars => IInv'
<1> SUFFICES ASSUME IInv, [Next]_vars PROVE IInv'
  OBVIOUS
<1> USE DEF IInv
<1>1. ASSUME NEW l \in Loops, LoopStep(l) PROVE IInv'
  <2>1. UNCHANGED <<conn_pc, conn_tunnel>>
    BY <1>1 DEF LoopStep, AcceptOut, AcquirePermit, AcceptTunnel, AcceptNone,
         AcceptError, WakeUp, SetActivePermit, LockAndInsert, RegisterTunnel,
         UpdateOutRules, FinishRegister, Unlock
  <2> QED
    BY <1>1, <2>1, LoopStepType, LoopStepOwns, LoopStepLocks, LoopStepMaps,
       OtherStepConns
<1>2. ASSUME NEW t \in Tunnels, TunnelStep(t) PROVE IInv'
  <2>1. UNCHANGED <<conn_pc, conn_tunnel>>
    BY <1>2 DEF TunnelStep, LoseConnection, ConnectionIdle, TakePermitOnEnd,
         NotifyClosed, CloserWait, QuicClosed, LockAndRemove, UnregisterTunnel,
         UpdateOutRules, FinishClose, Unlock
  <2> QED
    BY <1>2, <2>1, TunnelStepType, TunnelStepOwns, TunnelStepLocks,
       TunnelStepMaps, OtherStepConns
<1>3. ASSUME NEW p \in Procs, SectionStep(p) PROVE IInv'
  <2>1. UNCHANGED <<conn_pc, conn_tunnel>>
    BY <1>3 DEF SectionStep, UpdateLabelMap, CollectRules, WriteCache
  <2> QED
    BY <1>3, <2>1, SectionStepType, SectionStepOwns, SectionStepLocks,
       SectionStepMaps, OtherStepConns
<1>4. ASSUME NEW c \in Conns, ConnStep(c) PROVE IInv'
  <2>1. UNCHANGED <<loop_pc, loop_tunnel, tunnel_loop, closer_pc, lockVars, mapVars>>
    BY <1>4, ConnFrame DEF TaskVars
  <2>2. LoopsOwnTunnels' /\ LocksOK'
    BY <2>1 DEF LoopsOwnTunnels, LocksOK
  <2>3. MapsOK'
    BY <2>1, MapsQuiet DEF MapsVars
  <2> QED
    BY <1>4, <2>2, <2>3, ConnStepType, ConnStepConns
<1>5. CASE UNCHANGED vars
  <2>1. TypeOK' /\ LoopsOwnTunnels' /\ LocksOK' /\ ConnsOK'
    BY <1>5 DEF vars, TypeOK, LoopsOwnTunnels, LocksOK, ConnsOK
  <2>2. MapsOK'
    BY <1>5, MapsQuiet DEF vars, MapsVars
  <2> QED  BY <2>1, <2>2
<1> QED  BY <1>1, <1>2, <1>3, <1>4, <1>5 DEF Next

THEOREM Invariance == Spec => []IInv
BY InitInv, StepInv, PTL DEF Spec

(* TypeOK: every variable stays in its type, whatever the interleaving. *)
THEOREM TypeCorrect == Spec => []TypeOK
BY Invariance, PTL DEF IInv

LEMMA InvImpliesAgree == IInv => MapsAgree
<1> SUFFICES ASSUME IInv, tunnel_map_lock = None
             PROVE  /\ label_to_tunnels_map = Relabelled
                    /\ out_rules_map =
                         [o \in Outs |-> {t \in tunnel_map : Out(t) = o}]
                    /\ rules_groups_cache = {Out(t) : t \in tunnel_map}
  BY DEF MapsAgree
<1>1. \A p \in Procs : section[p] = "out"
  BY DEF IInv, LocksOK
<1>2. InLabels = InMap /\ InRouter = InMap /\ InCache = InMap
  BY <1>1 DEF InMap, InLabels, InRouter, InCache, Counts, IInv, LocksOK
<1> QED  BY <1>2 DEF IInv, MapsOK, Relabelled

(* MapsAgree: whenever the tunnel map is unlocked, the label map, the      *)
(* router's tunnel ids and its cached rules all speak of the tunnels in    *)
(* the map, for any number of loops, OUTs, tunnels and connections.        *)
THEOREM MapsAgreement == Spec => []MapsAgree
BY Invariance, InvImpliesAgree, PTL

-----------------------------------------------------------------------------
(* The inductive invariant, on top of the one above. *)

(* Before SetActivePermit a tunnel is its loop's alone: it has no permit,  *)
(* no connection, and its sender.  A permit is of a call that has begun.   *)
PermitsOK ==
  /\ \A t \in Tunnels :
       /\ tunnel_loop[t] = None => active_permit[t] = 0
       /\ tunnel_loop[t] \in Loops => active_permit[t] <= generation[tunnel_loop[t]]
  /\ \A l \in Loops :
       /\ Running(l) => generation[l] > 0 /\ IsFiniteSet(PermitHolders(l))
       /\ loop_pc[l] = "set_permit" => active_permit[loop_tunnel[l]] = 0

PermitsInv == PermitsOK /\ PermitConservation

(* A connection came by its tunnel through the label map. *)
Using(c, t) == conn_pc[c] # "idle" /\ conn_tunnel[c] = t
UsersOK ==
  \A c \in Conns, t \in Tunnels : Using(c, t) =>
    /\ tunnel_loop[t] \in Loops
    /\ conn_pc[c] \in {"counted", "opened", "closed", "check"} => IsHttp2(t)
    /\ \A l \in Loops : loop_pc[l] = "set_permit" => loop_tunnel[l] # t

IdleOK == \A c \in Conns : conn_pc[c] = "idle" => conn_tunnel[c] = None

(* Connections whose stream counts. *)
Streams(t) == {c \in Conns : /\ conn_tunnel[c] = t
                             /\ conn_pc[c] \in {"streaming", "closed"}
                             /\ IsHttp2(t)}
StreamsOK == \A t \in Tunnels : IsFiniteSet(Streams(t))

UsersInv == UsersOK /\ IdleOK /\ StreamsOK /\ StreamsCounted

(* The tunnel a loop is about to give its permit has its sender. *)
SendersOK ==
  \A l \in Loops : loop_pc[l] = "set_permit" => request_sender[loop_tunnel[l]]

SendersInv == SendersOK /\ ActiveHasSender

PoolInv == IInv /\ PermitsInv /\ UsersInv /\ SendersInv
-----------------------------------------------------------------------------

(* The permit the loop itself has, between acquiring it and storing it. *)
InHand(l) == IF loop_pc[l] \in {"accept", "set_permit", "sleep"} THEN 1 ELSE 0

Conserved(l) ==
  permits[l] + Cardinality(PermitHolders(l)) + InHand(l) = Connections[l]

LEMMA ConservedEach ==
  /\ PermitConservation <=> \A l \in Loops : Running(l) => Conserved(l)
  /\ PermitConservation' <=> \A l \in Loops : Running(l)' => Conserved(l)'
BY DEF PermitConservation, Conserved, InHand

(* Steps that move no permit. *)
LEMMA PermitQuiet ==
  ASSUME PermitsInv, UNCHANGED <<generation, permits, tunnel_loop, active_permit>>,
         \A l \in Loops :
           /\ Running(l)' => Running(l) /\ InHand(l)' = InHand(l)
           /\ loop_pc'[l] = "set_permit" =>
                loop_pc[l] = "set_permit" /\ loop_tunnel'[l] = loop_tunnel[l]
  PROVE  PermitsInv'
<1>1. \A l \in Loops : PermitHolders(l)' = PermitHolders(l)
  BY DEF PermitHolders
<1>2. PermitsOK'
  BY <1>1 DEF PermitsInv, PermitsOK
<1>3. \A l \in Loops : Running(l)' => Conserved(l)'
  BY <1>1, ConservedEach DEF PermitsInv, Conserved
<1> QED  BY <1>2, <1>3, ConservedEach DEF PermitsInv

(* A tunnel gives up its permit: to the semaphore of the running call, or, *)
(* when it is an earlier call's or the tunnel has none, to nobody.         *)
LEMMA TakePermitConserves ==
  ASSUME TypeOK, PermitsInv, NEW t \in Tunnels, TakePermit(t),
         UNCHANGED <<loop_pc, loop_tunnel, generation, tunnel_loop>>
  PROVE  PermitsInv'
<1>1. /\ active_permit'[t] = 0
      /\ \A u \in Tunnels : u # t => active_permit'[u] = active_permit[u]
  BY DEF TakePermit, TypeOK
<1>2. \A u \in Tunnels :
        /\ tunnel_loop'[u] = None => active_permit'[u] = 0
        /\ tunnel_loop'[u] \in Loops =>
             active_permit'[u] <= generation'[tunnel_loop'[u]]
  BY <1>1 DEF PermitsInv, PermitsOK, TypeOK
<1>3. \A l \in Loops : loop_pc'[l] = "set_permit" =>
        active_permit'[loop_tunnel'[l]] = 0
  <2> SUFFICES ASSUME NEW l \in Loops, loop_pc'[l] = "set_permit"
               PROVE  active_permit'[loop_tunnel[l]] = 0
    OBVIOUS
  <2>1. active_permit[loop_tunnel[l]] = 0
    BY DEF PermitsInv, PermitsOK
  <2>2. active_permit' = [active_permit EXCEPT ![t] = 0]
    BY DEF TakePermit
  <2> QED  BY <2>1, <2>2 DEF TypeOK
<1>4. ASSUME NEW l \in Loops, Running(l)
      PROVE  Conserved(l)' /\ IsFiniteSet(PermitHolders(l))'
  <2>1. /\ generation[l] > 0 /\ IsFiniteSet(PermitHolders(l))
        /\ Conserved(l) /\ InHand(l)' = InHand(l)
    BY <1>4, ConservedEach DEF PermitsInv, PermitsOK, InHand
  <2>2. CASE t \in PermitHolders(l)
    <3>1. permits' = [permits EXCEPT ![l] = @ + 1]
      <4>1. /\ tunnel_loop[t] = l /\ active_permit[t] = generation[l]
            /\ IsActive(t)
        BY <2>1, <2>2 DEF PermitHolders, IsActive, TypeOK
      <4> QED  BY <4>1 DEF TakePermit, Returned
    <3>2. PermitHolders(l)' = PermitHolders(l) \ {t}
      BY <1>1, <2>1 DEF PermitHolders
    <3>3. /\ IsFiniteSet(PermitHolders(l) \ {t})
          /\ Cardinality(PermitHolders(l) \ {t}) =
               Cardinality(PermitHolders(l)) - 1
      BY <2>1, <2>2, FS_RemoveElement
    <3>4. Cardinality(PermitHolders(l)) \in Nat
      BY <2>1, FS_CardinalityType
    <3>5. permits'[l] = permits[l] + 1 /\ permits[l] \in Nat
      BY <3>1 DEF TypeOK
    <3> QED  BY <2>1, <3>2, <3>3, <3>4, <3>5 DEF Conserved, InHand
  <2>3. CASE t \notin PermitHolders(l)
    <3>1. permits'[l] = permits[l]
      <4>1. \/ permits' = permits
            \/ /\ permits' = [permits EXCEPT ![tunnel_loop[t]] = @ + 1]
               /\ active_permit[t] = generation[tunnel_loop[t]]
        BY DEF TakePermit, Returned
      <4>2. tunnel_loop[t] = l => active_permit[t] # generation[l]
        BY <2>3 DEF PermitHolders
      <4> QED  BY <4>1, <4>2 DEF TypeOK
    <3>2. PermitHolders(l)' = PermitHolders(l)
      BY <1>1, <2>1, <2>3 DEF PermitHolders
    <3> QED  BY <2>1, <3>1, <3>2 DEF Conserved, InHand
  <2> QED  BY <2>2, <2>3
<1>5. PermitConservation'
  BY <1>4, ConservedEach DEF Running
<1>6. PermitsOK'
  BY <1>2, <1>3, <1>4 DEF PermitsInv, PermitsOK, Running
<1> QED  BY <1>5, <1>6 DEF PermitsInv

LEMMA DropArcConserves ==
  ASSUME TypeOK, PermitsInv, NEW t \in Tunnels, NEW last, DropArc(t, last),
         UNCHANGED <<loop_pc, loop_tunnel, generation, tunnel_loop>>
  PROVE  PermitsInv'
<1>1. CASE TakePermit(t)
  BY <1>1, TakePermitConserves
<1>2. CASE UNCHANGED permitVars
  BY <1>2, PermitQuiet DEF Running, InHand
<1> QED  BY <1>1, <1>2 DEF DropArc

(* A loop that is started again has a semaphore of its own: no tunnel      *)
(* holds a permit of the new call.                                         *)
LEMMA AcceptOutConserves ==
  ASSUME TypeOK, PermitsInv, NEW l \in Loops, AcceptOut(l)
  PROVE  PermitsInv'
<1>1. /\ generation'[l] = generation[l] + 1 /\ permits'[l] = Connections[l]
      /\ loop_pc'[l] = "acquire"
      /\ \A k \in Loops : k # l => /\ generation'[k] = generation[k]
                                  /\ permits'[k] = permits[k]
                                  /\ loop_pc'[k] = loop_pc[k]
      /\ UNCHANGED <<loop_tunnel, tunnel_loop, active_permit>>
  BY DEF AcceptOut, TypeOK
<1>2. PermitHolders(l)' = {}
  BY <1>1 DEF PermitHolders, PermitsInv, PermitsOK, TypeOK
<1>3. IsFiniteSet(PermitHolders(l)') /\ Cardinality(PermitHolders(l)') = 0
  BY <1>2, FS_EmptySet
<1>4. Conserved(l)'
  <2>1. Connections[l] \in Nat /\ InHand(l)' = 0
    BY <1>1 DEF InHand
  <2> QED  BY <1>1, <1>3, <2>1 DEF Conserved
<1>5. \A k \in Loops : k # l => PermitHolders(k)' = PermitHolders(k)
  BY <1>1 DEF PermitHolders
<1>6. PermitConservation'
  <2>1. \A k \in Loops : k # l =>
          /\ Running(k)' <=> Running(k)
          /\ Conserved(k)' <=> Conserved(k)
    BY <1>1, <1>5 DEF Running, Conserved, InHand
  <2> QED  BY <1>4, <2>1, ConservedEach DEF PermitsInv
<1>7. PermitsOK'
  <2>1. \A u \in Tunnels :
          /\ tunnel_loop'[u] = None => active_permit'[u] = 0
          /\ tunnel_loop'[u] \in Loops =>
               active_permit'[u] <= generation'[tunnel_loop'[u]]
    BY <1>1 DEF PermitsInv, PermitsOK, TypeOK
  <2>2. \A k \in Loops : Running(k)' =>
          generation'[k] > 0 /\ IsFiniteSet(PermitHolders(k))'
    BY <1>1, <1>3, <1>5 DEF PermitsInv, PermitsOK, TypeOK, Running
  <2>3. \A k \in Loops : loop_pc'[k] = "set_permit" =>
          active_permit'[loop_tunnel'[k]] = 0
    BY <1>1 DEF PermitsInv, PermitsOK
  <2> QED  BY <2>1, <2>2, <2>3 DEF PermitsOK
<1> QED  BY <1>6, <1>7 DEF PermitsInv

(* A permit goes from the semaphore to the loop, or back. *)
LEMMA HandConserves ==
  ASSUME TypeOK, PermitsInv, NEW l \in Loops, AcquirePermit(l) \/ WakeUp(l)
  PROVE  PermitsInv'
<1>1. /\ Running(l) /\ permits'[l] + InHand(l)' = permits[l] + InHand(l)
      /\ loop_pc'[l] # "set_permit"
  BY DEF TypeOK, AcquirePermit, PermitFree, WakeUp, Running, InHand
<1>2. /\ \A k \in Loops : k # l => /\ permits'[k] = permits[k]
                                  /\ loop_pc'[k] = loop_pc[k]
      /\ UNCHANGED <<generation, loop_tunnel, tunnel_loop, active_permit>>
  BY DEF TypeOK, AcquirePermit, WakeUp
<1>3. \A k \in Loops : PermitHolders(k)' = PermitHolders(k)
  BY <1>2 DEF PermitHolders
<1>4. Conserved(l)'
  <2>1. Conserved(l) /\ Cardinality(PermitHolders(l)) \in Nat
    BY <1>1, ConservedEach, FS_CardinalityType DEF PermitsInv, PermitsOK
  <2>2. permits[l] \in Int /\ permits'[l] \in Int
    BY <1>2 DEF TypeOK, AcquirePermit, PermitFree, WakeUp
  <2> QED  BY <1>1, <1>3, <2>1, <2>2 DEF Conserved, InHand
<1>5. \A k \in Loops : k # l =>
        /\ Running(k)' <=> Running(k)
        /\ Conserved(k)' <=> Conserved(k)
  BY <1>2, <1>3 DEF Running, Conserved, InHand
<1>6. PermitConservation'
  BY <1>4, <1>5, ConservedEach DEF PermitsInv
<1>7. PermitsOK'
  BY <1>1, <1>2, <1>3 DEF PermitsInv, PermitsOK, Running
<1> QED  BY <1>6, <1>7 DEF PermitsInv

(* A new tunnel has no permit before set_active_permit. *)
LEMMA AcceptTunnelConserves ==
  ASSUME TypeOK, PermitsInv, NEW l \in Loops, NEW t \in Tunnels,
         AcceptTunnel(l, t)
  PROVE  PermitsInv'
<1>1. /\ loop_pc[l] = "accept" /\ loop_pc'[l] = "set_permit"
      /\ loop_tunnel'[l] = t /\ tunnel_loop[t] = None /\ tunnel_loop'[t] = l
      /\ \A k \in Loops : k # l => /\ loop_tunnel'[k] = loop_tunnel[k]
                                  /\ loop_pc'[k] = loop_pc[k]
      /\ \A u \in Tunnels : u # t => tunnel_loop'[u] = tunnel_loop[u]
      /\ UNCHANGED <<generation, permits, active_permit>>
  BY DEF AcceptTunnel, TypeOK
<1>2. active_permit[t] = 0
  BY <1>1 DEF PermitsInv, PermitsOK
<1>3. \A k \in Loops : Running(k)' =>
        /\ Running(k) /\ InHand(k)' = InHand(k)
        /\ generation[k] > 0 /\ IsFiniteSet(PermitHolders(k))
  BY <1>1 DEF Running, InHand, PermitsInv, PermitsOK
<1>4. \A k \in Loops : Running(k)' => PermitHolders(k)' = PermitHolders(k)
  <2> SUFFICES ASSUME NEW k \in Loops, Running(k)', NEW u \in Tunnels
               PROVE  u \in PermitHolders(k)' <=> u \in PermitHolders(k)
    BY DEF PermitHolders
  <2>1. generation[k] # 0
    BY <1>3 DEF TypeOK
  <2>2. CASE u = t
    BY <1>1, <1>2, <2>1, <2>2 DEF PermitHolders
  <2>3. CASE u # t
    BY <1>1, <2>3 DEF PermitHolders
  <2> QED  BY <2>2, <2>3
<1>5. PermitConservation'
  BY <1>1, <1>3, <1>4, ConservedEach DEF PermitsInv, Conserved
<1>6. \A u \in Tunnels :
        /\ tunnel_loop'[u] = None => active_permit'[u] = 0
        /\ tunnel_loop'[u] \in Loops =>
             active_permit'[u] <= generation'[tunnel_loop'[u]]
  BY <1>1, <1>2 DEF PermitsInv, PermitsOK, TypeOK
<1>7. \A k \in Loops : loop_pc'[k] = "set_permit" =>
        active_permit'[loop_tunnel'[k]] = 0
  BY <1>1, <1>2 DEF PermitsInv, PermitsOK
<1>8. PermitsOK'
  BY <1>1, <1>3, <1>4, <1>6, <1>7 DEF PermitsOK
<1> QED  BY <1>5, <1>8 DEF PermitsInv

(* set_active_permit hands the loop's permit to its tunnel. *)
LEMMA SetActivePermitConserves ==
  ASSUME TypeOK, LoopsOwnTunnels, PermitsInv, NEW l \in Loops, SetActivePermit(l)
  PROVE  PermitsInv'
<1> DEFINE t == loop_tunnel[l]
<1>1. /\ loop_pc[l] = "set_permit" /\ loop_pc'[l] = "lock_map"
      /\ \A k \in Loops : k # l => loop_pc'[k] = loop_pc[k]
      /\ UNCHANGED <<generation, permits, loop_tunnel, tunnel_loop>>
      /\ t \in Tunnels /\ tunnel_loop[t] = l /\ active_permit[t] = 0
      /\ \A k \in Loops : k # l => loop_tunnel[k] # t
  BY DEF SetActivePermit, TypeOK, LoopsOwnTunnels, PermitsInv, PermitsOK
<1>2. /\ active_permit'[t] = generation[l]
      /\ \A u \in Tunnels : u # t => active_permit'[u] = active_permit[u]
  BY <1>1 DEF SetActivePermit, TypeOK
<1>3. /\ Running(l) /\ generation[l] > 0 /\ IsFiniteSet(PermitHolders(l))
      /\ t \notin PermitHolders(l) /\ Conserved(l)
      /\ InHand(l) = 1 /\ InHand(l)' = 0
  BY <1>1, ConservedEach DEF Running, InHand, PermitsInv, PermitsOK, PermitHolders
<1> HIDE DEF t
<1>4. /\ PermitHolders(l)' = PermitHolders(l) \cup {t}
      /\ \A k \in Loops : k # l => PermitHolders(k)' = PermitHolders(k)
  BY <1>1, <1>2 DEF PermitHolders
<1>5. /\ IsFiniteSet(PermitHolders(l) \cup {t})
      /\ Cardinality(PermitHolders(l) \cup {t}) = Cardinality(PermitHolders(l)) + 1
      /\ Cardinality(PermitHolders(l)) \in Nat
  BY <1>3, FS_AddElement, FS_CardinalityType
<1>6. Conserved(l)'
  <2>1. permits[l] \in Nat
    BY DEF TypeOK
  <2>2. permits'[l] = permits[l]
    BY <1>1
  <2> QED  BY <1>3, <1>4, <1>5, <2>1, <2>2 DEF Conserved, InHand
<1>7. \A k \in Loops : k # l =>
        /\ Running(k)' <=> Running(k)
        /\ Conserved(k)' <=> Conserved(k)
  BY <1>1, <1>4 DEF Running, Conserved, InHand
<1>8. PermitConservation'
  BY <1>6, <1>7, ConservedEach DEF PermitsInv
<1>9. \A u \in Tunnels :
        /\ tunnel_loop'[u] = None => active_permit'[u] = 0
        /\ tunnel_loop'[u] \in Loops =>
             active_permit'[u] <= generation'[tunnel_loop'[u]]
  BY <1>1, <1>2 DEF PermitsInv, PermitsOK, TypeOK
<1>10. \A k \in Loops : Running(k)' =>
         generation'[k] > 0 /\ IsFiniteSet(PermitHolders(k))'
  <2>1. generation'[l] > 0 /\ IsFiniteSet(PermitHolders(l))'
    BY <1>1, <1>3, <1>4, <1>5
  <2>2. ASSUME NEW k \in Loops, k # l, Running(k)'
        PROVE  generation'[k] > 0 /\ IsFiniteSet(PermitHolders(k))'
    <3>1. generation[k] > 0 /\ IsFiniteSet(PermitHolders(k))
      BY <1>7, <2>2 DEF PermitsInv, PermitsOK
    <3> QED  BY <1>1, <1>4, <2>2, <3>1
  <2> QED  BY <2>1, <2>2
<1>11. ASSUME NEW k \in Loops, loop_pc'[k] = "set_permit"
       PROVE  active_permit'[loop_tunnel'[k]] = 0
  <2>1. /\ k # l /\ loop_pc[k] = "set_permit"
        /\ active_permit[loop_tunnel[k]] = 0
    BY <1>1, <1>11 DEF PermitsInv, PermitsOK
  <2>2. loop_tunnel[k] \in Tunnels /\ loop_tunnel[k] # t
    BY <1>1, <2>1 DEF LoopsOwnTunnels, TypeOK
  <2> QED  BY <1>1, <1>2, <2>1, <2>2
<1>12. PermitsOK'
  BY <1>9, <1>10, <1>11 DEF PermitsOK
<1> QED  BY <1>8, <1>12 DEF PermitsInv

LEMMA LoopStepPermits ==
  ASSUME IInv, PermitsInv, NEW l \in Loops, LoopStep(l)
  PROVE  PermitsInv'
<1> USE DEF IInv
<1>1. CASE AcceptOut(l)
  BY <1>1, AcceptOutConserves
<1>2. CASE AcquirePermit(l) \/ WakeUp(l)
  BY <1>2, HandConserves
<1>3. CASE \E t \in Tunnels : AcceptTunnel(l, t)
  BY <1>3, AcceptTunnelConserves
<1>4. CASE AcceptNone(l) \/ AcceptError(l)
  BY <1>4, PermitQuiet DEF AcceptNone, AcceptError, TypeOK, Running, InHand
<1>5. CASE SetActivePermit(l)
  BY <1>5, SetActivePermitConserves
<1>6. CASE LockAndInsert(l)
  BY <1>6, PermitQuiet DEF LockAndInsert, TypeOK, Running, InHand
<1>7. CASE RegisterTunnel(l)
  BY <1>7, PermitQuiet DEF RegisterTunnel, UpdateOutRules, Running, InHand
<1>8. CASE FinishRegister(l)
  BY <1>8, PermitQuiet DEF FinishRegister, Unlock, TypeOK, Running, InHand
<1> QED  BY <1>1, <1>2, <1>3, <1>4, <1>5, <1>6, <1>7, <1>8 DEF LoopStep

LEMMA TunnelStepPermits ==
  ASSUME IInv, PermitsInv, NEW t \in Tunnels, TunnelStep(t)
  PROVE  PermitsInv'
<1> USE DEF IInv
<1>1. CASE TakePermitOnEnd(t)
  BY <1>1, TakePermitConserves DEF TakePermitOnEnd
<1>2. CASE FinishClose(t)
  BY <1>2, DropArcConserves DEF FinishClose, Unlock
<1>3. CASE ~ (TakePermitOnEnd(t) \/ FinishClose(t))
  <2>1. UNCHANGED <<loopVars, permitVars, tunnel_loop>>
    BY <1>3 DEF TunnelStep, LoseConnection, ConnectionIdle, NotifyClosed,
         CloserWait, QuicClosed, LockAndRemove, UnregisterTunnel, UpdateOutRules
  <2> QED  BY <2>1, PermitQuiet DEF Running, InHand
<1> QED  BY <1>1, <1>2, <1>3

LEMMA ConnStepPermits ==
  ASSUME IInv, PermitsInv, NEW c \in Conns, ConnStep(c)
  PROVE  PermitsInv'
<1> USE DEF IInv
<1>1. UNCHANGED <<loop_pc, loop_tunnel, generation, tunnel_loop>>
  BY DEF ConnStep, SelectTunnel, CountLifetime, SendRequest, CountStream,
         OpenQuicStream, ConnectError, LeaveQuic, LeaveTunnel, EndStream,
         CountDown, CloseIfRetired
<1>2. CASE UNCHANGED permitVars
  BY <1>1, <1>2, PermitQuiet DEF Running, InHand
<1>3. conn_pc[c] # "idle" => conn_tunnel[c] \in Tunnels
  BY DEF ConnsOK
<1>4. CASE CountLifetime(c)
  <2>1. conn_tunnel[c] \in Tunnels
    BY <1>3, <1>4 DEF CountLifetime
  <2>2. TakePermit(conn_tunnel[c]) \/ UNCHANGED permitVars
    BY <1>4 DEF CountLifetime
  <2> QED  BY <1>1, <1>2, <2>1, <2>2, TakePermitConserves
<1>5. CASE ConnectError(c) \/ LeaveQuic(c) \/ EndStream(c)
  <2>1. conn_pc[c] # "idle" /\ DropConnArc(c)
    BY <1>5 DEF ConnectError, LeaveQuic, LeaveTunnel, EndStream
  <2> QED  BY <1>1, <1>3, <2>1, DropArcConserves DEF DropConnArc
<1>6. CASE ~ (CountLifetime(c) \/ ConnectError(c) \/ LeaveQuic(c) \/ EndStream(c))
  BY <1>2, <1>6 DEF ConnStep, SelectTunnel, SendRequest, CountStream,
                    OpenQuicStream, CountDown, CloseIfRetired
<1> QED  BY <1>4, <1>5, <1>6

-----------------------------------------------------------------------------
(* Connections and their streams. *)

(* Steps that move neither connections nor tunnels. *)
LEMMA StreamsEach ==
  /\ StreamsCounted <=>
       \A t \in Tunnels : active_streams[t] = Cardinality(Streams(t))
  /\ StreamsCounted' <=>
       \A t \in Tunnels : active_streams'[t] = Cardinality(Streams(t)')
BY DEF StreamsCounted, Streams

LEMMA UsersQuiet ==
  ASSUME UsersInv, UNCHANGED <<conn_pc, conn_tunnel, tunnel_loop, active_streams>>,
         \A l \in Loops : loop_pc'[l] = "set_permit" =>
           loop_pc[l] = "set_permit" /\ loop_tunnel'[l] = loop_tunnel[l]
  PROVE  UsersInv'
<1>1. UsersOK'
  BY DEF UsersInv, UsersOK, Using, IsHttp2
<1>2. \A t \in Tunnels : Streams(t)' = Streams(t)
  BY DEF Streams, IsHttp2
<1>3. IdleOK'
  BY DEF UsersInv, IdleOK
<1>4. StreamsOK' /\ StreamsCounted'
  BY <1>2, StreamsEach DEF UsersInv, StreamsOK
<1> QED  BY <1>1, <1>3, <1>4 DEF UsersInv

(* Nobody uses a tunnel before its loop has registered it. *)
LEMMA AcceptTunnelUsers ==
  ASSUME IInv, UsersInv, NEW l \in Loops, NEW t \in Tunnels, AcceptTunnel(l, t)
  PROVE  UsersInv'
<1>1. /\ tunnel_loop[t] = None /\ loop_tunnel'[l] = t
      /\ \A k \in Loops : k # l => /\ loop_tunnel'[k] = loop_tunnel[k]
                                  /\ loop_pc'[k] = loop_pc[k]
      /\ \A u \in Tunnels : u # t => tunnel_loop'[u] = tunnel_loop[u]
      /\ UNCHANGED <<conn_pc, conn_tunnel, active_streams>>
  BY DEF AcceptTunnel, TypeOK, IInv
<1>2. \A c \in Conns : ~ Using(c, t)
  BY <1>1 DEF UsersInv, UsersOK
<1>3. UsersOK'
  <2> SUFFICES ASSUME NEW c \in Conns, NEW u \in Tunnels, Using(c, u)'
               PROVE  /\ tunnel_loop'[u] \in Loops
                      /\ conn_pc'[c] \in {"counted", "opened", "closed", "check"}
                           => IsHttp2(u)'
                      /\ \A k \in Loops :
                           loop_pc'[k] = "set_permit" => loop_tunnel'[k] # u
    BY DEF UsersOK
  <2>1. Using(c, u) /\ u # t
    BY <1>1, <1>2 DEF Using
  <2> QED  BY <1>1, <2>1 DEF UsersInv, UsersOK, IsHttp2
<1>4. \A u \in Tunnels : Streams(u)' = Streams(u)
  <2> SUFFICES ASSUME NEW u \in Tunnels, NEW c \in Conns
               PROVE  c \in Streams(u)' <=> c \in Streams(u)
    BY DEF Streams
  <2>1. CASE Using(c, u)
    <3>1. u # t
      BY <1>2, <2>1
    <3> QED  BY <1>1, <3>1 DEF Streams, IsHttp2
  <2>2. CASE ~ Using(c, u)
    BY <1>1, <2>2 DEF Streams, Using
  <2> QED  BY <2>1, <2>2
<1>5. StreamsOK' /\ StreamsCounted'
  BY <1>1, <1>4, StreamsEach DEF UsersInv, StreamsOK
<1>6. IdleOK'
  BY <1>1 DEF UsersInv, IdleOK
<1> QED  BY <1>3, <1>5, <1>6 DEF UsersInv

(* What a connection does moves itself alone. *)
LEMMA ConnStepFrame ==
  ASSUME IInv, NEW c \in Conns, ConnStep(c)
  PROVE  /\ \A d \in Conns : d # c => /\ conn_pc'[d] = conn_pc[d]
                                     /\ conn_tunnel'[d] = conn_tunnel[d]
         /\ UNCHANGED <<loop_pc, loop_tunnel, tunnel_loop>>
<1> USE DEF IInv, TypeOK
<1>1. CASE \E x \in Labels, t \in Tunnels : SelectTunnel(c, x, t)
  BY <1>1 DEF SelectTunnel
<1>2. CASE CountLifetime(c)
  BY <1>2 DEF CountLifetime
<1>3. CASE SendRequest(c)
  BY <1>3 DEF SendRequest
<1>4. CASE CountStream(c)
  BY <1>4 DEF CountStream
<1>5. CASE OpenQuicStream(c)
  BY <1>5 DEF OpenQuicStream
<1>6. CASE ConnectError(c)
  BY <1>6 DEF ConnectError, LeaveTunnel
<1>7. CASE LeaveQuic(c)
  BY <1>7 DEF LeaveQuic, LeaveTunnel
<1>8. CASE EndStream(c)
  BY <1>8 DEF EndStream
<1>9. CASE CountDown(c)
  BY <1>9 DEF CountDown
<1>10. CASE CloseIfRetired(c)
  BY <1>10 DEF CloseIfRetired
<1> QED
  BY <1>1, <1>2, <1>3, <1>4, <1>5, <1>6, <1>7, <1>8, <1>9, <1>10 DEF ConnStep

(* A connection that keeps out of the streams that count. *)
LEMMA SameStreams ==
  ASSUME UsersInv, NEW c \in Conns,
         UNCHANGED <<tunnel_loop, active_streams>>,
         \A d \in Conns : d # c => /\ conn_pc'[d] = conn_pc[d]
                                 /\ conn_tunnel'[d] = conn_tunnel[d],
         \A t \in Tunnels : c \in Streams(t)' <=> c \in Streams(t)
  PROVE  StreamsOK' /\ StreamsCounted'
<1>1. ASSUME NEW t \in Tunnels PROVE Streams(t)' = Streams(t)
  <2> SUFFICES ASSUME NEW d \in Conns, d # c
               PROVE  d \in Streams(t)' <=> d \in Streams(t)
    BY DEF Streams
  <2> QED  BY DEF Streams, IsHttp2
<1> QED  BY <1>1, StreamsEach DEF UsersInv, StreamsOK

(* select_tunnel hands out tunnels the label map knows of. *)
LEMMA SelectedKnown ==
  ASSUME IInv, NEW x \in Labels, NEW t \in Tunnels, t \in label_to_tunnels_map[x],
         label_lock = None
  PROVE  /\ tunnel_loop[t] \in Loops /\ t \in InCache
         /\ \A l \in Loops : loop_pc[l] = "set_permit" => loop_tunnel[l] # t
<1>1. t \in InLabels
  BY DEF IInv, MapsOK
<1>2. \A p \in Procs : section[p] \in {"out", "labels"}
  BY DEF IInv, LocksOK, TypeOK
<1>3. \/ closer_pc[t] \in {"spawned", "waiting", "closed"}
      \/ closer_pc[t] = "unregistering" /\ section[t] = "labels"
  BY <1>1, <1>2 DEF InLabels, Counts
<1>4. tunnel_loop[t] \in Loops /\ \A l \in Loops : loop_tunnel[l] # t
  BY <1>3 DEF IInv, LoopsOwnTunnels
<1>5. t \in InCache
  BY <1>3 DEF InCache, Counts
<1> QED  BY <1>4, <1>5

LEMMA OneUser ==
  ASSUME UsersInv, NEW c \in Conns, UNCHANGED <<loop_pc, loop_tunnel, tunnel_loop>>,
         \A d \in Conns : d # c => /\ conn_pc'[d] = conn_pc[d]
                                 /\ conn_tunnel'[d] = conn_tunnel[d],
         conn_pc'[c] # "idle" =>
           /\ tunnel_loop[conn_tunnel'[c]] \in Loops
           /\ conn_pc'[c] \in {"counted", "opened", "closed", "check"}
                => IsHttp2(conn_tunnel'[c])
           /\ \A l \in Loops :
                loop_pc[l] = "set_permit" => loop_tunnel[l] # conn_tunnel'[c]
  PROVE  UsersOK'
<1> SUFFICES ASSUME NEW d \in Conns, NEW t \in Tunnels, Using(d, t)'
             PROVE  /\ tunnel_loop'[t] \in Loops
                    /\ conn_pc'[d] \in {"counted", "opened", "closed", "check"}
                         => IsHttp2(t)'
                    /\ \A l \in Loops :
                         loop_pc'[l] = "set_permit" => loop_tunnel'[l] # t
  BY DEF UsersOK
<1>1. CASE d = c
  BY <1>1 DEF Using, IsHttp2
<1>2. CASE d # c
  <2>1. Using(d, t)
    BY <1>2 DEF Using
  <2> QED  BY <1>2, <2>1 DEF UsersInv, UsersOK, IsHttp2
<1> QED  BY <1>1, <1>2

(* One more stream, counted; one less, counted down. *)
LEMMA CountStreamUsers ==
  ASSUME IInv, UsersInv, NEW c \in Conns, CountStream(c) \/ CountDown(c)
  PROVE  StreamsOK' /\ StreamsCounted'
<1>1. /\ \A d \in Conns : d # c => conn_pc'[d] = conn_pc[d]
      /\ UNCHANGED <<conn_tunnel, tunnel_loop>>
  BY ConnStepFrame DEF ConnStep, CountStream, CountDown
<1>2. PICK t \in Tunnels : t = conn_tunnel[c] /\ Using(c, t) /\ IsHttp2(t)
  BY DEF CountStream, CountDown, IInv, ConnsOK, UsersInv, UsersOK, Using
<1>3. ASSUME NEW u \in Tunnels, u # t
      PROVE  Streams(u)' = Streams(u) /\ active_streams'[u] = active_streams[u]
  <2>1. c \notin Streams(u) /\ c \notin Streams(u)'
    BY <1>1, <1>2, <1>3 DEF Streams
  <2>2. \A d \in Conns : d # c => (d \in Streams(u)' <=> d \in Streams(u))
    BY <1>1 DEF Streams, IsHttp2
  <2>3. Streams(u)' = Streams(u)
    BY <2>1, <2>2 DEF Streams
  <2>4. active_streams'[u] = active_streams[u]
    BY <1>2, <1>3 DEF CountStream, CountDown, IInv, TypeOK
  <2> QED  BY <2>3, <2>4
<1>4. \A d \in Conns : d # c => (d \in Streams(t)' <=> d \in Streams(t))
  BY <1>1 DEF Streams, IsHttp2
<1>5. /\ IsFiniteSet(Streams(t)) /\ active_streams[t] = Cardinality(Streams(t))
      /\ Cardinality(Streams(t)) \in Nat
  BY <1>2, StreamsEach, FS_CardinalityType DEF UsersInv, StreamsOK
<1>6. CASE CountStream(c)
  <2>1. c \notin Streams(t) /\ c \in Streams(t)'
    BY <1>1, <1>2, <1>6 DEF Streams, IsHttp2, CountStream, IInv, TypeOK
  <2>2. Streams(t)' = Streams(t) \cup {c}
    BY <1>4, <2>1 DEF Streams
  <2>3. /\ IsFiniteSet(Streams(t) \cup {c})
        /\ Cardinality(Streams(t) \cup {c}) = Cardinality(Streams(t)) + 1
    BY <1>5, <2>1, FS_AddElement
  <2>4. active_streams'[t] = active_streams[t] + 1
    BY <1>2, <1>6 DEF CountStream, IInv, TypeOK
  <2>5. IsFiniteSet(Streams(t)') /\ active_streams'[t] = Cardinality(Streams(t)')
    BY <1>5, <2>2, <2>3, <2>4
  <2>6. ASSUME NEW u \in Tunnels
        PROVE  /\ IsFiniteSet(Streams(u)')
               /\ active_streams'[u] = Cardinality(Streams(u)')
    <3>1. CASE u = t
      BY <2>5, <3>1
    <3>2. CASE u # t
      <4>1. /\ IsFiniteSet(Streams(u))
            /\ active_streams[u] = Cardinality(Streams(u))
        BY StreamsEach DEF UsersInv, StreamsOK
      <4> QED  BY <1>3, <3>2, <4>1
    <3> QED  BY <3>1, <3>2
  <2> QED  BY <2>6, StreamsEach DEF StreamsOK
<1>7. CASE CountDown(c)
  <2>1. c \in Streams(t) /\ c \notin Streams(t)'
    BY <1>1, <1>2, <1>7 DEF Streams, IsHttp2, CountDown, IInv, TypeOK
  <2>2. Streams(t)' = Streams(t) \ {c}
    BY <1>4, <2>1 DEF Streams
  <2>3. /\ IsFiniteSet(Streams(t) \ {c})
        /\ Cardinality(Streams(t) \ {c}) = Cardinality(Streams(t)) - 1
    BY <1>5, <2>1, FS_RemoveElement
  <2>4. active_streams'[t] = active_streams[t] - 1
    BY <1>2, <1>7 DEF CountDown, IInv, TypeOK
  <2>5. IsFiniteSet(Streams(t)') /\ active_streams'[t] = Cardinality(Streams(t)')
    BY <1>5, <2>2, <2>3, <2>4
  <2>6. ASSUME NEW u \in Tunnels
        PROVE  /\ IsFiniteSet(Streams(u)')
               /\ active_streams'[u] = Cardinality(Streams(u)')
    <3>1. CASE u = t
      BY <2>5, <3>1
    <3>2. CASE u # t
      <4>1. /\ IsFiniteSet(Streams(u))
            /\ active_streams[u] = Cardinality(Streams(u))
        BY StreamsEach DEF UsersInv, StreamsOK
      <4> QED  BY <1>3, <3>2, <4>1
    <3> QED  BY <3>1, <3>2
  <2> QED  BY <2>6, StreamsEach DEF StreamsOK
<1> QED  BY <1>6, <1>7

LEMMA ConnStepUsers ==
  ASSUME IInv, UsersInv, NEW c \in Conns, ConnStep(c)
  PROVE  UsersInv'
<1> USE DEF IInv
<1>1. /\ \A d \in Conns : d # c => /\ conn_pc'[d] = conn_pc[d]
                                  /\ conn_tunnel'[d] = conn_tunnel[d]
      /\ UNCHANGED <<loop_pc, loop_tunnel, tunnel_loop>>
  BY ConnStepFrame
<1>2. conn_pc[c] # "idle" =>
        /\ conn_tunnel[c] \in Tunnels
        /\ tunnel_loop[conn_tunnel[c]] \in Loops
        /\ conn_pc[c] \in {"counted", "opened", "closed", "check"}
             => IsHttp2(conn_tunnel[c])
        /\ \A l \in Loops :
             loop_pc[l] = "set_permit" => loop_tunnel[l] # conn_tunnel[c]
  BY DEF ConnsOK, UsersInv, UsersOK, Using
<1>3. UsersOK'
  <2>1. CASE \E x \in Labels, t \in Tunnels : SelectTunnel(c, x, t)
    <3>1. PICK x \in Labels, t \in Tunnels : SelectTunnel(c, x, t)
      BY <2>1
    <3>2. t \in label_to_tunnels_map[x] /\ label_lock = None
      BY <3>1 DEF SelectTunnel, Selectable
    <3>3. conn_pc'[c] = "selected" /\ conn_tunnel'[c] = t
      BY <3>1 DEF SelectTunnel, TypeOK
    <3> QED  BY <1>1, <3>2, <3>3, SelectedKnown, OneUser
  <2>2. CASE CountLifetime(c)
    <3>1. conn_pc[c] # "idle" /\ conn_tunnel'[c] = conn_tunnel[c]
          /\ IsHttp2(conn_tunnel[c])
      BY <2>2 DEF CountLifetime
    <3> QED  BY <1>1, <1>2, <3>1, OneUser
  <2>3. CASE SendRequest(c) \/ CountStream(c) \/ CountDown(c)
    <3>1. conn_pc[c] \in {"counted", "opened", "closed"}
          /\ conn_tunnel'[c] = conn_tunnel[c]
      BY <2>3 DEF SendRequest, CountStream, CountDown
    <3> QED  BY <1>1, <1>2, <3>1, OneUser
  <2>4. CASE OpenQuicStream(c)
    <3>1. conn_pc[c] # "idle" /\ conn_tunnel'[c] = conn_tunnel[c]
          /\ conn_pc'[c] = "streaming"
      BY <2>4 DEF OpenQuicStream, TypeOK
    <3> QED  BY <1>1, <1>2, <3>1, OneUser
  <2>5. CASE EndStream(c)
    <3>1. conn_pc[c] # "idle" /\ conn_tunnel'[c] = conn_tunnel[c]
          /\ IsHttp2(conn_tunnel[c])
      BY <2>5 DEF EndStream
    <3> QED  BY <1>1, <1>2, <3>1, OneUser
  <2>6. CASE ConnectError(c) \/ LeaveQuic(c) \/ CloseIfRetired(c)
    <3>1. conn_pc'[c] = "idle"
      BY <2>6 DEF ConnectError, LeaveQuic, LeaveTunnel, CloseIfRetired, TypeOK
    <3> QED  BY <1>1, <3>1, OneUser
  <2> QED  BY <2>1, <2>2, <2>3, <2>4, <2>5, <2>6 DEF ConnStep
<1>4. StreamsOK' /\ StreamsCounted'
  <2>1. CASE CountStream(c) \/ CountDown(c)
    BY <2>1, CountStreamUsers
  <2>2. CASE ~ (CountStream(c) \/ CountDown(c))
    <3>1. active_streams' = active_streams
      BY <2>2 DEF ConnStep, SelectTunnel, CountLifetime, SendRequest,
           OpenQuicStream, ConnectError, LeaveQuic, LeaveTunnel, EndStream,
           CloseIfRetired
    <3>2. CASE EndStream(c)
      <4>1. /\ conn_tunnel' = conn_tunnel
            /\ conn_pc[c] = "streaming" /\ conn_pc'[c] = "closed"
        BY <3>2 DEF EndStream, TypeOK
      <4>2. \A t \in Tunnels : c \in Streams(t)' <=> c \in Streams(t)
        BY <1>1, <4>1 DEF Streams, IsHttp2
      <4> QED  BY <1>1, <3>1, <4>2, SameStreams
    <3>3. CASE ~ EndStream(c)
      <4>1. /\ \/ conn_pc[c] \notin {"streaming", "closed"}
               \/ ~ IsHttp2(conn_tunnel[c])
            /\ \/ conn_pc'[c] \notin {"streaming", "closed"}
               \/ conn_tunnel'[c] = conn_tunnel[c] /\ ~ IsHttp2(conn_tunnel[c])
        <5>1. CASE \E x \in Labels, t \in Tunnels : SelectTunnel(c, x, t)
          BY <5>1 DEF SelectTunnel, TypeOK
        <5>2. CASE CountLifetime(c)
          BY <5>2 DEF CountLifetime, TypeOK
        <5>3. CASE SendRequest(c)
          BY <5>3 DEF SendRequest, TypeOK
        <5>4. CASE OpenQuicStream(c)
          BY <5>4 DEF OpenQuicStream, TypeOK
        <5>5. CASE ConnectError(c)
          BY <5>5 DEF ConnectError, LeaveTunnel, TypeOK
        <5>6. CASE LeaveQuic(c)
          BY <5>6 DEF LeaveQuic, LeaveTunnel, TypeOK
        <5>7. CASE CloseIfRetired(c)
          BY <5>7 DEF CloseIfRetired, TypeOK
        <5> QED
          BY <2>2, <3>3, <5>1, <5>2, <5>3, <5>4, <5>5, <5>6, <5>7
          DEF ConnStep
      <4>2. \A t \in Tunnels : c \notin Streams(t)' /\ c \notin Streams(t)
        BY <1>1, <4>1 DEF Streams, IsHttp2
      <4> QED  BY <1>1, <3>1, <4>2, SameStreams
    <3> QED  BY <3>2, <3>3
  <2> QED  BY <2>1, <2>2
<1>5. conn_pc'[c] = "idle" => conn_tunnel'[c] = None
  <2>1. CASE ConnectError(c) \/ LeaveQuic(c) \/ CloseIfRetired(c)
    BY <2>1 DEF ConnectError, LeaveQuic, LeaveTunnel, CloseIfRetired, TypeOK
  <2>2. CASE ~ (ConnectError(c) \/ LeaveQuic(c) \/ CloseIfRetired(c))
    <3>1. conn_pc'[c] # "idle"
      BY <2>2 DEF ConnStep, SelectTunnel, CountLifetime, SendRequest,
         CountStream, OpenQuicStream, EndStream, CountDown, TypeOK
    <3> QED  BY <3>1
  <2> QED  BY <2>1, <2>2
<1>6. IdleOK'
  BY <1>1, <1>5 DEF UsersInv, IdleOK
<1> QED  BY <1>3, <1>4, <1>6 DEF UsersInv
-----------------------------------------------------------------------------
(* The request sender of a tunnel that takes new streams. *)

(* A tunnel loses its permit, or keeps what it has. *)
NoNewPermit ==
  \A t \in Tunnels : active_permit'[t] = active_permit[t] \/ active_permit'[t] = 0

LEMMA SendersQuiet ==
  ASSUME SendersInv, UNCHANGED request_sender, NoNewPermit,
         \A l \in Loops : loop_pc'[l] = "set_permit" =>
           loop_pc[l] = "set_permit" /\ loop_tunnel'[l] = loop_tunnel[l]
  PROVE  SendersInv'
<1>1. SendersOK'
  BY DEF SendersInv, SendersOK
<1>2. ActiveHasSender'
  BY DEF SendersInv, ActiveHasSender, IsActive, NoNewPermit
<1> QED  BY <1>1, <1>2 DEF SendersInv

LEMMA DropArcLosesPermit ==
  ASSUME TypeOK, NEW t \in Tunnels, NEW last,
         TakePermit(t) \/ DropArc(t, last) \/ UNCHANGED permitVars
  PROVE  NoNewPermit
BY DEF TakePermit, DropArc, TypeOK, NoNewPermit

LEMMA LoopStepSenders ==
  ASSUME IInv, SendersInv, NEW l \in Loops, LoopStep(l)
  PROVE  SendersInv'
<1> USE DEF IInv
<1>1. CASE \E t \in Tunnels : AcceptTunnel(l, t)
  <2>1. PICK t \in Tunnels : AcceptTunnel(l, t)
    BY <1>1
  <2>2. /\ loop_tunnel'[l] = t /\ request_sender'[t] = TRUE
        /\ \A k \in Loops : k # l => /\ loop_tunnel'[k] = loop_tunnel[k]
                                    /\ loop_pc'[k] = loop_pc[k]
        /\ \A u \in Tunnels : u # t => request_sender'[u] = request_sender[u]
        /\ active_permit' = active_permit
    BY <2>1 DEF AcceptTunnel, TypeOK
  <2>3. ActiveHasSender'
    BY <2>2 DEF SendersInv, ActiveHasSender, IsActive
  <2>4. ASSUME NEW k \in Loops, loop_pc'[k] = "set_permit"
        PROVE  request_sender'[loop_tunnel'[k]]
    <3>1. CASE k = l
      BY <2>2, <3>1
    <3>2. CASE k # l
      <4>1. loop_tunnel[k] \in Tunnels /\ request_sender[loop_tunnel[k]]
        BY <2>2, <2>4, <3>2 DEF SendersInv, SendersOK, LoopsOwnTunnels, TypeOK
      <4>2. loop_tunnel[k] = t \/ request_sender'[loop_tunnel[k]]
        BY <2>2, <4>1
      <4> QED  BY <2>2, <3>2, <4>2
    <3> QED  BY <3>1, <3>2
  <2> QED  BY <2>3, <2>4 DEF SendersInv, SendersOK
<1>2. CASE SetActivePermit(l)
  <2>1. /\ loop_pc[l] = "set_permit" /\ request_sender[loop_tunnel[l]]
        /\ UNCHANGED <<request_sender, loop_tunnel>>
        /\ \A k \in Loops : loop_pc'[k] = "set_permit" => loop_pc[k] = "set_permit"
        /\ \A u \in Tunnels :
             u # loop_tunnel[l] => active_permit'[u] = active_permit[u]
    BY <1>2 DEF SetActivePermit, SendersInv, SendersOK, TypeOK
  <2>2. ActiveHasSender'
    BY <2>1 DEF SendersInv, ActiveHasSender, IsActive
  <2>3. SendersOK'
    BY <2>1 DEF SendersInv, SendersOK
  <2> QED  BY <2>2, <2>3 DEF SendersInv
<1>3. CASE ~ (SetActivePermit(l) \/ \E t \in Tunnels : AcceptTunnel(l, t))
  <2>1. /\ UNCHANGED <<request_sender, active_permit>>
        /\ loop_tunnel' = loop_tunnel \/ FinishRegister(l)
    BY <1>3 DEF LoopStep, AcceptOut, AcquirePermit, AcceptNone, AcceptError,
         WakeUp, LockAndInsert, RegisterTunnel, UpdateOutRules, FinishRegister,
         Unlock
  <2>2. \A k \in Loops : loop_pc'[k] = "set_permit" =>
          loop_pc[k] = "set_permit" /\ loop_tunnel'[k] = loop_tunnel[k]
    <3>1. \A k \in Loops : loop_pc'[k] = "set_permit" => loop_pc[k] = "set_permit"
      BY <1>3 DEF LoopStep, AcceptOut, AcquirePermit, AcceptNone, AcceptError,
         WakeUp, LockAndInsert, RegisterTunnel, UpdateOutRules, FinishRegister,
         TypeOK
    <3>2. FinishRegister(l) => loop_pc'[l] # "set_permit" /\
            \A k \in Loops : k # l => loop_tunnel'[k] = loop_tunnel[k]
      BY DEF FinishRegister, TypeOK
    <3> QED  BY <2>1, <3>1, <3>2
  <2> QED  BY <2>1, <2>2, SendersQuiet DEF NoNewPermit
<1> QED  BY <1>1, <1>2, <1>3

LEMMA TunnelStepSenders ==
  ASSUME IInv, SendersInv, NEW t \in Tunnels, TunnelStep(t)
  PROVE  SendersInv'
<1>1. UNCHANGED <<loopVars, request_sender>>
  BY DEF TunnelStep, LoseConnection, ConnectionIdle, TakePermitOnEnd,
         NotifyClosed, CloserWait, QuicClosed, LockAndRemove, UnregisterTunnel,
         UpdateOutRules, FinishClose, Unlock
<1>2. TakePermit(t) \/ (\E last \in BOOLEAN : DropArc(t, last)) \/ UNCHANGED permitVars
  BY DEF TunnelStep, LoseConnection, ConnectionIdle, TakePermitOnEnd,
         NotifyClosed, CloserWait, QuicClosed, LockAndRemove, UnregisterTunnel,
         UpdateOutRules, FinishClose, HeldByConns
<1>3. NoNewPermit
  BY <1>2, DropArcLosesPermit DEF IInv
<1> QED  BY <1>1, <1>3, SendersQuiet

(* The stream-closed task spares tunnels that may be selected. *)
LEMMA ConnStepSenders ==
  ASSUME IInv, UsersInv, SendersInv, NEW c \in Conns, ConnStep(c)
  PROVE  SendersInv'
<1> USE DEF IInv
<1>1. UNCHANGED <<loop_pc, loop_tunnel>>
  BY ConnStepFrame
<1>2. CASE CloseIfRetired(c)
  <2>1. PICK t \in Tunnels : t = conn_tunnel[c] /\ Using(c, t)
    BY <1>2 DEF CloseIfRetired, ConnsOK, Using
  <2>2. /\ active_permit' = active_permit
        /\ \A u \in Tunnels : u # t => request_sender'[u] = request_sender[u]
        /\ request_sender'[t] = request_sender[t] \/ ~ IsActive(t)
    BY <1>2, <2>1 DEF CloseIfRetired, MayClose, TypeOK
  <2>3. ActiveHasSender'
    BY <2>2 DEF SendersInv, ActiveHasSender, IsActive
  <2>4. \A l \in Loops : loop_pc[l] = "set_permit" =>
          /\ loop_tunnel[l] \in Tunnels /\ loop_tunnel[l] # t
          /\ request_sender[loop_tunnel[l]]
    BY <2>1 DEF UsersInv, UsersOK, SendersInv, SendersOK, LoopsOwnTunnels, TypeOK
  <2>5. SendersOK'
    BY <1>1, <2>2, <2>4 DEF SendersOK
  <2> QED  BY <2>3, <2>5 DEF SendersInv
<1>3. CASE ~ CloseIfRetired(c)
  <2>1. request_sender' = request_sender
    BY <1>3 DEF ConnStep, SelectTunnel, CountLifetime, SendRequest, CountStream,
         OpenQuicStream, ConnectError, LeaveQuic, LeaveTunnel, EndStream,
         CountDown
  <2>2. \/ UNCHANGED permitVars
        \/ /\ conn_pc[c] # "idle"
           /\ \/ TakePermit(conn_tunnel[c])
              \/ DropConnArc(c)
    BY <1>3 DEF ConnStep, SelectTunnel, CountLifetime, SendRequest, CountStream,
         OpenQuicStream, ConnectError, LeaveQuic, LeaveTunnel, EndStream,
         CountDown
  <2>3. NoNewPermit
    BY <2>2, DropArcLosesPermit DEF DropConnArc, ConnsOK, NoNewPermit
  <2> QED  BY <1>1, <2>1, <2>3, SendersQuiet
<1> QED  BY <1>2, <1>3

-----------------------------------------------------------------------------
(* All together. *)

LEMMA InitPoolInv == Init => PoolInv
<1> SUFFICES ASSUME Init PROVE PoolInv
  OBVIOUS
<1>1. IInv
  BY InitInv
<1>2. PermitsInv
  BY DEF Init, PermitsInv, PermitsOK, PermitConservation, Running
<1>3. \A t \in Tunnels : Streams(t) = {} /\ active_streams[t] = 0
  BY DEF Init, Streams
<1>4. UsersInv
  BY <1>3, StreamsEach, FS_EmptySet DEF Init, UsersInv, UsersOK, IdleOK, Using,
                                       StreamsOK
<1>5. SendersInv
  BY DEF Init, SendersInv, SendersOK, ActiveHasSender, IsActive
<1> QED  BY <1>1, <1>2, <1>4, <1>5 DEF PoolInv

LEMMA PoolQuiet ==
  ASSUME PermitsInv, UsersInv, SendersInv,
         UNCHANGED <<loopVars, permitVars, tunnel_loop, streamVars, connVars>>
  PROVE  PermitsInv' /\ UsersInv' /\ SendersInv'
BY PermitQuiet, UsersQuiet, SendersQuiet DEF Running, InHand, NoNewPermit

LEMMA StepPoolInv == PoolInv /\ [Next]_vars => PoolInv'
<1> SUFFICES ASSUME IInv, PermitsInv, UsersInv, SendersInv, [Next]_vars
             PROVE  PermitsInv' /\ UsersInv' /\ SendersInv'
  BY StepInv DEF PoolInv
<1>1. ASSUME NEW l \in Loops, LoopStep(l)
      PROVE  PermitsInv' /\ UsersInv' /\ SendersInv'
  <2>1. UsersInv'
    <3>1. CASE \E t \in Tunnels : AcceptTunnel(l, t)
      BY <3>1, AcceptTunnelUsers
    <3>2. CASE ~ \E t \in Tunnels : AcceptTunnel(l, t)
      <4>1. UNCHANGED <<conn_pc, conn_tunnel, tunnel_loop, active_streams>>
        BY <1>1, <3>2 DEF LoopStep, AcceptOut, AcquirePermit, AcceptNone,
           AcceptError, WakeUp, SetActivePermit, LockAndInsert, RegisterTunnel,
           UpdateOutRules, FinishRegister, Unlock
      <4>2. \A k \in Loops : loop_pc'[k] = "set_permit" =>
              loop_pc[k] = "set_permit" /\ loop_tunnel'[k] = loop_tunnel[k]
        BY <1>1, <3>2 DEF LoopStep, AcceptOut, AcquirePermit, AcceptNone,
           AcceptError, WakeUp, SetActivePermit, LockAndInsert, RegisterTunnel,
           UpdateOutRules, FinishRegister, Unlock, IInv, TypeOK
      <4> QED  BY <4>1, <4>2, UsersQuiet
    <3> QED  BY <3>1, <3>2
  <2> QED  BY <1>1, <2>1, LoopStepPermits, LoopStepSenders
<1>2. ASSUME NEW t \in Tunnels, TunnelStep(t)
      PROVE  PermitsInv' /\ UsersInv' /\ SendersInv'
  <2>1. UNCHANGED <<conn_pc, conn_tunnel, tunnel_loop, active_streams, loopVars>>
    BY <1>2 DEF TunnelStep, LoseConnection, ConnectionIdle, TakePermitOnEnd,
         NotifyClosed, CloserWait, QuicClosed, LockAndRemove, UnregisterTunnel,
         UpdateOutRules, FinishClose, Unlock
  <2>2. UsersInv'
    BY <2>1, UsersQuiet
  <2> QED  BY <1>2, <2>2, TunnelStepPermits, TunnelStepSenders
<1>3. ASSUME NEW p \in Procs, SectionStep(p)
      PROVE  PermitsInv' /\ UsersInv' /\ SendersInv'
  BY <1>3, PoolQuiet DEF SectionStep, UpdateLabelMap, CollectRules, WriteCache
<1>4. ASSUME NEW c \in Conns, ConnStep(c)
      PROVE  PermitsInv' /\ UsersInv' /\ SendersInv'
  BY <1>4, ConnStepPermits, ConnStepUsers, ConnStepSenders
<1>5. CASE UNCHANGED vars
  BY <1>5, PoolQuiet DEF vars
<1> QED  BY <1>1, <1>2, <1>3, <1>4, <1>5 DEF Next

THEOREM PoolInvariance == Spec => []PoolInv
BY InitPoolInv, StepPoolInv, PTL DEF Spec

(* PermitConservation: whatever the interleaving of retirements, lost      *)
(* connections, refused streams and late set_active_permit calls, no       *)
(* permit of a running handle_out call is duplicated or lost, for any      *)
(* number of loops, tunnels, connections and permits.                      *)
THEOREM PermitsConserved == Spec => []PermitConservation
BY PoolInvariance, PTL DEF PoolInv, PermitsInv

(* StreamsCounted: active_streams of a tunnel is the number of its streams *)
(* of which the stream-closed task has yet to count down.                  *)
THEOREM StreamsAreCounted == Spec => []StreamsCounted
BY PoolInvariance, PTL DEF PoolInv, UsersInv

(* ActiveHasSender: a tunnel that select_tunnel may hand out has not been  *)
(* closed by the stream-closed task of an earlier stream.                  *)
THEOREM ActiveTunnelHasSender == Spec => []ActiveHasSender
BY PoolInvariance, PTL DEF PoolInv, SendersInv
-----------------------------------------------------------------------------
(* The refinement of TunnelPool. *)

(* The pool's members are the tunnels the router's cache stands for. *)
CacheShowsMembers ==
  rules_groups_cache = {OutOrNone(t) : t \in {u \in Tunnels : Joined(u)}}

LEMMA JoinedIsCached ==
  IInv => /\ \A t \in Tunnels : Joined(t) <=> t \in InCache
          /\ CacheShowsMembers
<1> SUFFICES ASSUME IInv
             PROVE  /\ \A t \in Tunnels : Joined(t) <=> t \in InCache
                    /\ CacheShowsMembers
  OBVIOUS
<1>1. \A t \in Tunnels : closer_pc[t] = "unregistering" => section[t] # "out"
  BY DEF IInv, LocksOK
<1>2. \A t \in Tunnels : Joined(t) <=> t \in InCache
  BY <1>1 DEF Joined, InCache, Counts, IInv, TypeOK
<1>3. \A t \in Tunnels : Joined(t) \/ Left(t) => tunnel_loop[t] \in Loops
  BY DEF Joined, Left, IInv, LoopsOwnTunnels
<1>4. InCache = {u \in Tunnels : Joined(u)}
  BY <1>2 DEF InCache
<1>5. \A t \in InCache : OutOrNone(t) = Out(t)
  BY <1>3, <1>4 DEF OutOrNone
<1>6. rules_groups_cache = {Out(t) : t \in InCache}
  BY DEF IInv, MapsOK
<1> QED  BY <1>2, <1>4, <1>5, <1>6 DEF CacheShowsMembers

(* Membership depends on closers, on loops' tunnels and on who leaves the  *)
(* critical section.                                                       *)
SameMembers ==
  \A t \in Tunnels : (Joined(t)' <=> Joined(t)) /\ (Left(t)' <=> Left(t))

LEMMA MembersKept ==
  ASSUME UNCHANGED <<loop_tunnel, closer_pc>>,
         \A p \in Procs : section'[p] = "leave" <=> section[p] = "leave"
  PROVE  SameMembers
BY DEF SameMembers, Joined, Left

(* Steps the pool does not see. *)
PoolStutters == UNCHANGED Pool!vars

LEMMA Unseen ==
  ASSUME SameMembers,
         UNCHANGED <<tunnel_loop, rules_groups_cache, conn_tunnel>>,
         \A t \in Tunnels : Joined(t) => active_permit'[t] = active_permit[t]
  PROVE  PoolStutters
<1>1. [t \in Tunnels |-> OutOrNone(t)]' = [t \in Tunnels |-> OutOrNone(t)]
  BY DEF OutOrNone, Out
<1>2. {t \in Tunnels : Joined(t)}' = {t \in Tunnels : Joined(t)}
  BY DEF SameMembers
<1>3. {t \in Tunnels : Left(t)}' = {t \in Tunnels : Left(t)}
  BY DEF SameMembers
<1>4. {t \in Tunnels : Joined(t) /\ IsActive(t)}'
        = {t \in Tunnels : Joined(t) /\ IsActive(t)}
  BY DEF SameMembers, IsActive
<1> QED  BY <1>1, <1>2, <1>3, <1>4 DEF PoolStutters, Pool!vars

(* A tunnel that gives up its permit is retired, when the pool knows it    *)
(* and it had one.                                                         *)
LEMMA Retires ==
  ASSUME TypeOK, NEW t \in Tunnels, TakePermit(t), SameMembers,
         UNCHANGED <<tunnel_loop, rules_groups_cache, conn_tunnel>>
  PROVE  Pool!Retire(t) \/ PoolStutters
<1>1. /\ active_permit'[t] = 0
      /\ \A u \in Tunnels : u # t => active_permit'[u] = active_permit[u]
  BY DEF TakePermit, TypeOK
<1>2. CASE Joined(t) /\ IsActive(t)
  <2>1. [u \in Tunnels |-> OutOrNone(u)]' = [u \in Tunnels |-> OutOrNone(u)]
    BY DEF OutOrNone, Out
  <2>2. {u \in Tunnels : Joined(u)}' = {u \in Tunnels : Joined(u)}
    BY DEF SameMembers
  <2>3. {u \in Tunnels : Left(u)}' = {u \in Tunnels : Left(u)}
    BY DEF SameMembers
  <2>4. /\ t \in {u \in Tunnels : Joined(u) /\ IsActive(u)}
        /\ {u \in Tunnels : Joined(u) /\ IsActive(u)}'
             = {u \in Tunnels : Joined(u) /\ IsActive(u)} \ {t}
    BY <1>1, <1>2 DEF SameMembers, IsActive
  <2> QED  BY <2>1, <2>2, <2>3, <2>4 DEF Pool!Retire
<1>3. CASE ~ (Joined(t) /\ IsActive(t))
  BY <1>1, <1>3, Unseen DEF IsActive
<1> QED  BY <1>2, <1>3

(* accept: the pool learns of which OUT a tunnel is. *)
LEMMA Meets ==
  ASSUME IInv, NEW l \in Loops, NEW t \in Tunnels, AcceptTunnel(l, t)
  PROVE  Pool!Meet(t, OutOf[l])
<1>1. /\ tunnel_loop[t] = None /\ tunnel_loop'[t] = l
      /\ loop_tunnel[l] = None /\ loop_tunnel'[l] = t
      /\ section[l] = "out" /\ closer_pc[t] = "none"
      /\ \A k \in Loops : loop_tunnel[k] # t
      /\ \A k \in Loops : k # l => loop_tunnel'[k] = loop_tunnel[k]
      /\ \A u \in Tunnels : u # t => tunnel_loop'[u] = tunnel_loop[u]
      /\ UNCHANGED <<section, closer_pc, active_permit, rules_groups_cache,
                     conn_tunnel>>
  <2>1. /\ loop_pc[l] = "accept" /\ tunnel_loop[t] = None
        /\ tunnel_loop' = [tunnel_loop EXCEPT ![t] = l]
        /\ loop_tunnel' = [loop_tunnel EXCEPT ![l] = t]
        /\ UNCHANGED <<section, closer_pc, active_permit, rules_groups_cache,
                       conn_tunnel>>
    BY DEF AcceptTunnel
  <2>2. loop_tunnel[l] = None /\ section[l] = "out"
    BY <2>1 DEF IInv, LoopsOwnTunnels, LocksOK, TypeOK
  <2>3. closer_pc[t] = "none" /\ \A k \in Loops : loop_tunnel[k] # t
    BY <2>1 DEF IInv, LoopsOwnTunnels
  <2> QED  BY <2>1, <2>2, <2>3 DEF IInv, TypeOK
<1>2. ~ Joined(t) /\ ~ Left(t)
  BY <1>1 DEF Joined, Left
<1>3. SameMembers
  BY <1>1 DEF SameMembers, Joined, Left
<1>4. [u \in Tunnels |-> OutOrNone(u)]'
        = [[u \in Tunnels |-> OutOrNone(u)] EXCEPT ![t] = OutOf[l]]
  <2>1. OutOrNone(t)' = OutOf[l]
    BY <1>1 DEF OutOrNone, Out
  <2>2. \A u \in Tunnels : u # t => OutOrNone(u)' = OutOrNone(u)
    BY <1>1 DEF OutOrNone, Out
  <2> QED  BY <2>1, <2>2
<1>5. {u \in Tunnels : Joined(u)}' = {u \in Tunnels : Joined(u)}
  BY <1>3 DEF SameMembers
<1>6. {u \in Tunnels : Left(u)}' = {u \in Tunnels : Left(u)}
  BY <1>3 DEF SameMembers
<1>7. {u \in Tunnels : Joined(u) /\ IsActive(u)}'
        = {u \in Tunnels : Joined(u) /\ IsActive(u)}
  BY <1>1, <1>3 DEF SameMembers, IsActive
<1> QED  BY <1>1, <1>2, <1>4, <1>5, <1>6, <1>7 DEF Pool!Meet

(* The router's cache is written by the process in the critical section:   *)
(* the tunnel of a loop joins, the tunnel of a closer leaves.              *)
LEMMA Writes ==
  ASSUME IInv, IInv', NEW p \in Procs, WriteCache(p)
  PROVE  \E t \in Tunnels : Pool!Join(t) \/ Pool!Leave(t)
<1>1. /\ section[p] = "write" /\ section'[p] = "leave"
      /\ \A q \in Procs : q # p => section[q] = "out" /\ section'[q] = "out"
      /\ UNCHANGED <<loop_tunnel, closer_pc, tunnel_loop, active_permit,
                     conn_tunnel>>
  BY DEF WriteCache, IInv, TypeOK, LocksOK
<1>2. [u \in Tunnels |-> OutOrNone(u)]' = [u \in Tunnels |-> OutOrNone(u)]
  BY <1>1 DEF OutOrNone, Out
<1>3. rules_groups_cache' = {OutOrNone(u) : u \in {v \in Tunnels : Joined(v)}'}
  <2>1. CacheShowsMembers'
    BY JoinedIsCached, PTL
  <2> QED  BY <1>1, <2>1 DEF CacheShowsMembers, OutOrNone, Out
<1>4. rules_groups_cache' = Pool!OutsOf({v \in Tunnels : Joined(v)}')
  <2>1. \A u \in Tunnels : [v \in Tunnels |-> OutOrNone(v)][u] = OutOrNone(u)
    OBVIOUS
  <2> QED  BY <1>3, <2>1 DEF Pool!OutsOf
<1>5. CASE p \in Loops
  <2>1. PICK t \in Tunnels : t = loop_tunnel[p] /\ closer_pc[t] = "none"
    BY <1>1, <1>5 DEF IInv, TypeOK, LoopsOwnTunnels, LocksOK
  <2>2. ~ Joined(t) /\ ~ Left(t) /\ Joined(t)' /\ ~ Left(t)'
    BY <1>1, <1>5, <2>1 DEF Joined, Left
  <2>3. \A u \in Tunnels : u # t =>
          (Joined(u)' <=> Joined(u)) /\ (Left(u)' <=> Left(u))
    BY <1>1, <1>5, <2>1 DEF Joined, Left, IInv, LocksOK
  <2>4. /\ t \notin {u \in Tunnels : Joined(u)} \cup {u \in Tunnels : Left(u)}
        /\ {u \in Tunnels : Joined(u)}' = {u \in Tunnels : Joined(u)} \cup {t}
        /\ {u \in Tunnels : Left(u)}' = {u \in Tunnels : Left(u)}
    BY <2>2, <2>3
  <2>5. {u \in Tunnels : Joined(u) /\ IsActive(u)}' \in
          {{u \in Tunnels : Joined(u) /\ IsActive(u)},
           {u \in Tunnels : Joined(u) /\ IsActive(u)} \cup {t}}
    <3>1. \A u \in Tunnels : IsActive(u)' <=> IsActive(u)
      BY <1>1 DEF IsActive
    <3>2. CASE IsActive(t)
      <4>1. {u \in Tunnels : Joined(u) /\ IsActive(u)}'
              = {u \in Tunnels : Joined(u) /\ IsActive(u)} \cup {t}
        BY <2>2, <2>3, <3>1, <3>2
      <4> QED  BY <4>1
    <3>3. CASE ~ IsActive(t)
      <4>1. {u \in Tunnels : Joined(u) /\ IsActive(u)}'
              = {u \in Tunnels : Joined(u) /\ IsActive(u)}
        BY <2>2, <2>3, <3>1, <3>3
      <4> QED  BY <4>1
    <3> QED  BY <3>2, <3>3
  <2>6. Pool!Join(t)
    BY <1>1, <1>2, <1>4, <2>4, <2>5 DEF Pool!Join
  <2> QED  BY <2>6
<1>6. CASE p \in Tunnels
  <2>1. /\ closer_pc[p] = "unregistering" /\ \A k \in Loops : loop_tunnel[k] # p
    BY <1>1, <1>6 DEF IInv, LoopsOwnTunnels, LocksOK
  <2>2. Joined(p) /\ ~ Joined(p)' /\ Left(p)'
    BY <1>1, <1>6, <2>1 DEF Joined, Left
  <2>3. \A u \in Tunnels : u # p =>
          (Joined(u)' <=> Joined(u)) /\ (Left(u)' <=> Left(u))
    BY <1>1, <1>6, <2>1 DEF Joined, Left, IInv, LocksOK
  <2>4. /\ p \in {u \in Tunnels : Joined(u)}
        /\ {u \in Tunnels : Joined(u)}' = {u \in Tunnels : Joined(u)} \ {p}
        /\ {u \in Tunnels : Left(u)}' = {u \in Tunnels : Left(u)} \cup {p}
    BY <1>6, <2>2, <2>3
  <2>5. {u \in Tunnels : Joined(u) /\ IsActive(u)}' =
          {u \in Tunnels : Joined(u) /\ IsActive(u)} \ {p}
    <3>1. \A u \in Tunnels : IsActive(u)' <=> IsActive(u)
      BY <1>1 DEF IsActive
    <3> QED  BY <2>2, <2>3, <3>1
  <2>6. Pool!Leave(p)
    BY <1>1, <1>2, <1>4, <2>4, <2>5 DEF Pool!Leave
  <2> QED  BY <1>6, <2>6
<1> QED  BY <1>5, <1>6

LEMMA LoopStepPool ==
  ASSUME PoolInv, NEW l \in Loops, LoopStep(l)
  PROVE  (\E t \in Tunnels, o \in Outs : Pool!Meet(t, o)) \/ PoolStutters
<1> USE DEF PoolInv, IInv
<1>1. CASE \E t \in Tunnels : AcceptTunnel(l, t)
  BY <1>1, Meets
<1>2. CASE SetActivePermit(l)
  <2>1. PICK t \in Tunnels : t = loop_tunnel[l] /\ closer_pc[t] = "none"
                            /\ section[l] = "out" /\ tunnel_loop[t] = l
    BY <1>2 DEF SetActivePermit, TypeOK, LoopsOwnTunnels, LocksOK
  <2>2. ~ Joined(t)
    BY <2>1 DEF Joined, LoopsOwnTunnels
  <2>3. \A u \in Tunnels : u # t => active_permit'[u] = active_permit[u]
    BY <1>2, <2>1 DEF SetActivePermit, TypeOK
  <2>4. UNCHANGED <<loop_tunnel, closer_pc, section, tunnel_loop,
                    rules_groups_cache, conn_tunnel>>
    BY <1>2 DEF SetActivePermit
  <2> QED  BY <2>2, <2>3, <2>4, MembersKept, Unseen
<1>3. CASE LockAndInsert(l) \/ RegisterTunnel(l)
  <2>1. UNCHANGED <<loop_tunnel, closer_pc, tunnel_loop, active_permit,
                    rules_groups_cache, conn_tunnel>>
    BY <1>3 DEF LockAndInsert, LockTunnelMap, RegisterTunnel, UpdateOutRules
  <2>2. \A p \in Procs : section'[p] = "leave" <=> section[p] = "leave"
    BY <1>3 DEF LockAndInsert, LockTunnelMap, RegisterTunnel, UpdateOutRules,
                TypeOK
  <2> QED  BY <2>1, <2>2, MembersKept, Unseen
<1>4. CASE FinishRegister(l)
  <2>1. /\ section[l] = "leave" /\ loop_pc[l] = "registering"
        /\ section' = [section EXCEPT ![l] = "out"]
        /\ closer_pc' = [closer_pc EXCEPT ![loop_tunnel[l]] = "spawned"]
        /\ loop_tunnel' = [loop_tunnel EXCEPT ![l] = None]
        /\ UNCHANGED <<tunnel_loop, active_permit, rules_groups_cache, conn_tunnel>>
    BY <1>4 DEF FinishRegister, Unlock
  <2>2. PICK t \in Tunnels : /\ t = loop_tunnel[l] /\ closer_pc[t] = "none"
                            /\ \A k \in Loops : k # l => loop_tunnel[k] # t
    BY <2>1 DEF TypeOK, LoopsOwnTunnels
  <2>3. Joined(t) /\ Joined(t)' /\ ~ Left(t) /\ ~ Left(t)'
    BY <2>1, <2>2 DEF Joined, Left, TypeOK
  <2>4. /\ \A p \in Procs : p # l => section'[p] = section[p]
        /\ section'[l] = "out" /\ loop_tunnel'[l] = None
        /\ \A k \in Loops : k # l => loop_tunnel'[k] = loop_tunnel[k]
        /\ \A u \in Tunnels : u # t => closer_pc'[u] = closer_pc[u]
    BY <2>1, <2>2 DEF TypeOK
  <2>5. ASSUME NEW u \in Tunnels, u # t
        PROVE  (Joined(u)' <=> Joined(u)) /\ (Left(u)' <=> Left(u))
    <3>1. section'[u] = section[u] /\ closer_pc'[u] = closer_pc[u]
      BY <2>4, <2>5
    <3>2. (\E k \in Loops : loop_tunnel'[k] = u /\ section'[k] = "leave")
            <=> (\E k \in Loops : loop_tunnel[k] = u /\ section[k] = "leave")
      BY <2>2, <2>4, <2>5
    <3> QED  BY <3>1, <3>2 DEF Joined, Left
  <2>6. SameMembers
    BY <2>3, <2>5 DEF SameMembers
  <2> QED  BY <2>1, <2>6, Unseen
<1>5. CASE ~ (\/ SetActivePermit(l) \/ \E t \in Tunnels : AcceptTunnel(l, t)
             \/ LockAndInsert(l) \/ RegisterTunnel(l) \/ FinishRegister(l))
  <2>1. UNCHANGED <<loop_tunnel, closer_pc, section, tunnel_loop, active_permit,
                    rules_groups_cache, conn_tunnel>>
    BY <1>5 DEF LoopStep, AcceptOut, AcquirePermit, AcceptNone, AcceptError, WakeUp
  <2> QED  BY <2>1, MembersKept, Unseen
<1> QED  BY <1>1, <1>2, <1>3, <1>4, <1>5

LEMMA TunnelStepPool ==
  ASSUME PoolInv, NEW t \in Tunnels, TunnelStep(t)
  PROVE  Pool!Retire(t) \/ PoolStutters
<1> USE DEF PoolInv, IInv
<1>1. CASE TakePermitOnEnd(t)
  <2>1. /\ TakePermit(t)
        /\ UNCHANGED <<loop_tunnel, closer_pc, section, tunnel_loop,
                       rules_groups_cache, conn_tunnel>>
    BY <1>1 DEF TakePermitOnEnd
  <2> QED  BY <2>1, MembersKept, Retires
<1>2. CASE FinishClose(t)
  <2>1. /\ closer_pc[t] = "unregistering" /\ section[t] = "leave"
        /\ closer_pc' = [closer_pc EXCEPT ![t] = "done"]
        /\ section' = [section EXCEPT ![t] = "out"]
        /\ UNCHANGED <<loop_tunnel, tunnel_loop, rules_groups_cache, conn_tunnel>>
    BY <1>2 DEF FinishClose, Unlock
  <2>2. \A u \in Tunnels : u # t => active_permit'[u] = active_permit[u]
    BY <1>2 DEF FinishClose, DropArc, TakePermit, TypeOK
  <2>3. ~ Joined(t) /\ ~ Joined(t)' /\ Left(t) /\ Left(t)'
    <3>1. \A l \in Loops : loop_tunnel[l] # t
      BY <2>1 DEF LoopsOwnTunnels
    <3>2. closer_pc'[t] = "done"
      BY <2>1 DEF TypeOK
    <3> QED  BY <2>1, <3>1, <3>2 DEF Joined, Left
  <2>4. \A u \in Tunnels : u # t =>
          (Joined(u)' <=> Joined(u)) /\ (Left(u)' <=> Left(u))
    BY <2>1 DEF Joined, Left, TypeOK
  <2>5. SameMembers
    BY <2>3, <2>4 DEF SameMembers
  <2> QED  BY <2>1, <2>2, <2>3, <2>5, Unseen
<1>3. CASE LockAndRemove(t)
  <2>1. /\ closer_pc[t] = "closed" /\ section[t] = "out"
        /\ closer_pc' = [closer_pc EXCEPT ![t] = "unregistering"]
        /\ section' = [section EXCEPT ![t] = "labels"]
        /\ UNCHANGED <<loop_tunnel, tunnel_loop, rules_groups_cache, conn_tunnel,
                       active_permit>>
    BY <1>3 DEF LockAndRemove, LockTunnelMap
  <2>2. Joined(t) /\ Joined(t)' /\ ~ Left(t) /\ ~ Left(t)'
    BY <2>1 DEF Joined, Left, TypeOK
  <2>3. \A u \in Tunnels : u # t =>
          (Joined(u)' <=> Joined(u)) /\ (Left(u)' <=> Left(u))
    BY <2>1 DEF Joined, Left, TypeOK
  <2>4. SameMembers
    BY <2>2, <2>3 DEF SameMembers
  <2> QED  BY <2>1, <2>4, Unseen
<1>4. CASE NotifyClosed(t) \/ CloserWait(t) \/ QuicClosed(t)
  <2>1. UNCHANGED <<loop_tunnel, section, tunnel_loop, rules_groups_cache,
                    conn_tunnel, active_permit>>
    BY <1>4 DEF NotifyClosed, CloserWait, QuicClosed
  <2>2. \A u \in Tunnels : \/ closer_pc'[u] = closer_pc[u]
                           \/ closer_pc[u] \in Present /\ closer_pc'[u] \in Present
    BY <1>4 DEF NotifyClosed, Woken, CloserWait, QuicClosed, Present, TypeOK
  <2>3. SameMembers
    BY <2>1, <2>2 DEF SameMembers, Joined, Left, Present
  <2> QED  BY <2>1, <2>3, Unseen
<1>5. CASE LoseConnection(t) \/ ConnectionIdle(t) \/ UnregisterTunnel(t)
  <2>1. UNCHANGED <<loop_tunnel, closer_pc, tunnel_loop, rules_groups_cache,
                    conn_tunnel, active_permit>>
    BY <1>5 DEF LoseConnection, ConnectionIdle, UnregisterTunnel, UpdateOutRules
  <2>2. \A p \in Procs : section'[p] = "leave" <=> section[p] = "leave"
    BY <1>5 DEF LoseConnection, ConnectionIdle, UnregisterTunnel, UpdateOutRules,
                TypeOK
  <2> QED  BY <2>1, <2>2, MembersKept, Unseen
<1> QED  BY <1>1, <1>2, <1>3, <1>4, <1>5 DEF TunnelStep

LEMMA SectionStepPool ==
  ASSUME IInv, IInv', NEW p \in Procs, SectionStep(p)
  PROVE  (\E t \in Tunnels : Pool!Join(t) \/ Pool!Leave(t)) \/ PoolStutters
<1>1. CASE WriteCache(p)
  BY <1>1, Writes
<1>2. CASE UpdateLabelMap(p) \/ CollectRules(p)
  <2>1. UNCHANGED <<loop_tunnel, closer_pc, tunnel_loop, rules_groups_cache,
                    conn_tunnel, active_permit>>
    BY <1>2 DEF UpdateLabelMap, CollectRules
  <2>2. \A q \in Procs : section'[q] = "leave" <=> section[q] = "leave"
    BY <1>2 DEF UpdateLabelMap, CollectRules, IInv, TypeOK
  <2> QED  BY <2>1, <2>2, MembersKept, Unseen
<1> QED  BY <1>1, <1>2 DEF SectionStep

(* Only the tunnel of a connection changes. *)
OnlyUsing == /\ SameMembers /\ UNCHANGED <<tunnel_loop, rules_groups_cache>>
             /\ \A t \in Tunnels : Joined(t) => active_permit'[t] = active_permit[t]

LEMMA PoolKept ==
  ASSUME OnlyUsing
  PROVE  /\ [t \in Tunnels |-> OutOrNone(t)]' = [t \in Tunnels |-> OutOrNone(t)]
         /\ {t \in Tunnels : Joined(t)}' = {t \in Tunnels : Joined(t)}
         /\ {t \in Tunnels : Left(t)}' = {t \in Tunnels : Left(t)}
         /\ {t \in Tunnels : Joined(t) /\ IsActive(t)}'
              = {t \in Tunnels : Joined(t) /\ IsActive(t)}
         /\ rules_groups_cache' = rules_groups_cache
<1>1. [t \in Tunnels |-> OutOrNone(t)]' = [t \in Tunnels |-> OutOrNone(t)]
  BY DEF OutOrNone, Out, OnlyUsing
<1>2. {t \in Tunnels : Joined(t)}' = {t \in Tunnels : Joined(t)}
  BY DEF SameMembers, OnlyUsing
<1>3. {t \in Tunnels : Left(t)}' = {t \in Tunnels : Left(t)}
  BY DEF SameMembers, OnlyUsing
<1>4. {t \in Tunnels : Joined(t) /\ IsActive(t)}'
        = {t \in Tunnels : Joined(t) /\ IsActive(t)}
  BY DEF SameMembers, IsActive, OnlyUsing
<1> QED  BY <1>1, <1>2, <1>3, <1>4 DEF OnlyUsing

LEMMA Stops ==
  ASSUME PoolInv, NEW c \in Conns, conn_pc[c] # "idle", OnlyUsing,
         conn_tunnel' = [conn_tunnel EXCEPT ![c] = None]
  PROVE  Pool!Stop(c)
<1>1. conn_tunnel[c] # None
  BY DEF PoolInv, IInv, ConnsOK
<1> QED  BY <1>1, PoolKept DEF Pool!Stop

LEMMA ConnStepPool ==
  ASSUME PoolInv, NEW c \in Conns, ConnStep(c)
  PROVE  \/ Pool!Stop(c)
         \/ \E t \in Tunnels : Pool!Start(c, t) \/ Pool!Retire(t)
         \/ PoolStutters
<1> USE DEF PoolInv, IInv
<1>1. UNCHANGED <<loop_tunnel, closer_pc, section, tunnel_loop, rules_groups_cache>>
  BY ConnFrame DEF TaskVars
<1>2. SameMembers
  BY <1>1, MembersKept
<1>3. CASE \E x \in Labels, t \in Tunnels : SelectTunnel(c, x, t)
  <2>1. PICK x \in Labels, t \in Tunnels : SelectTunnel(c, x, t)
    BY <1>3
  <2>2. /\ t \in label_to_tunnels_map[x] /\ label_lock = None /\ IsActive(t)
        /\ conn_pc[c] = "idle" /\ active_permit' = active_permit
        /\ conn_tunnel' = [conn_tunnel EXCEPT ![c] = t]
    BY <2>1 DEF SelectTunnel, Selectable
  <2>3. Joined(t)
    BY <2>2, SelectedKnown, JoinedIsCached
  <2>4. conn_tunnel[c] = None
    BY <2>2 DEF UsersInv, IdleOK
  <2>5. OnlyUsing
    BY <1>1, <1>2, <2>2 DEF OnlyUsing
  <2>6. Pool!Start(c, t)
    BY <2>2, <2>3, <2>4, <2>5, PoolKept DEF Pool!Start
  <2> QED  BY <2>6
<1>4. CASE CountLifetime(c)
  <2>1. PICK t \in Tunnels : t = conn_tunnel[c]
    BY <1>4 DEF CountLifetime, ConnsOK
  <2>2. /\ conn_tunnel' = conn_tunnel
        /\ TakePermit(t) \/ active_permit' = active_permit
    BY <1>4, <2>1 DEF CountLifetime
  <2> QED  BY <1>1, <1>2, <2>2, Retires, Unseen
<1>5. CASE ConnectError(c) \/ LeaveQuic(c) \/ EndStream(c)
  <2>1. PICK t \in Tunnels : t = conn_tunnel[c]
    BY <1>5 DEF ConnectError, LeaveQuic, LeaveTunnel, EndStream, ConnsOK
  <2>2. /\ DropConnArc(c) /\ conn_pc[c] # "idle"
        /\ \/ conn_tunnel' = conn_tunnel
           \/ conn_tunnel' = [conn_tunnel EXCEPT ![c] = None]
    BY <1>5 DEF ConnectError, LeaveQuic, LeaveTunnel, EndStream
  <2>3. \/ active_permit' = active_permit
        \/ TakePermit(t) /\ closer_pc[t] = "done"
    BY <2>1, <2>2 DEF DropConnArc, DropArc
  <2>4. \A u \in Tunnels : u # t => active_permit'[u] = active_permit[u]
    BY <2>3 DEF TakePermit, TypeOK
  <2>5. active_permit' = active_permit \/ ~ Joined(t)
    BY <2>3 DEF Joined, LoopsOwnTunnels
  <2>6. OnlyUsing
    BY <1>1, <1>2, <2>4, <2>5 DEF OnlyUsing
  <2> QED  BY <2>2, <2>6, Stops, Unseen DEF OnlyUsing
<1>6. CASE CloseIfRetired(c)
  <2>1. /\ conn_pc[c] # "idle" /\ active_permit' = active_permit
        /\ conn_tunnel' = [conn_tunnel EXCEPT ![c] = None]
    BY <1>6 DEF CloseIfRetired
  <2>2. OnlyUsing
    BY <1>1, <1>2, <2>1 DEF OnlyUsing
  <2> QED  BY <2>1, <2>2, Stops
<1>7. CASE SendRequest(c) \/ CountStream(c) \/ OpenQuicStream(c) \/ CountDown(c)
  <2>1. UNCHANGED <<active_permit, conn_tunnel>>
    BY <1>7 DEF SendRequest, CountStream, OpenQuicStream, CountDown
  <2> QED  BY <1>1, <1>2, <2>1, Unseen
<1> QED  BY <1>3, <1>4, <1>5, <1>6, <1>7 DEF ConnStep

LEMMA InitPool == Init => Pool!Init
<1> SUFFICES ASSUME Init PROVE Pool!Init
  OBVIOUS
<1>1. \A t \in Tunnels : ~ Joined(t) /\ ~ Left(t) /\ OutOrNone(t) = None
  BY DEF Init, Joined, Left, OutOrNone
<1> QED  BY <1>1 DEF Init, Pool!Init

LEMMA StepPool ==
  PoolInv /\ PoolInv' /\ [Next]_vars => [Pool!Next]_(Pool!vars)
<1> SUFFICES ASSUME PoolInv, PoolInv', [Next]_vars
             PROVE  Pool!Next \/ PoolStutters
  BY DEF PoolStutters
<1>1. ASSUME NEW l \in Loops, LoopStep(l) PROVE Pool!Next \/ PoolStutters
  BY <1>1, LoopStepPool DEF Pool!Next
<1>2. ASSUME NEW t \in Tunnels, TunnelStep(t) PROVE Pool!Next \/ PoolStutters
  BY <1>2, TunnelStepPool DEF Pool!Next
<1>3. ASSUME NEW p \in Procs, SectionStep(p) PROVE Pool!Next \/ PoolStutters
  BY <1>3, SectionStepPool DEF Pool!Next, PoolInv
<1>4. ASSUME NEW c \in Conns, ConnStep(c) PROVE Pool!Next \/ PoolStutters
  BY <1>4, ConnStepPool DEF Pool!Next
<1>5. CASE UNCHANGED vars
  <2>1. UNCHANGED <<loop_tunnel, closer_pc, section, tunnel_loop, active_permit,
                    rules_groups_cache, conn_tunnel>>
    BY <1>5 DEF vars
  <2> QED  BY <2>1, MembersKept, Unseen
<1> QED  BY <1>1, <1>2, <1>3, <1>4, <1>5 DEF Next

(* PoolSpec: the tasks, locks, maps and caches of tunnel_manager.rs and    *)
(* the router implement the simple pool of TunnelPool: routes change       *)
(* together with membership, a connection starts only on a tunnel that is  *)
(* in the pool and active, a retired tunnel stays retired.                 *)
THEOREM ImplementsPool == Spec => PoolSpec
BY PoolInvariance, InitPool, StepPool, PTL DEF Spec, PoolSpec, Pool!Spec
=============================================================================
