--------------------------- MODULE TunnelManager ---------------------------
(***************************************************************************)
(* The IN side's tunnel pool: src/src/lib/in/tunnel_manager.rs together    *)
(* with the client tunnels it owns (http2_tunnel.rs, byte_stream_tunnel.rs)*)
(* and the router's registration half (route/router.rs).                   *)
(*                                                                         *)
(* A "loop" is one handle_out task: one tunnel provider serving one OUT.   *)
(* A tunnel is created by its loop, is entered in the shared maps, serves  *)
(* client connections, loses its permit when it is retired or its          *)
(* connection ends, and is removed by a closer task of its own.            *)
(***************************************************************************)
EXTENDS Integers, FiniteSets

CONSTANTS
  Loops,           \* handle_out tasks, one per (provider, OUT)
  Tunnels,         \* tunnel ids; each is used at most once (Uuid v7)
  Conns,           \* client TCP connections (handle_in_tcp_stream tasks)
  Outs,            \* OUT ids
  Labels,          \* routing labels: Proxy, one per OUT, configured ones
  Proxy,           \* BuiltInLabel::Proxy
  OutOf,           \* the OUT a loop serves
  TypeOf,          \* "http2" or "quic"
  Priority,        \* the priority of a loop's tunnels (lower is preferred)
  ConfigLabels,    \* the labels configured for a loop's tunnels
  Connections,     \* permits of a loop's semaphore
  LifetimeLimit,   \* LIFETIME_STREAMS_LIMIT, scaled down by the instances
  MaxGeneration,   \* bound: how often a loop is started for its OUT
  None             \* "no tunnel", "no loop", "lock free"

Procs == Loops \cup Tunnels

ASSUME ConstantsAssumption ==
  /\ Loops \cap Tunnels = {}
  /\ None \notin Procs
  /\ Proxy \in Labels
  /\ Outs \subseteq Labels
  /\ OutOf \in [Loops -> Outs]
  /\ TypeOf \in [Loops -> {"http2", "quic"}]
  /\ Priority \in [Loops -> Int]
  /\ ConfigLabels \in [Loops -> SUBSET Labels]
  /\ Connections \in [Loops -> Nat \ {0}]
  /\ LifetimeLimit \in Nat \ {0}
  /\ MaxGeneration \in Nat \ {0}

VARIABLES
  loop_pc,               \* where handle_out is
  loop_tunnel,           \* the tunnel accept returned, until it is registered
  generation,            \* which handle_out call (0: none yet)
  permits,               \* available permits of the current call's semaphore
  tunnel_loop,           \* the loop that created a tunnel
  active_permit,         \* generation of the permit a tunnel holds, 0 is None
  request_sender,        \* h2 request sender still there
  lifetime_streams,
  active_streams,
  connection_pc,         \* the connection's task
  closer_pc,             \* the task spawned at tunnel_manager.rs:198
  tunnel_map_lock,       \* owner of the tunnel_map mutex
  label_lock,            \* owner of the label_to_tunnels_map mutex
  section,               \* progress of a process between lock and unlock
  tunnel_map,
  label_to_tunnels_map,
  out_rules_map,         \* Router: tunnel ids registered for each OUT
  collected,             \* local `rules` of update_rules_cache
  rules_groups_cache,    \* OUTs whose rules are in the router's cache
  conn_pc,
  conn_tunnel,
  remaining              \* local `active_streams` of the stream-closed task

loopVars == <<loop_pc, loop_tunnel, generation>>
permitVars == <<permits, active_permit>>
taskVars == <<tunnel_loop, connection_pc, closer_pc>>
streamVars == <<request_sender, lifetime_streams, active_streams>>
lockVars == <<tunnel_map_lock, label_lock, section, collected>>
mapVars == <<tunnel_map, label_to_tunnels_map, out_rules_map,
             rules_groups_cache>>
connVars == <<conn_pc, conn_tunnel, remaining>>
vars == <<loopVars, permitVars, taskVars, streamVars, lockVars, mapVars,
          connVars>>

LoopStates == {"idle", "acquire", "accept", "set_permit", "lock_map",
               "registering", "sleep", "done"}
CloserStates == {"none", "spawned", "waiting", "closed", "unregistering",
                 "done"}
SectionStates == {"out", "labels", "router", "collect", "write", "leave"}
ConnStates == {"idle", "selected", "counted", "opened", "streaming", "closed",
               "check"}

TypeOK ==
  /\ loop_pc \in [Loops -> LoopStates]
  /\ loop_tunnel \in [Loops -> Tunnels \cup {None}]
  /\ generation \in [Loops -> 0 .. MaxGeneration]
  /\ permits \in [Loops -> Nat]
  /\ tunnel_loop \in [Tunnels -> Loops \cup {None}]
  /\ active_permit \in [Tunnels -> 0 .. MaxGeneration]
  /\ request_sender \in [Tunnels -> BOOLEAN]
  /\ lifetime_streams \in [Tunnels -> Nat]
  /\ active_streams \in [Tunnels -> Int]
  /\ connection_pc \in
       [Tunnels -> {"none", "running", "ended", "taken", "done"}]
  /\ closer_pc \in [Tunnels -> CloserStates]
  /\ tunnel_map_lock \in Procs \cup {None}
  /\ label_lock \in Procs \cup {None}
  /\ section \in [Procs -> SectionStates]
  /\ tunnel_map \in SUBSET Tunnels
  /\ label_to_tunnels_map \in [Labels -> SUBSET Tunnels]
  /\ out_rules_map \in [Outs -> SUBSET Tunnels]
  /\ collected \in [Procs -> SUBSET Outs]
  /\ rules_groups_cache \in SUBSET Outs
  /\ conn_pc \in [Conns -> ConnStates]
  /\ conn_tunnel \in [Conns -> Tunnels \cup {None}]
  /\ remaining \in [Conns -> Int]

Init ==
  /\ loop_pc = [l \in Loops |-> "idle"]
  /\ loop_tunnel = [l \in Loops |-> None]
  /\ generation = [l \in Loops |-> 0]
  /\ permits = [l \in Loops |-> 0]
  /\ tunnel_loop = [t \in Tunnels |-> None]
  /\ active_permit = [t \in Tunnels |-> 0]
  /\ request_sender = [t \in Tunnels |-> FALSE]
  /\ lifetime_streams = [t \in Tunnels |-> 0]
  /\ active_streams = [t \in Tunnels |-> 0]
  /\ connection_pc = [t \in Tunnels |-> "none"]
  /\ closer_pc = [t \in Tunnels |-> "none"]
  /\ tunnel_map_lock = None
  /\ label_lock = None
  /\ section = [p \in Procs |-> "out"]
  /\ tunnel_map = {}
  /\ label_to_tunnels_map = [x \in Labels |-> {}]
  /\ out_rules_map = [o \in Outs |-> {}]
  /\ collected = [p \in Procs |-> {}]
  /\ rules_groups_cache = {}
  /\ conn_pc = [c \in Conns |-> "idle"]
  /\ conn_tunnel = [c \in Conns |-> None]
  /\ remaining = [c \in Conns |-> 0]

-----------------------------------------------------------------------------
(* Where a task is, and where it goes next. *)

LoopGoes(l, from, to) ==
  loop_pc[l] = from /\ loop_pc' = [loop_pc EXCEPT ![l] = to]
CloserGoes(t, from, to) ==
  closer_pc[t] = from /\ closer_pc' = [closer_pc EXCEPT ![t] = to]
ConnectionGoes(t, from, to) ==
  connection_pc[t] = from /\ connection_pc' = [connection_pc EXCEPT ![t] = to]
SectionGoes(p, from, to) ==
  section[p] = from /\ section' = [section EXCEPT ![p] = to]
ConnGoes(c, from, to) ==
  conn_pc[c] = from /\ conn_pc' = [conn_pc EXCEPT ![c] = to]

Out(t) == OutOf[tunnel_loop[t]]
IsHttp2(t) == TypeOf[tunnel_loop[t]] = "http2"

(* is_active: the tunnel holds its permit. *)
IsActive(t) == active_permit[t] # 0

(* tunnel.labels() chained with extra_labels. *)
LabelsOf(t) == ConfigLabels[tunnel_loop[t]] \cup {Proxy, Out(t)}

(* update_label_to_tunnels_map; the order within one priority is the       *)
(* iteration order of a HashMap, so a set stands for each sorted vector.   *)
Relabelled == [x \in Labels |-> {t \in tunnel_map : x \in LabelsOf(t)}]

(* Mutant of Returned: a permit of an earlier handle_out call goes to the  *)
(* semaphore of this one.                                                  *)
ReturnedToAnyCall(t) ==
  IF IsActive(t) THEN [permits EXCEPT ![tunnel_loop[t]] = @ + 1] ELSE permits

(* Dropping an OwnedSemaphorePermit returns it to the semaphore of the     *)
(* handle_out call that handed it out; an earlier call's is gone.          *)
Returned(t) ==
  IF IsActive(t) /\ active_permit[t] = generation[tunnel_loop[t]]
  THEN [permits EXCEPT ![tunnel_loop[t]] = @ + 1]
  ELSE permits

(* active_permit.lock().unwrap().take() *)
TakePermit(t) ==
  /\ permits' = Returned(t)
  /\ active_permit' = [active_permit EXCEPT ![t] = 0]

(* The Arc of a tunnel is held by its closer and by its connections; a     *)
(* stream-closed task holds only a Weak of the permit.                     *)
HeldByConns(t, conns) ==
  \E c \in conns : conn_tunnel[c] = t /\ conn_pc[c] \notin {"closed", "check"}
Alive(t) == closer_pc[t] # "done" \/ HeldByConns(t, Conns)

(* Mutant of DropArc: a dropped tunnel keeps its permit. *)
DropArcLeaking(t, last) == UNCHANGED permitVars

(* Dropping the last Arc drops the permit a tunnel still holds, unless the *)
(* connection's task, which shares it, has not reached its own take().     *)
DropArc(t, last) ==
  IF last /\ connection_pc[t] \in {"taken", "done"}
  THEN TakePermit(t)
  ELSE UNCHANGED permitVars

-----------------------------------------------------------------------------
(* handle_tunnel_provider and handle_out *)

(* accept_out returned this OUT: handle_out is spawned with a semaphore of *)
(* its own.  The match server returns an OUT again only after match_out    *)
(* answered None for it.                                                   *)
AcceptOut(l) ==
  /\ LoopGoes(l, "idle", "acquire") \/ LoopGoes(l, "done", "acquire")
  /\ generation[l] < MaxGeneration
  /\ generation' = [generation EXCEPT ![l] = @ + 1]
  /\ permits' = [permits EXCEPT ![l] = Connections[l]]
  /\ UNCHANGED <<loop_tunnel, active_permit, taskVars, streamVars, lockVars,
                 mapVars, connVars>>

(* Mutant of PermitFree: one permit too many. *)
PermitFreeOffByOne(l) == permits[l] >= 0

PermitFree(l) == permits[l] > 0

AcquirePermit(l) ==
  /\ LoopGoes(l, "acquire", "accept")
  /\ PermitFree(l)
  /\ permits' = [permits EXCEPT ![l] = @ - 1]
  /\ UNCHANGED <<loop_tunnel, generation, active_permit, taskVars, streamVars,
                 lockVars, mapVars, connVars>>

(* provider.accept returned a tunnel; its connection task runs already. *)
AcceptTunnel(l, t) ==
  /\ LoopGoes(l, "accept", "set_permit")
  /\ tunnel_loop[t] = None
  /\ tunnel_loop' = [tunnel_loop EXCEPT ![t] = l]
  /\ loop_tunnel' = [loop_tunnel EXCEPT ![l] = t]
  /\ ConnectionGoes(t, "none", "running")
  /\ request_sender' = [request_sender EXCEPT ![t] = TRUE]
  /\ UNCHANGED <<generation, permitVars, closer_pc, lifetime_streams,
                 active_streams, lockVars, mapVars, connVars>>

(* Ok(None): the loop ends and its semaphore with it.  Err: the permit is  *)
(* dropped after the sleep.                                                *)
AcceptNone(l) ==
  /\ LoopGoes(l, "accept", "done")
  /\ UNCHANGED <<loop_tunnel, generation, permitVars, taskVars, streamVars,
                 lockVars, mapVars, connVars>>

AcceptError(l) ==
  /\ LoopGoes(l, "accept", "sleep")
  /\ UNCHANGED <<loop_tunnel, generation, permitVars, taskVars, streamVars,
                 lockVars, mapVars, connVars>>

WakeUp(l) ==
  /\ LoopGoes(l, "sleep", "acquire")
  /\ permits' = [permits EXCEPT ![l] = @ + 1]
  /\ UNCHANGED <<loop_tunnel, generation, active_permit, taskVars, streamVars,
                 lockVars, mapVars, connVars>>

(* set_active_permit stores the permit whatever became of the connection. *)
SetActivePermit(l) ==
  /\ LoopGoes(l, "set_permit", "lock_map")
  /\ active_permit' = [active_permit EXCEPT ![loop_tunnel[l]] = generation[l]]
  /\ UNCHANGED <<loop_tunnel, generation, permits, taskVars, streamVars,
                 lockVars, mapVars, connVars>>

-----------------------------------------------------------------------------
(* The critical section in which the maps and the router change together.  *)
(* A loop goes through it to register a tunnel, a closer to remove one.    *)

(* Mutant of MapLockFree: the maps are changed without the lock. *)
MapLockIgnored == TRUE

MapLockFree == tunnel_map_lock = None

LockTunnelMap(p) ==
  /\ MapLockFree
  /\ tunnel_map_lock' = p
  /\ SectionGoes(p, "out", "labels")
  /\ UNCHANGED <<label_lock, collected>>

LockAndInsert(l) ==
  /\ LoopGoes(l, "lock_map", "registering")
  /\ LockTunnelMap(l)
  /\ tunnel_map' = tunnel_map \cup {loop_tunnel[l]}
  /\ UNCHANGED <<loop_tunnel, generation, permitVars, taskVars, streamVars,
                 label_to_tunnels_map, out_rules_map, rules_groups_cache,
                 connVars>>

LockAndRemove(t) ==
  /\ CloserGoes(t, "closed", "unregistering")
  /\ LockTunnelMap(t)
  /\ tunnel_map' = tunnel_map \ {t}
  /\ UNCHANGED <<loopVars, permitVars, tunnel_loop, connection_pc, streamVars,
                 label_to_tunnels_map, out_rules_map, rules_groups_cache,
                 connVars>>

UpdateLabelMap(p) ==
  /\ SectionGoes(p, "labels", "router")
  /\ label_lock = None
  /\ label_lock' = p
  /\ label_to_tunnels_map' = Relabelled
  /\ UNCHANGED <<loopVars, permitVars, taskVars, streamVars, tunnel_map_lock,
                 collected, tunnel_map, out_rules_map, rules_groups_cache,
                 connVars>>

(* register_tunnel and unregister_tunnel; an OUT without tunnels has no    *)
(* entry in out_rules_map.                                                 *)
UpdateOutRules(p, o, ids) ==
  /\ SectionGoes(p, "router", "collect")
  /\ out_rules_map' = [out_rules_map EXCEPT ![o] = ids]
  /\ UNCHANGED <<loopVars, permitVars, taskVars, streamVars, tunnel_map_lock,
                 label_lock, collected, tunnel_map, label_to_tunnels_map,
                 rules_groups_cache, connVars>>

RegisterTunnel(l) ==
  UpdateOutRules(l, OutOf[l], out_rules_map[OutOf[l]] \cup {loop_tunnel[l]})

UnregisterTunnel(t) == UpdateOutRules(t, Out(t), out_rules_map[Out(t)] \ {t})

(* update_rules_cache takes out_rules_map's lock, then the cache's. *)
CollectRules(p) ==
  /\ SectionGoes(p, "collect", "write")
  /\ collected' = [collected EXCEPT ![p] =
                     {o \in Outs : out_rules_map[o] # {}}]
  /\ UNCHANGED <<loopVars, permitVars, taskVars, streamVars, tunnel_map_lock,
                 label_lock, mapVars, connVars>>

WriteCache(p) ==
  /\ SectionGoes(p, "write", "leave")
  /\ rules_groups_cache' = collected[p]
  /\ UNCHANGED <<loopVars, permitVars, taskVars, streamVars, tunnel_map_lock,
                 label_lock, collected, tunnel_map, label_to_tunnels_map,
                 out_rules_map, connVars>>

Unlock(p) ==
  /\ SectionGoes(p, "leave", "out")
  /\ tunnel_map_lock' = None
  /\ label_lock' = None
  /\ collected' = [collected EXCEPT ![p] = {}]
  /\ UNCHANGED <<mapVars, connVars, streamVars, tunnel_loop, connection_pc>>

(* The guards are dropped, the closer is spawned and the loop goes on. *)
FinishRegister(l) ==
  /\ LoopGoes(l, "registering", "acquire")
  /\ Unlock(l)
  /\ closer_pc' = [closer_pc EXCEPT ![loop_tunnel[l]] = "spawned"]
  /\ loop_tunnel' = [loop_tunnel EXCEPT ![l] = None]
  /\ UNCHANGED <<generation, permitVars>>

(* The closer ends: the guards and its Arc of the tunnel are dropped. *)
FinishClose(t) ==
  /\ CloserGoes(t, "unregistering", "done")
  /\ Unlock(t)
  /\ DropArc(t, ~ HeldByConns(t, Conns))
  /\ UNCHANGED loopVars

-----------------------------------------------------------------------------
(* The connection's task and the closer that waits for it. *)

LoseConnection(t) ==
  /\ ConnectionGoes(t, "running", "ended")
  /\ UNCHANGED <<loopVars, permitVars, tunnel_loop, closer_pc, streamVars,
                 lockVars, mapVars, connVars>>

(* h2 ends a client connection with no request sender and no stream left. *)
ConnectionIdle(t) ==
  /\ LoseConnection(t)
  /\ ~ request_sender[t]
  /\ \A c \in Conns :
       conn_tunnel[c] = t => conn_pc[c] \notin {"opened", "streaming"}

TakePermitOnEnd(t) ==
  /\ connection_pc[t] = "ended"
  /\ ConnectionGoes(t, "ended", IF IsHttp2(t) THEN "taken" ELSE "done")
  /\ TakePermit(t)
  /\ UNCHANGED <<loopVars, tunnel_loop, closer_pc, streamVars, lockVars,
                 mapVars, connVars>>

(* Mutant of Woken: the connection's task ends without notify_waiters. *)
WokenByNobody(t) == closer_pc[t]

(* notify_waiters wakes the closer only if it waits already. *)
Woken(t) == IF closer_pc[t] = "waiting" THEN "closed" ELSE closer_pc[t]

NotifyClosed(t) ==
  /\ ConnectionGoes(t, "taken", "done")
  /\ closer_pc' = [closer_pc EXCEPT ![t] = Woken(t)]
  /\ UNCHANGED <<loopVars, permitVars, tunnel_loop, streamVars, lockVars,
                 mapVars, connVars>>

(* closed().await: an HTTP/2 tunnel registers with Notify, which remembers *)
(* no notification sent before; a QUIC tunnel looks at the connection.     *)
CloserWait(t) ==
  /\ CloserGoes(t, "spawned", "waiting")
  /\ UNCHANGED <<loopVars, permitVars, tunnel_loop, connection_pc, streamVars,
                 lockVars, mapVars, connVars>>

QuicClosed(t) ==
  /\ CloserGoes(t, "waiting", "closed")
  /\ ~ IsHttp2(t)
  /\ connection_pc[t] # "running"
  /\ UNCHANGED <<loopVars, permitVars, tunnel_loop, connection_pc, streamVars,
                 lockVars, mapVars, connVars>>

-----------------------------------------------------------------------------
(* A client connection: select_tunnel, connect, copy, stream-closed task. *)

(* Mutant of Selectable: is_active is not asked. *)
SelectableAny(x) == label_to_tunnels_map[x]

(* select_from_tunnels; index % len picks any of the preferred tunnels. *)
Selectable(x) ==
  LET active == {t \in label_to_tunnels_map[x] : IsActive(t)}
  IN  {t \in active : \A u \in active :
         Priority[tunnel_loop[t]] <= Priority[tunnel_loop[u]]}

SelectTunnel(c, x, t) ==
  /\ label_lock = None
  /\ t \in Selectable(x)
  /\ ConnGoes(c, "idle", "selected")
  /\ conn_tunnel' = [conn_tunnel EXCEPT ![c] = t]
  /\ UNCHANGED <<loopVars, permitVars, taskVars, streamVars, lockVars,
                 mapVars, remaining>>

(* The lifetime limit retires the tunnel before the stream is opened. *)
CountLifetime(c) ==
  LET t == conn_tunnel[c] IN
  /\ ConnGoes(c, "selected", "counted")
  /\ IsHttp2(t)
  /\ lifetime_streams' = [lifetime_streams EXCEPT ![t] = @ + 1]
  /\ IF lifetime_streams[t] + 1 = LifetimeLimit
     THEN TakePermit(t)
     ELSE UNCHANGED permitVars
  /\ UNCHANGED <<loopVars, taskVars, request_sender, active_streams, lockVars,
                 mapVars, conn_tunnel, remaining>>

SendRequest(c) ==
  /\ ConnGoes(c, "counted", "opened")
  /\ request_sender[conn_tunnel[c]]
  /\ connection_pc[conn_tunnel[c]] = "running"
  /\ UNCHANGED <<loopVars, permitVars, taskVars, streamVars, lockVars,
                 mapVars, conn_tunnel, remaining>>

(* The sniffed bytes are written; only then is the stream counted. *)
CountStream(c) ==
  /\ ConnGoes(c, "opened", "streaming")
  /\ active_streams' = [active_streams EXCEPT ![conn_tunnel[c]] = @ + 1]
  /\ UNCHANGED <<loopVars, permitVars, taskVars, request_sender,
                 lifetime_streams, lockVars, mapVars, conn_tunnel, remaining>>

(* QUIC's connect keeps no account of its streams. *)
OpenQuicStream(c) ==
  /\ ConnGoes(c, "selected", "streaming")
  /\ ~ IsHttp2(conn_tunnel[c])
  /\ connection_pc[conn_tunnel[c]] = "running"
  /\ UNCHANGED <<loopVars, permitVars, taskVars, streamVars, lockVars,
                 mapVars, conn_tunnel, remaining>>

DropConnArc(c) ==
  LET t == conn_tunnel[c]
  IN  DropArc(t, closer_pc[t] = "done" /\ ~ HeldByConns(t, Conns \ {c}))

LeaveTunnel(c, from) ==
  /\ ConnGoes(c, from, "idle")
  /\ conn_tunnel' = [conn_tunnel EXCEPT ![c] = None]
  /\ DropConnArc(c)
  /\ UNCHANGED <<loopVars, taskVars, streamVars, lockVars, mapVars, remaining>>

(* Mutant of ConnectError: a failed copy ends without the stream-closed    *)
(* signal.                                                                 *)
ConnectErrorUnsignalled(c) ==
  \E from \in {"counted", "opened", "streaming"} : LeaveTunnel(c, from)

(* connect returned Err: from send_request (no sender any more, h2 refused *)
(* or the connection is gone) or from write_all.  There is no retry.       *)
ConnectError(c) == LeaveTunnel(c, "counted") \/ LeaveTunnel(c, "opened")

(* QUIC: open or write_all failed, or the copy is over and the sender has  *)
(* nobody to tell.                                                         *)
LeaveQuic(c) ==
  /\ LeaveTunnel(c, "selected") \/ LeaveTunnel(c, "streaming")
  /\ ~ IsHttp2(conn_tunnel[c])

(* copy_bidirectional is over: stream_closed_sender fires, the streams and *)
(* the connection's Arc are dropped.                                       *)
EndStream(c) ==
  /\ ConnGoes(c, "streaming", "closed")
  /\ IsHttp2(conn_tunnel[c])
  /\ DropConnArc(c)
  /\ UNCHANGED <<loopVars, taskVars, streamVars, lockVars, mapVars,
                 conn_tunnel, remaining>>

(* The stream-closed task: count down, then test the local result. *)
CountDown(c) ==
  LET t == conn_tunnel[c] IN
  /\ ConnGoes(c, "closed", "check")
  /\ active_streams' = [active_streams EXCEPT ![t] = @ - 1]
  /\ remaining' = [remaining EXCEPT ![c] = active_streams[t] - 1]
  /\ UNCHANGED <<loopVars, permitVars, taskVars, request_sender,
                 lifetime_streams, lockVars, mapVars, conn_tunnel>>

(* Mutants of MayClose: the permit is not looked at; the count is off.     *)
MayCloseActive(c) == Alive(conn_tunnel[c]) /\ remaining[c] = 0
MayCloseOffByOne(c) ==
  LET t == conn_tunnel[c] IN Alive(t) /\ ~ IsActive(t) /\ remaining[c] = 1

(* A tunnel that is gone has no permit to upgrade the Weak to. *)
MayClose(c) ==
  LET t == conn_tunnel[c] IN
  Alive(t) /\ ~ IsActive(t) /\ remaining[c] = 0

CloseIfRetired(c) ==
  /\ ConnGoes(c, "check", "idle")
  /\ request_sender' =
       [request_sender EXCEPT ![conn_tunnel[c]] = IF MayClose(c) THEN FALSE ELSE @]
  /\ conn_tunnel' = [conn_tunnel EXCEPT ![c] = None]
  /\ remaining' = [remaining EXCEPT ![c] = 0]
  /\ UNCHANGED <<loopVars, permitVars, taskVars, lifetime_streams,
                 active_streams, lockVars, mapVars>>

-----------------------------------------------------------------------------

LoopStep(l) ==
  \/ AcceptOut(l)
  \/ AcquirePermit(l)
  \/ \E t \in Tunnels : AcceptTunnel(l, t)
  \/ AcceptNone(l)
  \/ AcceptError(l)
  \/ WakeUp(l)
  \/ SetActivePermit(l)
  \/ LockAndInsert(l)
  \/ RegisterTunnel(l)
  \/ FinishRegister(l)

TunnelStep(t) ==
  \/ LoseConnection(t)
  \/ ConnectionIdle(t)
  \/ TakePermitOnEnd(t)
  \/ NotifyClosed(t)
  \/ CloserWait(t)
  \/ QuicClosed(t)
  \/ LockAndRemove(t)
  \/ UnregisterTunnel(t)
  \/ FinishClose(t)

SectionStep(p) == UpdateLabelMap(p) \/ CollectRules(p) \/ WriteCache(p)

ConnStep(c) ==
  \/ \E x \in Labels, t \in Tunnels : SelectTunnel(c, x, t)
  \/ CountLifetime(c)
  \/ SendRequest(c)
  \/ CountStream(c)
  \/ OpenQuicStream(c)
  \/ ConnectError(c)
  \/ LeaveQuic(c)
  \/ EndStream(c)
  \/ CountDown(c)
  \/ CloseIfRetired(c)

Next ==
  \/ \E l \in Loops : LoopStep(l)
  \/ \E t \in Tunnels : TunnelStep(t)
  \/ \E p \in Procs : SectionStep(p)
  \/ \E c \in Conns : ConnStep(c)

Spec == Init /\ [][Next]_vars

(* The runtime polls every task that can go on; its mutexes serve their    *)
(* waiters in order, hence strong fairness where a lock is taken.  Clients *)
(* end their streams.  Nothing makes an OUT come, go or be matched.        *)
Fairness ==
  /\ \A l \in Loops :
       /\ WF_vars(AcquirePermit(l) \/ SetActivePermit(l) \/ RegisterTunnel(l)
                  \/ FinishRegister(l) \/ WakeUp(l))
       /\ SF_vars(LockAndInsert(l))
  /\ \A t \in Tunnels :
       /\ WF_vars(CloserWait(t) \/ QuicClosed(t) \/ UnregisterTunnel(t)
                  \/ FinishClose(t))
       /\ WF_vars(ConnectionIdle(t) \/ TakePermitOnEnd(t) \/ NotifyClosed(t))
       /\ SF_vars(LockAndRemove(t))
  /\ \A p \in Procs : WF_vars(SectionStep(p))
  /\ \A c \in Conns :
       WF_vars(CountLifetime(c) \/ SendRequest(c) \/ CountStream(c)
               \/ ConnectError(c) \/ OpenQuicStream(c) \/ LeaveQuic(c)
               \/ EndStream(c) \/ CountDown(c) \/ CloseIfRetired(c))

FairSpec == Spec /\ Fairness

-----------------------------------------------------------------------------
(* Safety. *)

Running(l) == loop_pc[l] \notin {"idle", "done"}

(* Tunnels that hold a permit of the running handle_out call. *)
PermitHolders(l) ==
  {t \in Tunnels : tunnel_loop[t] = l /\ active_permit[t] = generation[l]}

(* No interleaving of retirement, connection loss, refused streams and the *)
(* late set_active_permit duplicates or loses a permit of handle_out's     *)
(* semaphore: it is free, with the loop, or in exactly one tunnel.         *)
PermitConservation ==
  \A l \in Loops : Running(l) =>
    permits[l] + Cardinality(PermitHolders(l))
      + (IF loop_pc[l] \in {"accept", "set_permit", "sleep"} THEN 1 ELSE 0)
      = Connections[l]

(* With the tunnel map unlocked, select_tunnel's label map, the router's   *)
(* tunnel ids and the router's cached rules all speak of the tunnels that  *)
(* are in the map: no route points at an OUT without a tunnel, and no      *)
(* tunnel is missing from its routes.                                      *)
MapsAgree ==
  tunnel_map_lock = None =>
    /\ label_to_tunnels_map = Relabelled
    /\ out_rules_map = [o \in Outs |-> {t \in tunnel_map : Out(t) = o}]
    /\ rules_groups_cache = {Out(t) : t \in tunnel_map}

(* active_streams counts the streams whose stream-closed task has yet to   *)
(* count down: a connect that fails on its way leaves no stream behind     *)
(* that would keep a retired tunnel open.                                  *)
StreamsCounted ==
  \A t \in Tunnels :
    active_streams[t] =
      Cardinality({c \in Conns : /\ conn_tunnel[c] = t
                                 /\ conn_pc[c] \in {"streaming", "closed"}
                                 /\ IsHttp2(t)})

(* A tunnel that select_tunnel may hand out still has its request sender:  *)
(* the stream-closed task never closes a tunnel new streams are sent to.   *)
ActiveHasSender ==
  \A t \in Tunnels : IsActive(t) => request_sender[t]

(* The pool as its users see it: a tunnel is in it from the moment the     *)
(* router's cache knows of it to the moment it no longer does.             *)
Joined(t) ==
  \/ closer_pc[t] \in {"spawned", "waiting", "closed"}
  \/ closer_pc[t] = "unregistering" /\ section[t] # "leave"
  \/ \E l \in Loops : loop_tunnel[l] = t /\ section[l] = "leave"
Left(t) ==
  \/ closer_pc[t] = "done"
  \/ closer_pc[t] = "unregistering" /\ section[t] = "leave"
OutOrNone(t) == IF tunnel_loop[t] = None THEN None ELSE Out(t)

Pool == INSTANCE TunnelPool WITH
  NoTunnel <- None,
  out <- [t \in Tunnels |-> OutOrNone(t)],
  members <- {t \in Tunnels : Joined(t)},
  gone <- {t \in Tunnels : Left(t)},
  usable <- {t \in Tunnels : Joined(t) /\ IsActive(t)},
  routed <- rules_groups_cache,
  using <- conn_tunnel

(* The tasks, locks, maps and caches implement the simple pool: cached     *)
(* routes change together with membership, a connection starts only on a   *)
(* tunnel that is in the pool and active, and a retired tunnel is never    *)
(* selected again.                                                         *)
PoolSpec == Pool!Spec

-----------------------------------------------------------------------------
(* Liveness. *)

(* A retired tunnel with a counted stream is closed by the last stream     *)
(* that ends and leaves the maps, however many streams race with it.       *)
DrainedTunnelLeaves ==
  \A t \in Tunnels :
    (/\ t \in tunnel_map /\ ~ IsActive(t) /\ active_streams[t] > 0
     /\ connection_pc[t] = "running" /\ closer_pc[t] = "waiting")
      ~> t \notin tunnel_map

(* A tunnel whose connection ended leaves the maps: always for QUIC, and   *)
(* for HTTP/2 when its closer was waiting before notify_waiters.           *)
ClosedTunnelLeaves ==
  \A t \in Tunnels :
    (/\ t \in tunnel_map /\ connection_pc[t] = "ended"
     /\ ~ IsHttp2(t) \/ closer_pc[t] = "waiting")
      ~> t \notin tunnel_map

(* A QUIC tunnel that got its permit after its connection had ended does   *)
(* not keep it: dropping the tunnel frees the loop to accept another.      *)
LatePermitComesBack ==
  \A t \in Tunnels :
    (connection_pc[t] = "done" /\ IsActive(t) /\ ~ IsHttp2(t)) ~> ~ IsActive(t)

(* "h2 might has some memory leak issue for long standing connections":    *)
(* a connection that reached the lifetime limit is therefore to be closed  *)
(* once its streams are over.                                              *)
LimitedConnectionEnds ==
  \A t \in Tunnels :
    (lifetime_streams[t] >= LifetimeLimit) ~> (connection_pc[t] # "running")
=============================================================================
