---------------------------- MODULE MatchServer ----------------------------
(***************************************************************************)
(* How INs and OUTs find each other through Redis, for one kind of tunnel: *)
(* match_server/redis_match_server.rs, the loops that call it (handle_out  *)
(* in tunnel_manager.rs, `up` in out.rs) and, of the HTTP/2 provider, the  *)
(* meeting of the two connections that follows a match.                    *)
(*                                                                         *)
(* An OUT keeps a key that expires and announces it once per match_in.  An *)
(* IN that accepts the OUT starts a handler for it.  A handler makes up a  *)
(* match key, stores its data there and announces it every second; the OUT *)
(* locks the key, reads the data and answers on the channel of that name.  *)
(*                                                                         *)
(* Redis is external: a command takes effect in one step, a message goes   *)
(* to those subscribed at that moment.  Time is not modelled: a key may    *)
(* expire whenever nobody has to have refreshed it in time.                *)
(***************************************************************************)
EXTENDS Integers, Sequences, FiniteSets

CONSTANTS
  Ins,           \* RedisInMatchServer instances
  Outs,          \* MatchOutIds; a restarted OUT makes up a new one
  Handlers,      \* handle_out tasks
  InOf,          \* the IN a handler belongs to
  Keys,          \* match keys: bound, a forgotten one is used again
  Tunnels,       \* tunnel ids: bound, a forgotten one is used again
  ListenTimeout, \* TRUE: HTTP/2, the OUT stops listening after 5 s; FALSE: QUIC
  MaxMessages,   \* bound: announcements of OUTs an IN has yet to read
  MaxFaults,     \* bound: failed commands and lost messages
  None

ASSUME MatchAssumption ==
  /\ InOf \in [Handlers -> Ins]
  /\ None \notin Outs \cup Keys \cup Tunnels
  /\ ListenTimeout \in BOOLEAN
  /\ MaxMessages \in Nat \ {0}
  /\ MaxFaults \in Nat

VARIABLES
  active_out_id_set,      \* IN: OUTs it takes for active
  accept_pc,              \* IN: where accept_out is
  message_stream,         \* IN: OUT ids received by the current accept_out
  handler_pc,
  handler_out,
  match_key,              \* handler: the key of the current match_out
  subscription_stream,    \* handler: MatchOuts received on that key
  match_out,              \* handler: the MatchOut it connects with
  out_keys,               \* Redis: OUT keys
  match_keys,             \* Redis: match keys with IN data
  match_locks,            \* Redis: "{match_key}:lock"
  out_pc,
  announce_pc,            \* OUT: announce_task of the current match_in
  match_pc,               \* OUT: match_task of the current match_in
  in_announcement_stream, \* OUT: match keys received and not looked at
  matching_key,           \* OUT: the key it is locked on, or was matched by
  tunnel_id,              \* OUT: the tunnel it listens for
  match_count,            \* history: how often a key was matched (2: or more)
  relocked,               \* history: keys whose lock has expired
  faults                  \* history: faults so far

acceptVars == <<active_out_id_set, accept_pc, message_stream>>
handlerVars == <<handler_pc, handler_out, match_key, subscription_stream,
                 match_out>>
redisVars == <<out_keys, match_keys, match_locks>>
outVars == <<out_pc, announce_pc, match_pc, in_announcement_stream,
             matching_key, tunnel_id>>
historyVars == <<match_count, relocked>>
vars == <<acceptVars, handlerVars, redisVars, outVars, historyVars, faults>>

MatchOut == [id : Outs, tunnel_id : Tunnels]
NoMatch == [id |-> None, tunnel_id |-> None]

TypeOK ==
  /\ active_out_id_set \in [Ins -> SUBSET Outs]
  /\ accept_pc \in [Ins -> {"subscribe", "scan", "messages"}]
  /\ message_stream \in [Ins -> Seq(Outs)]
  /\ \A i \in Ins : Len(message_stream[i]) <= MaxMessages
  /\ handler_pc \in [Handlers -> {"none", "subscribe", "exists", "remove",
                                  "set", "announce", "connect"}]
  /\ handler_out \in [Handlers -> Outs \cup {None}]
  /\ match_key \in [Handlers -> Keys \cup {None}]
  /\ subscription_stream \in [Handlers -> SUBSET MatchOut]
  /\ match_out \in [Handlers -> MatchOut \cup {NoMatch}]
  /\ out_keys \in SUBSET Outs
  /\ match_keys \in SUBSET Keys
  /\ match_locks \in SUBSET Keys
  /\ out_pc \in [Outs -> {"down", "match_in", "listening", "dead"}]
  /\ announce_pc \in [Outs -> {"set", "publish", "refresh"}]
  /\ match_pc \in [Outs -> {"next", "get", "reply"}]
  /\ in_announcement_stream \in [Outs -> SUBSET Keys]
  /\ matching_key \in [Outs -> Keys \cup {None}]
  /\ tunnel_id \in [Outs -> Tunnels \cup {None}]
  /\ match_count \in [Keys -> 0 .. 2]
  /\ relocked \in SUBSET Keys
  /\ faults \in 0 .. MaxFaults

Init ==
  /\ active_out_id_set = [i \in Ins |-> {}]
  /\ accept_pc = [i \in Ins |-> "subscribe"]
  /\ message_stream = [i \in Ins |-> <<>>]
  /\ handler_pc = [h \in Handlers |-> "none"]
  /\ handler_out = [h \in Handlers |-> None]
  /\ match_key = [h \in Handlers |-> None]
  /\ subscription_stream = [h \in Handlers |-> {}]
  /\ match_out = [h \in Handlers |-> NoMatch]
  /\ out_keys = {}
  /\ match_keys = {}
  /\ match_locks = {}
  /\ out_pc = [o \in Outs |-> "down"]
  /\ announce_pc = [o \in Outs |-> "set"]
  /\ match_pc = [o \in Outs |-> "next"]
  /\ in_announcement_stream = [o \in Outs |-> {}]
  /\ matching_key = [o \in Outs |-> None]
  /\ tunnel_id = [o \in Outs |-> None]
  /\ match_count = [k \in Keys |-> 0]
  /\ relocked = {}
  /\ faults = 0

Fault == faults < MaxFaults /\ faults' = faults + 1
NoFault == faults' = faults

-----------------------------------------------------------------------------
(* Who is subscribed to what, and which names are new. *)

Accepting(i) == accept_pc[i] \in {"scan", "messages"}
Matching(h) == handler_pc[h] \in {"exists", "remove", "set", "announce"}
InMatch(o) == out_pc[o] = "match_in"
Listening(m) == out_pc[m.id] = "listening" /\ tunnel_id[m.id] = m.tunnel_id

(* Uuid::new_v4: a key nobody holds, stores, locks or has received. *)
FreshKeys ==
  {k \in Keys \ (match_keys \cup match_locks) :
     /\ \A h \in Handlers : match_key[h] # k
     /\ \A o \in Outs : /\ matching_key[o] # k
                        /\ k \notin in_announcement_stream[o]}
FreshTunnels ==
  {t \in Tunnels :
     /\ \A o \in Outs : tunnel_id[o] # t
     /\ \A h \in Handlers :
          /\ match_out[h].tunnel_id # t
          /\ \A m \in subscription_stream[h] : m.tunnel_id # t}

-----------------------------------------------------------------------------
(* IN: handle_tunnel_provider and accept_out. *)

(* A new connection subscribes; what an earlier call received is gone. *)
AcceptSubscribe(i) ==
  /\ accept_pc[i] = "subscribe"
  /\ accept_pc' = [accept_pc EXCEPT ![i] = "scan"]
  /\ NoFault
  /\ UNCHANGED <<active_out_id_set, message_stream, handlerVars, redisVars,
                 outVars, historyVars>>

(* accept_out returns o and a handler is spawned for it. *)
Accepted(i, o) ==
  /\ active_out_id_set' = [active_out_id_set EXCEPT ![i] = @ \cup {o}]
  /\ \E h \in Handlers :
       /\ InOf[h] = i /\ handler_pc[h] = "none"
       /\ handler_pc' = [handler_pc EXCEPT ![h] = "subscribe"]
       /\ handler_out' = [handler_out EXCEPT ![h] = o]
  /\ accept_pc' = [accept_pc EXCEPT ![i] = "subscribe"]
  /\ message_stream' = [message_stream EXCEPT ![i] = <<>>]
  /\ UNCHANGED <<match_key, subscription_stream, match_out>>

(* Mutant: no SCAN, the subscription alone. *)
AcceptScanSkipped(i) ==
  /\ accept_pc[i] = "scan"
  /\ accept_pc' = [accept_pc EXCEPT ![i] = "messages"]
  /\ NoFault
  /\ UNCHANGED <<active_out_id_set, message_stream, handlerVars, redisVars,
                 outVars, historyVars>>

(* SCAN under the set's lock: an OUT key that is not yet active. *)
AcceptScan(i) ==
  /\ accept_pc[i] = "scan"
  /\ \/ \E o \in out_keys \ active_out_id_set[i] : Accepted(i, o)
     \/ /\ out_keys \subseteq active_out_id_set[i]
        /\ accept_pc' = [accept_pc EXCEPT ![i] = "messages"]
        /\ UNCHANGED <<active_out_id_set, message_stream, handlerVars>>
  /\ NoFault
  /\ UNCHANGED <<redisVars, outVars, historyVars>>

(* Mutant: the set is not looked at. *)
AcceptMessageAny(i) ==
  /\ accept_pc[i] = "messages" /\ message_stream[i] # <<>>
  /\ Accepted(i, Head(message_stream[i]))
  /\ NoFault
  /\ UNCHANGED <<redisVars, outVars, historyVars>>

(* An announcement of an OUT in the set is passed over. *)
AcceptMessage(i) ==
  /\ accept_pc[i] = "messages" /\ message_stream[i] # <<>>
  /\ LET o == Head(message_stream[i]) IN
     \/ /\ o \in active_out_id_set[i]
        /\ message_stream' = [message_stream EXCEPT ![i] = Tail(@)]
        /\ UNCHANGED <<active_out_id_set, accept_pc, handlerVars>>
     \/ o \notin active_out_id_set[i] /\ Accepted(i, o)
  /\ NoFault
  /\ UNCHANGED <<redisVars, outVars, historyVars>>

(* SCAN fails, or a message cannot be read; the loop sleeps and calls      *)
(* accept_out again.                                                       *)
AcceptError(i) ==
  /\ Accepting(i)
  /\ Fault
  /\ accept_pc' = [accept_pc EXCEPT ![i] = "subscribe"]
  /\ message_stream' = [message_stream EXCEPT ![i] = <<>>]
  /\ UNCHANGED <<active_out_id_set, handlerVars, redisVars, outVars,
                 historyVars>>

-----------------------------------------------------------------------------
(* IN: handle_out, match_out and the provider's accept. *)

(* The call is over, its subscription dropped; the loop begins the next. *)
HandlerLoops(h) ==
  /\ handler_pc' = [handler_pc EXCEPT ![h] = "subscribe"]
  /\ match_key' = [match_key EXCEPT ![h] = None]
  /\ subscription_stream' = [subscription_stream EXCEPT ![h] = {}]
  /\ match_out' = [match_out EXCEPT ![h] = NoMatch]
  /\ UNCHANGED handler_out

HandlerSubscribe(h) ==
  /\ handler_pc[h] = "subscribe"
  /\ \E k \in FreshKeys :
       /\ match_key' = [match_key EXCEPT ![h] = k]
       /\ match_count' = [match_count EXCEPT ![k] = 0]
       /\ relocked' = relocked \ {k}
  /\ handler_pc' = [handler_pc EXCEPT ![h] = "exists"]
  /\ NoFault
  /\ UNCHANGED <<acceptVars, handler_out, subscription_stream, match_out,
                 redisVars, outVars>>

HandlerExists(h) ==
  /\ handler_pc[h] = "exists"
  /\ handler_pc' = [handler_pc EXCEPT ![h] =
                      IF handler_out[h] \in out_keys THEN "set" ELSE "remove"]
  /\ NoFault
  /\ UNCHANGED <<acceptVars, handler_out, match_key, subscription_stream,
                 match_out, redisVars, outVars, historyVars>>

(* Mutant: the OUT is left in the set. *)
HandlerRemoveKeeping(h) ==
  /\ handler_pc[h] = "remove"
  /\ handler_pc' = [handler_pc EXCEPT ![h] = "none"]
  /\ handler_out' = [handler_out EXCEPT ![h] = None]
  /\ match_key' = [match_key EXCEPT ![h] = None]
  /\ subscription_stream' = [subscription_stream EXCEPT ![h] = {}]
  /\ NoFault
  /\ UNCHANGED <<active_out_id_set, accept_pc, message_stream, match_out,
                 redisVars, outVars, historyVars>>

(* "no longer active": forget the OUT, return None, end the handler. *)
HandlerRemove(h) ==
  /\ handler_pc[h] = "remove"
  /\ active_out_id_set' =
       [active_out_id_set EXCEPT ![InOf[h]] = @ \ {handler_out[h]}]
  /\ handler_pc' = [handler_pc EXCEPT ![h] = "none"]
  /\ handler_out' = [handler_out EXCEPT ![h] = None]
  /\ match_key' = [match_key EXCEPT ![h] = None]
  /\ subscription_stream' = [subscription_stream EXCEPT ![h] = {}]
  /\ NoFault
  /\ UNCHANGED <<accept_pc, message_stream, match_out, redisVars, outVars,
                 historyVars>>

HandlerSetData(h) ==
  /\ handler_pc[h] = "set"
  /\ match_keys' = match_keys \cup {match_key[h]}
  /\ handler_pc' = [handler_pc EXCEPT ![h] = "announce"]
  /\ NoFault
  /\ UNCHANGED <<acceptVars, handler_out, match_key, subscription_stream,
                 match_out, out_keys, match_locks, outVars, historyVars>>

(* Once a second.  A second copy that the OUT has yet to look at is the    *)
(* same to it as a later announcement, so the stream is a set.             *)
HandlerAnnounce(h) ==
  /\ handler_pc[h] = "announce" /\ InMatch(handler_out[h])
  /\ in_announcement_stream' =
       [in_announcement_stream EXCEPT ![handler_out[h]] = @ \cup {match_key[h]}]
  /\ NoFault
  /\ UNCHANGED <<acceptVars, handlerVars, redisVars, out_pc, announce_pc,
                 match_pc, matching_key, tunnel_id, historyVars>>

(* The first answer ends match_out. *)
HandlerMatched(h) ==
  /\ handler_pc[h] = "announce"
  /\ \E m \in subscription_stream[h] :
       match_out' = [match_out EXCEPT ![h] = m]
  /\ handler_pc' = [handler_pc EXCEPT ![h] = "connect"]
  /\ subscription_stream' = [subscription_stream EXCEPT ![h] = {}]
  /\ NoFault
  /\ UNCHANGED <<acceptVars, handler_out, match_key, redisVars, outVars,
                 historyVars>>

(* A command of match_out, or the connection, fails. *)
HandlerError(h) ==
  /\ handler_pc[h] \in {"exists", "set", "announce", "connect"}
  /\ Fault
  /\ HandlerLoops(h)
  /\ UNCHANGED <<acceptVars, redisVars, outVars, historyVars>>

-----------------------------------------------------------------------------
(* OUT: match_in and the provider's accept. *)

(* A call of match_in begins with a subscription of its own; whatever      *)
(* ended the previous one, `up` makes the next call at once.               *)
NextCall(o) ==
  /\ out_pc' = [out_pc EXCEPT ![o] = "match_in"]
  /\ announce_pc' = [announce_pc EXCEPT ![o] = "set"]
  /\ match_pc' = [match_pc EXCEPT ![o] = "next"]
  /\ in_announcement_stream' = [in_announcement_stream EXCEPT ![o] = {}]
  /\ matching_key' = [matching_key EXCEPT ![o] = None]
  /\ tunnel_id' = [tunnel_id EXCEPT ![o] = None]

OutStart(o) ==
  /\ out_pc[o] = "down"
  /\ NextCall(o)
  /\ NoFault
  /\ UNCHANGED <<acceptVars, handlerVars, redisVars, historyVars>>

(* announce_task and match_task share the connection: announce_task holds  *)
(* its lock from SET to PUBLISH, match_task from the lock to the answer.   *)
OutSetKey(o) ==
  /\ InMatch(o) /\ announce_pc[o] = "set" /\ match_pc[o] = "next"
  /\ out_keys' = out_keys \cup {o}
  /\ announce_pc' = [announce_pc EXCEPT ![o] = "publish"]
  /\ NoFault
  /\ UNCHANGED <<acceptVars, handlerVars, match_keys, match_locks, out_pc,
                 match_pc, in_announcement_stream, matching_key, tunnel_id,
                 historyVars>>

(* The one announcement of this call; an IN that is reconnecting loses it. *)
OutPublishKey(o) ==
  /\ InMatch(o) /\ announce_pc[o] = "publish"
  /\ \A i \in Ins : Len(message_stream[i]) < MaxMessages
  /\ \E reached \in SUBSET {i \in Ins : Accepting(i)} :
       /\ \/ reached = {i \in Ins : Accepting(i)} /\ NoFault
          \/ reached # {i \in Ins : Accepting(i)} /\ Fault
       /\ message_stream' = [i \in Ins |->
            IF i \in reached THEN Append(message_stream[i], o)
            ELSE message_stream[i]]
  /\ announce_pc' = [announce_pc EXCEPT ![o] = "refresh"]
  /\ UNCHANGED <<active_out_id_set, accept_pc, handlerVars, redisVars, out_pc,
                 match_pc, in_announcement_stream, matching_key, tunnel_id,
                 historyVars>>

(* EXPIRE finds no key: "OUT expired". *)
OutExpired(o) ==
  /\ InMatch(o) /\ announce_pc[o] = "refresh" /\ match_pc[o] = "next"
  /\ o \notin out_keys
  /\ NextCall(o)
  /\ NoFault
  /\ UNCHANGED <<acceptVars, handlerVars, redisVars, historyVars>>

(* Mutant: SET without NX always succeeds. *)
OutLockAlways(o) ==
  /\ InMatch(o) /\ match_pc[o] = "next" /\ announce_pc[o] # "publish"
  /\ \E k \in in_announcement_stream[o] :
       /\ in_announcement_stream' =
            [in_announcement_stream EXCEPT ![o] = @ \ {k}]
       /\ match_locks' = match_locks \cup {k}
       /\ match_pc' = [match_pc EXCEPT ![o] = "get"]
       /\ matching_key' = [matching_key EXCEPT ![o] = k]
  /\ NoFault
  /\ UNCHANGED <<acceptVars, handlerVars, out_keys, match_keys, out_pc,
                 announce_pc, tunnel_id, historyVars>>

(* SET NX on the lock of a match key; "missed" when somebody has it. *)
OutLock(o) ==
  /\ InMatch(o) /\ match_pc[o] = "next" /\ announce_pc[o] # "publish"
  /\ \E k \in in_announcement_stream[o] :
       /\ in_announcement_stream' =
            [in_announcement_stream EXCEPT ![o] = @ \ {k}]
       /\ \/ /\ k \in match_locks
             /\ UNCHANGED <<match_locks, match_pc, matching_key>>
          \/ /\ k \notin match_locks
             /\ match_locks' = match_locks \cup {k}
             /\ match_pc' = [match_pc EXCEPT ![o] = "get"]
             /\ matching_key' = [matching_key EXCEPT ![o] = k]
  /\ NoFault
  /\ UNCHANGED <<acceptVars, handlerVars, out_keys, match_keys, out_pc,
                 announce_pc, tunnel_id, historyVars>>

(* Data that has expired cannot be decoded: match_in fails.  With a cipher *)
(* `decrypt` panics on the empty value instead, which is an OutCrash.      *)
OutGet(o) ==
  /\ InMatch(o) /\ match_pc[o] = "get"
  /\ \/ /\ matching_key[o] \in match_keys
        /\ match_pc' = [match_pc EXCEPT ![o] = "reply"]
        /\ UNCHANGED <<out_pc, announce_pc, in_announcement_stream,
                       matching_key, tunnel_id>>
     \/ matching_key[o] \notin match_keys /\ NextCall(o)
  /\ NoFault
  /\ UNCHANGED <<acceptVars, handlerVars, redisVars, historyVars>>

(* Mutant: one channel for all handlers. *)
SubscribersOfAll(k) == {h \in Handlers : Matching(h)}

(* The handlers that a MatchOut published on key k reaches. *)
Subscribers(k) == {h \in Handlers : Matching(h) /\ match_key[h] = k}

(* Mutant: the MatchOut is filled in before there is a tunnel id. *)
MatchOutWithoutId(o, t) == [id |-> o, tunnel_id |-> None]

NewMatchOut(o, t) == [id |-> o, tunnel_id |-> t]

(* PUBLISH of the MatchOut, whose listener is bound already.  A fault      *)
(* loses the message, or the answer to the command, or both.               *)
OutReply(o) ==
  /\ InMatch(o) /\ match_pc[o] = "reply"
  /\ \E t \in FreshTunnels, delivered, ok \in BOOLEAN :
       /\ IF delivered /\ ok THEN NoFault ELSE Fault
       /\ IF delivered
          THEN /\ subscription_stream' = [h \in Handlers |->
                    IF h \in Subscribers(matching_key[o])
                    THEN subscription_stream[h] \cup {NewMatchOut(o, t)}
                    ELSE subscription_stream[h]]
               /\ match_count' = [match_count EXCEPT ![matching_key[o]] =
                                    IF @ = 0 THEN 1 ELSE 2]
          ELSE UNCHANGED <<subscription_stream, match_count>>
       /\ IF ok
          THEN /\ out_pc' = [out_pc EXCEPT ![o] = "listening"]
               /\ tunnel_id' = [tunnel_id EXCEPT ![o] = t]
               /\ announce_pc' = [announce_pc EXCEPT ![o] = "set"]
               /\ match_pc' = [match_pc EXCEPT ![o] = "next"]
               /\ in_announcement_stream' =
                    [in_announcement_stream EXCEPT ![o] = {}]
               /\ UNCHANGED matching_key
          ELSE NextCall(o)
  /\ UNCHANGED <<acceptVars, handler_pc, handler_out, match_key, match_out,
                 redisVars, relocked>>

(* A command of match_in fails; a lock it took stays behind. *)
OutError(o) ==
  /\ InMatch(o)
  /\ Fault
  /\ NextCall(o)
  /\ UNCHANGED <<acceptVars, handlerVars, redisVars, historyVars>>

(* listener.accept gives up after five seconds. *)
OutTimeout(o) ==
  /\ ListenTimeout /\ out_pc[o] = "listening"
  /\ NextCall(o)
  /\ NoFault
  /\ UNCHANGED <<acceptVars, handlerVars, redisVars, historyVars>>

(* The process goes away; started again it has another id. *)
OutCrash(o) ==
  /\ out_pc[o] \in {"match_in", "listening"}
  /\ out_pc' = [out_pc EXCEPT ![o] = "dead"]
  /\ announce_pc' = [announce_pc EXCEPT ![o] = "set"]
  /\ match_pc' = [match_pc EXCEPT ![o] = "next"]
  /\ in_announcement_stream' = [in_announcement_stream EXCEPT ![o] = {}]
  /\ matching_key' = [matching_key EXCEPT ![o] = None]
  /\ tunnel_id' = [tunnel_id EXCEPT ![o] = None]
  /\ NoFault
  /\ UNCHANGED <<acceptVars, handlerVars, redisVars, historyVars>>

-----------------------------------------------------------------------------
(* The two connections meet: the IN connects to the address in the         *)
(* MatchOut, where the OUT listens in that very call only.                 *)

HandlerConnected(h) ==
  /\ handler_pc[h] = "connect" /\ Listening(match_out[h])
  /\ NextCall(match_out[h].id)
  /\ HandlerLoops(h)
  /\ NoFault
  /\ UNCHANGED <<acceptVars, redisVars, historyVars>>

HandlerRefused(h) ==
  /\ handler_pc[h] = "connect" /\ ~ Listening(match_out[h])
  /\ HandlerLoops(h)
  /\ NoFault
  /\ UNCHANGED <<acceptVars, redisVars, outVars, historyVars>>

-----------------------------------------------------------------------------
(* Redis: expiry. *)

(* EX 5, refreshed every second from the first EXPIRE on.  That a refresh  *)
(* comes too late is a fault; an OUT that listens, or that has yet to SET  *)
(* its key again, does not refresh it.                                     *)
OutKeyExpires(o) ==
  /\ o \in out_keys
  /\ IF InMatch(o) /\ announce_pc[o] # "set" THEN Fault ELSE NoFault
  /\ out_keys' = out_keys \ {o}
  /\ UNCHANGED <<acceptVars, handlerVars, match_keys, match_locks, outVars,
                 historyVars>>

(* EX 30, refreshed by the handler that announces it. *)
MatchKeyExpires(k) ==
  /\ k \in match_keys
  /\ \A h \in Handlers : match_key[h] = k => handler_pc[h] # "announce"
  /\ match_keys' = match_keys \ {k}
  /\ NoFault
  /\ UNCHANGED <<acceptVars, handlerVars, out_keys, match_locks, outVars,
                 historyVars>>

(* Mutant: the lock is set without EX. *)
LockForever(k) == k \in match_locks /\ FALSE /\ UNCHANGED vars

(* EX 5, never refreshed. *)
LockExpires(k) ==
  /\ k \in match_locks
  /\ match_locks' = match_locks \ {k}
  /\ relocked' = relocked \cup {k}
  /\ NoFault
  /\ UNCHANGED <<acceptVars, handlerVars, out_keys, match_keys, outVars,
                 match_count>>

-----------------------------------------------------------------------------
AcceptTask(i) == AcceptSubscribe(i) \/ AcceptScan(i) \/ AcceptMessage(i)
HandlerTask(h) ==
  \/ HandlerSubscribe(h) \/ HandlerExists(h) \/ HandlerRemove(h)
  \/ HandlerSetData(h) \/ HandlerAnnounce(h) \/ HandlerMatched(h)
  \/ HandlerConnected(h) \/ HandlerRefused(h)
AnnounceTask(o) == OutSetKey(o) \/ OutPublishKey(o) \/ OutExpired(o)
MatchTask(o) == OutLock(o) \/ OutGet(o) \/ OutReply(o)
Expiry ==
  \/ \E o \in Outs : OutKeyExpires(o)
  \/ \E k \in Keys : MatchKeyExpires(k) \/ LockExpires(k)
Failure ==
  \/ \E i \in Ins : AcceptError(i)
  \/ \E h \in Handlers : HandlerError(h)
  \/ \E o \in Outs : OutError(o) \/ OutCrash(o)

Next ==
  \/ \E i \in Ins : AcceptTask(i)
  \/ \E h \in Handlers : HandlerTask(h)
  \/ \E o \in Outs : \/ OutStart(o) \/ OutTimeout(o)
                     \/ AnnounceTask(o) \/ MatchTask(o)
  \/ Expiry
  \/ Failure

Spec == Init /\ [][Next]_vars

(* Every task is run again and again; a match that waits on the channel    *)
(* wins its select, and the tokio mutex of an OUT's connection is fair, so *)
(* announce_task gets it however often match_task has it in between.       *)
Fairness ==
  /\ \A i \in Ins : WF_vars(AcceptTask(i))
  /\ \A h \in Handlers : /\ WF_vars(HandlerTask(h))
                         /\ WF_vars(HandlerMatched(h))
  /\ \A o \in Outs : /\ WF_vars(OutStart(o)) /\ WF_vars(OutTimeout(o))
                     /\ SF_vars(AnnounceTask(o)) /\ WF_vars(MatchTask(o))
                     /\ WF_vars(out_pc[o] = "dead" /\ OutKeyExpires(o))
  /\ \A k \in Keys : WF_vars(MatchKeyExpires(k)) /\ WF_vars(LockExpires(k))

FairSpec == Spec /\ Fairness

-----------------------------------------------------------------------------
(* Safety. *)

Alive(h) == handler_pc[h] # "none"

(* An IN has an OUT in its active set exactly while one handler, and only  *)
(* one, serves it: a set that kept an OUT nobody serves would make         *)
(* accept_out pass it over, one that lost an OUT would start a second      *)
(* handle_out, with a second semaphore, for it.                            *)
ActiveSetMatchesHandlers ==
  \A i \in Ins : \A o \in Outs :
    LET serving == {h \in Handlers :
                      InOf[h] = i /\ Alive(h) /\ handler_out[h] = o}
    IN Cardinality(serving) = (IF o \in active_out_id_set[i] THEN 1 ELSE 0)

(* A match is one handler's and one OUT's: the tunnel a handler got is     *)
(* from the OUT it serves, no other handler got it, and an OUT that waits  *)
(* for that tunnel was matched by this handler's key.                      *)
MatchAgreement ==
  \A h \in Handlers :
    \A m \in subscription_stream[h] \cup
             (IF handler_pc[h] = "connect" THEN {match_out[h]} ELSE {}) :
      /\ m.id = handler_out[h]
      /\ Listening(m) => matching_key[m.id] = match_key[h]
      /\ \A g \in Handlers \ {h} : /\ m \notin subscription_stream[g]
                                   /\ m # match_out[g]

(* The lock does what it is for: an announcement that arrives again, in    *)
(* this call of match_in or the next, is not answered a second time until  *)
(* the lock has expired.                                                   *)
KeyMatchedOnce ==
  \A k \in Keys : match_count[k] > 1 => k \in relocked

(* As long as nothing failed, no lock ran out and no OUT died, an OUT      *)
(* listens for a tunnel only while a handler has, or is about to read, the *)
(* MatchOut that names it.                                                 *)
ListenerIsExpected ==
  (faults = 0 /\ relocked = {}) =>
    \A o \in Outs : out_pc[o] = "listening" =>
      \E h \in Handlers :
        LET m == [id |-> o, tunnel_id |-> tunnel_id[o]]
        IN m \in subscription_stream[h] \/ m = match_out[h]

-----------------------------------------------------------------------------
(* Liveness. *)

(* Every OUT is noticed by every IN once, whether its key or its           *)
(* announcement comes first, and whichever call of accept_out gets it,     *)
(* unless it dies, or something fails, before.                             *)
EveryOutAccepted ==
  \A i \in Ins, o \in Outs :
    <>(o \in active_out_id_set[i] \/ out_pc[o] = "dead" \/ faults > 0)

(* A handler that announces itself to an OUT that stays up is answered,    *)
(* though answers get lost after the key is locked, or match_in fails      *)
(* between the lock and the answer.                                        *)
AnnouncedHandlerMatched ==
  \A h \in Handlers :
    (handler_pc[h] = "announce") ~>
      (handler_pc[h] # "announce" \/ out_pc[handler_out[h]] = "dead")

(* "OUT no longer active." (tunnel_manager.rs:225) is the only reason for  *)
(* a handler to end, so an OUT that waits for INs is served, or at least   *)
(* accepted again, by each of them.                                        *)
WaitingOutServed ==
  \A i \in Ins, o \in Outs :
    InMatch(o) ~> (o \in active_out_id_set[i] \/ ~ InMatch(o))

(* A handler that has yet to look whether its OUT is there (148), or has   *)
(* an answer to go on with, forgets an OUT that died, once its key has run *)
(* out, and for good: not even an announcement the OUT sent before, and    *)
(* accept_out reads only now, brings it back.  A handler that has looked   *)
(* already is not promised anything: it announces itself without end       *)
(* (199).                                                                  *)
WillLookAgain(h) ==
  \/ handler_pc[h] \in {"subscribe", "exists", "remove", "connect"}
  \/ handler_pc[h] = "announce" /\ subscription_stream[h] # {}
DeadOutForgotten ==
  \A h \in Handlers, o \in Outs :
    (out_pc[o] = "dead" /\ o \notin out_keys
       /\ handler_out[h] = o /\ WillLookAgain(h))
      ~> [](o \notin active_out_id_set[InOf[h]])
=============================================================================
