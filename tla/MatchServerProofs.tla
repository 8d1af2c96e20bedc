--------------------------- MODULE MatchServerProofs ---------------------------
(***************************************************************************)
(* Proofs about MatchServer: however many INs and OUTs meet in Redis, an   *)
(* OUT is served once per IN, a match belongs to one handler and one OUT,  *)
(* a lock keeps a key from being matched twice, and nobody listens for a   *)
(* tunnel that no handler has heard of.                                    *)
(***************************************************************************)
EXTENDS MatchServer, FiniteSetTheorems, TLAPS

-----------------------------------------------------------------------------
(* The inductive invariant. *)

(* What a handler holds, step by step.  Answers arrive only once it        *)
(* announces, and are gone when it connects.                               *)
HandlersOK ==
  /\ \A h \in Handlers :
       /\ Alive(h) => handler_out[h] \in Outs
       /\ match_key[h] = None <=> handler_pc[h] \in {"none", "subscribe"}
       /\ subscription_stream[h] # {} => handler_pc[h] = "announce"
       /\ IF handler_pc[h] = "connect" THEN match_out[h] \in MatchOut
          ELSE match_out[h] = NoMatch
  /\ \A g, h \in Handlers :
       match_key[h] # None /\ match_key[g] = match_key[h] => g = h

(* What an OUT holds: a key from the lock to the answer, and the key and   *)
(* the tunnel of the match while it listens.                               *)
OutsOK ==
  \A o \in Outs :
    /\ match_pc[o] \in {"get", "reply"} => InMatch(o) /\ matching_key[o] \in Keys
    /\ out_pc[o] = "listening" =>
         matching_key[o] \in Keys /\ tunnel_id[o] \in Tunnels

(* The active set, with the handlers in the place of their number. *)
ServedOnce ==
  /\ \A i \in Ins : \A o \in active_out_id_set[i] :
       \E h \in Handlers : InOf[h] = i /\ Alive(h) /\ handler_out[h] = o
  /\ \A h \in Handlers : Alive(h) => handler_out[h] \in active_out_id_set[InOf[h]]
  /\ \A g, h \in Handlers :
       /\ Alive(g) /\ Alive(h) /\ InOf[g] = InOf[h]
       /\ handler_out[g] = handler_out[h]
       => g = h

(* An OUT has come by key k. *)
Knows(o, k) == k \in in_announcement_stream[o] \/ matching_key[o] = k

(* A handler's key is known to its own OUT only, and to that only once it  *)
(* is announced.                                                           *)
KeysOK ==
  \A h \in Handlers : match_key[h] # None =>
    \A o \in Outs : Knows(o, match_key[h]) =>
      handler_out[h] = o /\ handler_pc[h] \in {"announce", "connect"}

(* OUT o has locked key k and has yet to answer. *)
Holds(o, k) == match_pc[o] \in {"get", "reply"} /\ matching_key[o] = k

(* A key whose lock has not run out since the key was made up is locked    *)
(* from the first OUT that takes it, and taken once.                       *)
LocksOK ==
  \A k \in Keys \ relocked :
    /\ match_count[k] > 0 => k \in match_locks /\ match_count[k] = 1
    /\ \A o \in Outs : Holds(o, k) => k \in match_locks /\ match_count[k] = 0
    /\ \A o, p \in Outs : Holds(o, k) /\ Holds(p, k) => o = p

(* Answers are counted, and there is one while the lock does its work. *)
AnswersOK ==
  \A h \in Handlers :
    /\ subscription_stream[h] # {} => match_count[match_key[h]] > 0
    /\ match_key[h] \notin relocked =>
         \A m, n \in subscription_stream[h] : m = n

(* While nothing failed: a key that is yet to be answered has its handler  *)
(* waiting, and a listener has its handler told.                           *)
ExpectedOK ==
  faults = 0 =>
    /\ \A o \in Outs, k \in Keys \ relocked :
         /\ k \in in_announcement_stream[o] \/ Holds(o, k)
         /\ match_count[k] = 0
         => \E h \in Handlers : match_key[h] = k /\ handler_pc[h] = "announce"
    /\ \A o \in Outs :
         out_pc[o] = "listening" /\ matching_key[o] \notin relocked =>
           \E h \in Handlers :
             LET m == [id |-> o, tunnel_id |-> tunnel_id[o]]
             IN m \in subscription_stream[h] \/ m = match_out[h]

IInv ==
  /\ TypeOK /\ HandlersOK /\ OutsOK /\ ServedOnce /\ KeysOK
  /\ MatchAgreement /\ LocksOK /\ AnswersOK /\ ExpectedOK

-----------------------------------------------------------------------------
USE MatchAssumption

LEMMA InitIInv == Init => IInv
<1> SUFFICES ASSUME Init PROVE IInv
  OBVIOUS
<1>1. TypeOK
  BY DEF Init, TypeOK, NoMatch
<1>2. HandlersOK /\ OutsOK /\ KeysOK /\ AnswersOK
  BY DEF Init, HandlersOK, OutsOK, KeysOK, AnswersOK, Alive
<1>3. ServedOnce /\ LocksOK /\ ExpectedOK
  BY DEF Init, ServedOnce, LocksOK, ExpectedOK, Alive, Holds
<1>4. MatchAgreement
  BY DEF Init, MatchAgreement
<1> QED
  BY <1>1, <1>2, <1>3, <1>4 DEF IInv

(* What a step may be, one case for each action. *)
LEMMA Steps ==
  ASSUME [Next]_vars
  PROVE  \/ \E i \in Ins : AcceptSubscribe(i) \/ AcceptError(i)
         \/ \E i \in Ins : AcceptScan(i) \/ AcceptMessage(i)
         \/ \E h \in Handlers : HandlerSubscribe(h)
         \/ \E h \in Handlers : HandlerExists(h) \/ HandlerSetData(h)
         \/ \E h \in Handlers : HandlerRemove(h)
         \/ \E h \in Handlers : HandlerAnnounce(h)
         \/ \E h \in Handlers : HandlerMatched(h)
         \/ \E h \in Handlers : HandlerConnected(h)
         \/ \E h \in Handlers : HandlerRefused(h) \/ HandlerError(h)
         \/ \E o \in Outs : OutSetKey(o) \/ OutPublishKey(o)
         \/ \E o \in Outs : OutStart(o) \/ OutExpired(o) \/ OutError(o)
                             \/ OutTimeout(o)
         \/ \E o \in Outs : OutCrash(o)
         \/ \E o \in Outs : OutLock(o)
         \/ \E o \in Outs : OutGet(o)
         \/ \E o \in Outs : OutReply(o)
         \/ \E o \in Outs : OutKeyExpires(o)
         \/ \E k \in Keys : MatchKeyExpires(k)
         \/ \E k \in Keys : LockExpires(k)
         \/ UNCHANGED vars
BY DEF Next, AcceptTask, HandlerTask, AnnounceTask, MatchTask, Expiry, Failure

LEMMA Unchanged ==
  ASSUME UNCHANGED vars
  PROVE  /\ UNCHANGED <<active_out_id_set, accept_pc, message_stream>>
         /\ UNCHANGED <<handler_pc, handler_out, match_key>>
         /\ UNCHANGED <<subscription_stream, match_out>>
         /\ UNCHANGED <<out_keys, match_keys, match_locks>>
         /\ UNCHANGED <<out_pc, announce_pc, match_pc>>
         /\ UNCHANGED <<in_announcement_stream, matching_key, tunnel_id>>
         /\ UNCHANGED <<match_count, relocked, faults>>
BY DEF vars, acceptVars, handlerVars, redisVars, outVars, historyVars

USE DEF acceptVars, handlerVars, redisVars, outVars, historyVars

(* Types, one group of variables at a time. *)
AcceptTypes ==
  /\ active_out_id_set \in [Ins -> SUBSET Outs]
  /\ accept_pc \in [Ins -> {"subscribe", "scan", "messages"}]
  /\ message_stream \in [Ins -> Seq(Outs)]
  /\ \A i \in Ins : Len(message_stream[i]) <= MaxMessages
HandlerTypes ==
  /\ handler_pc \in [Handlers -> {"none", "subscribe", "exists", "remove",
                                  "set", "announce", "connect"}]
  /\ handler_out \in [Handlers -> Outs \cup {None}]
  /\ match_key \in [Handlers -> Keys \cup {None}]
  /\ subscription_stream \in [Handlers -> SUBSET MatchOut]
  /\ match_out \in [Handlers -> MatchOut \cup {NoMatch}]
RedisTypes ==
  /\ out_keys \in SUBSET Outs
  /\ match_keys \in SUBSET Keys
  /\ match_locks \in SUBSET Keys
OutTypes ==
  /\ out_pc \in [Outs -> {"down", "match_in", "listening", "dead"}]
  /\ announce_pc \in [Outs -> {"set", "publish", "refresh"}]
  /\ match_pc \in [Outs -> {"next", "get", "reply"}]
  /\ in_announcement_stream \in [Outs -> SUBSET Keys]
  /\ matching_key \in [Outs -> Keys \cup {None}]
  /\ tunnel_id \in [Outs -> Tunnels \cup {None}]
HistoryTypes ==
  /\ match_count \in [Keys -> 0 .. 2]
  /\ relocked \in SUBSET Keys
  /\ faults \in 0 .. MaxFaults

(* A handler in a match has an OUT and a key. *)
LEMMA HandlerInMatch ==
  ASSUME TypeOK, HandlersOK, NEW h \in Handlers,
         handler_pc[h] \notin {"none", "subscribe"}
  PROVE  match_key[h] \in Keys /\ handler_out[h] \in Outs
BY DEF TypeOK, HandlersOK, Alive

(* A scan or a message that is accepted, for an OUT that is not active. *)
LEMMA Accepts ==
  ASSUME TypeOK, NEW i \in Ins, AcceptScan(i) \/ AcceptMessage(i)
  PROVE  /\ \/ \E o \in Outs \ active_out_id_set[i] : Accepted(i, o)
            \/ UNCHANGED <<active_out_id_set, handlerVars>>
         /\ UNCHANGED <<redisVars, outVars, historyVars, faults>>
<1>1. CASE AcceptScan(i)
  BY <1>1 DEF AcceptScan, TypeOK, NoFault
<1>2. CASE AcceptMessage(i)
  <2>1. Head(message_stream[i]) \in Outs
    BY <1>2 DEF AcceptMessage, TypeOK
  <2> QED
    BY <1>2, <2>1 DEF AcceptMessage, NoFault
<1> QED
  BY <1>1, <1>2

LEMMA AcceptTypesStep ==
  ASSUME TypeOK, [Next]_vars
  PROVE  AcceptTypes'
<1>1. ASSUME NEW i \in Ins, AcceptSubscribe(i) \/ AcceptError(i)
      PROVE  AcceptTypes'
  <2>1. <<>> \in Seq(Outs) /\ Len(<<>>) <= MaxMessages
    OBVIOUS
  <2>2. CASE AcceptSubscribe(i)
    BY <2>2 DEF AcceptSubscribe, TypeOK, AcceptTypes
  <2>3. CASE AcceptError(i)
    BY <2>1, <2>3 DEF AcceptError, TypeOK, AcceptTypes
  <2> QED
    BY <1>1, <2>2, <2>3
<1>2. ASSUME NEW i \in Ins, NEW o \in Outs, Accepted(i, o)
      PROVE  AcceptTypes'
  <2>1. <<>> \in Seq(Outs) /\ Len(<<>>) <= MaxMessages
    OBVIOUS
  <2> QED
    BY <1>2, <2>1 DEF Accepted, TypeOK, AcceptTypes
<1>3. ASSUME NEW i \in Ins, AcceptScan(i), UNCHANGED active_out_id_set
      PROVE  AcceptTypes'
  BY <1>2, <1>3 DEF AcceptScan, TypeOK, AcceptTypes
<1>4. ASSUME NEW i \in Ins, AcceptMessage(i), UNCHANGED active_out_id_set
      PROVE  AcceptTypes'
  <2>1. /\ Head(message_stream[i]) \in Outs
        /\ Tail(message_stream[i]) \in Seq(Outs)
        /\ Len(Tail(message_stream[i])) <= MaxMessages
    BY <1>4 DEF AcceptMessage, TypeOK
  <2> QED
    <3>1. CASE Accepted(i, Head(message_stream[i]))
      BY <1>2, <2>1, <3>1
    <3>2. CASE /\ message_stream' =
                    [message_stream EXCEPT ![i] = Tail(message_stream[i])]
               /\ UNCHANGED <<active_out_id_set, accept_pc>>
      BY <2>1, <3>2 DEF TypeOK, AcceptTypes
    <3> QED
      BY <1>4, <3>1, <3>2 DEF AcceptMessage
<1>5. ASSUME NEW o \in Outs, OutPublishKey(o)
      PROVE  AcceptTypes'
  <2>1. \A i \in Ins : /\ message_stream[i] \in Seq(Outs)
                       /\ Append(message_stream[i], o) \in Seq(Outs)
                       /\ Len(Append(message_stream[i], o)) <= MaxMessages
    BY <1>5 DEF OutPublishKey, TypeOK
  <2>2. PICK reached \in SUBSET Ins :
          message_stream' = [i \in Ins |->
            IF i \in reached THEN Append(message_stream[i], o)
            ELSE message_stream[i]]
    BY <1>5 DEF OutPublishKey
  <2> QED
    BY <1>5, <2>1, <2>2 DEF OutPublishKey, TypeOK, AcceptTypes
<1>6. ASSUME NEW h \in Handlers, HandlerRemove(h)
      PROVE  AcceptTypes'
  BY <1>6 DEF HandlerRemove, TypeOK, AcceptTypes
<1>7. ASSUME UNCHANGED acceptVars
      PROVE  AcceptTypes'
  BY <1>7 DEF TypeOK, AcceptTypes
<1>8. ASSUME NEW i \in Ins, AcceptScan(i) \/ AcceptMessage(i)
      PROVE  AcceptTypes'
  BY <1>2, <1>3, <1>4, <1>8, Accepts
<1> QED
  BY <1>1, <1>5, <1>6, <1>7, <1>8, Steps, Unchanged
     DEF HandlerSubscribe, HandlerExists, HandlerSetData, HandlerAnnounce,
         HandlerMatched, HandlerConnected, HandlerRefused, HandlerError,
         OutSetKey, OutStart, OutExpired, OutError, OutTimeout, OutCrash,
         OutLock, OutGet, OutReply, OutKeyExpires, MatchKeyExpires, LockExpires

LEMMA HandlerTypesStep ==
  ASSUME TypeOK, HandlersOK, OutsOK, [Next]_vars
  PROVE  HandlerTypes'
<1>1. ASSUME NEW i \in Ins, AcceptScan(i) \/ AcceptMessage(i)
      PROVE  HandlerTypes'
  <2>1. ASSUME NEW o \in Outs, Accepted(i, o) PROVE HandlerTypes'
    BY <2>1 DEF Accepted, TypeOK, HandlerTypes
  <2> QED
    BY <1>1, <2>1, Accepts DEF TypeOK, HandlerTypes
<1>2. ASSUME NEW h \in Handlers, HandlerSubscribe(h)
      PROVE  HandlerTypes'
  <2>1. PICK k \in Keys : match_key' = [match_key EXCEPT ![h] = k]
    BY <1>2 DEF HandlerSubscribe, FreshKeys
  <2> QED
    BY <1>2, <2>1 DEF HandlerSubscribe, TypeOK, HandlerTypes
<1>3. ASSUME NEW h \in Handlers, HandlerExists(h) \/ HandlerSetData(h)
      PROVE  HandlerTypes'
  BY <1>3 DEF HandlerExists, HandlerSetData, TypeOK, HandlerTypes
<1>4. ASSUME NEW h \in Handlers, HandlerRemove(h)
      PROVE  HandlerTypes'
  BY <1>4 DEF HandlerRemove, TypeOK, HandlerTypes
<1>5. ASSUME NEW h \in Handlers, HandlerMatched(h)
      PROVE  HandlerTypes'
  BY <1>5 DEF HandlerMatched, TypeOK, HandlerTypes
<1>6. ASSUME NEW h \in Handlers, HandlerLoops(h)
      PROVE  HandlerTypes'
  BY <1>6 DEF HandlerLoops, TypeOK, HandlerTypes
<1>7. ASSUME NEW o \in Outs, OutReply(o)
      PROVE  HandlerTypes'
  <2>1. \A t \in Tunnels : NewMatchOut(o, t) \in MatchOut
    BY DEF NewMatchOut, MatchOut
  <2>2. PICK t \in Tunnels :
          \/ UNCHANGED subscription_stream
          \/ subscription_stream' = [h \in Handlers |->
                 IF h \in Subscribers(matching_key[o])
                 THEN subscription_stream[h] \cup {NewMatchOut(o, t)}
                 ELSE subscription_stream[h]]
    BY <1>7 DEF OutReply, FreshTunnels
  <2>3. subscription_stream' \in [Handlers -> SUBSET MatchOut]
    <3>1. \A h \in Handlers :
            /\ subscription_stream[h] \subseteq MatchOut
            /\ subscription_stream[h] \cup {NewMatchOut(o, t)}
                 \subseteq MatchOut
      BY <2>1 DEF TypeOK
    <3> QED
      BY <2>2, <3>1 DEF TypeOK
  <2> QED
    BY <1>7, <2>3 DEF OutReply, TypeOK, HandlerTypes
<1>8. ASSUME UNCHANGED handlerVars
      PROVE  HandlerTypes'
  BY <1>8 DEF TypeOK, HandlerTypes
<1> QED
  BY <1>1, <1>2, <1>3, <1>4, <1>5, <1>6, <1>7, <1>8, Steps, Unchanged
     DEF AcceptSubscribe, AcceptError, HandlerAnnounce, HandlerConnected,
         HandlerRefused, HandlerError, OutSetKey, OutPublishKey, OutStart,
         OutExpired, OutError, OutTimeout, OutCrash, OutLock, OutGet,
         OutKeyExpires, MatchKeyExpires, LockExpires

LEMMA RedisTypesStep ==
  ASSUME TypeOK, HandlersOK, [Next]_vars
  PROVE  RedisTypes'
<1>1. ASSUME NEW h \in Handlers, HandlerSetData(h)
      PROVE  RedisTypes'
  BY <1>1, HandlerInMatch DEF HandlerSetData, TypeOK, RedisTypes
<1>2. ASSUME NEW o \in Outs, OutSetKey(o) \/ OutLock(o) \/ OutKeyExpires(o)
      PROVE  RedisTypes'
  BY <1>2 DEF OutSetKey, OutLock, OutKeyExpires, TypeOK, RedisTypes
<1>3. ASSUME NEW k \in Keys, MatchKeyExpires(k) \/ LockExpires(k)
      PROVE  RedisTypes'
  BY <1>3 DEF MatchKeyExpires, LockExpires, TypeOK, RedisTypes
<1>4. ASSUME UNCHANGED redisVars
      PROVE  RedisTypes'
  BY <1>4 DEF TypeOK, RedisTypes
<1> QED
  BY <1>1, <1>2, <1>3, <1>4, Steps, Unchanged, Accepts
     DEF AcceptSubscribe, AcceptError, HandlerSubscribe, HandlerExists,
         HandlerRemove, HandlerAnnounce, HandlerMatched, HandlerConnected,
         HandlerRefused, HandlerError, OutPublishKey, OutStart, OutExpired,
         OutError, OutTimeout, OutCrash, OutGet, OutReply

LEMMA OutTypesStep ==
  ASSUME TypeOK, HandlersOK, [Next]_vars
  PROVE  OutTypes'
<1>1. ASSUME NEW o \in Outs, NextCall(o)
      PROVE  OutTypes'
  BY <1>1 DEF NextCall, TypeOK, OutTypes
<1>2. ASSUME NEW h \in Handlers, HandlerAnnounce(h)
      PROVE  OutTypes'
  <2>1. match_key[h] \in Keys /\ handler_out[h] \in Outs
    BY <1>2, HandlerInMatch DEF HandlerAnnounce
  <2> QED
    BY <1>2, <2>1 DEF HandlerAnnounce, TypeOK, OutTypes
<1>3. ASSUME NEW h \in Handlers, HandlerConnected(h)
      PROVE  OutTypes'
  <2>1. match_out[h].id \in Outs
    BY <1>3 DEF HandlerConnected, HandlersOK, MatchOut
  <2> QED
    BY <1>1, <1>3, <2>1 DEF HandlerConnected
<1>4. ASSUME NEW o \in Outs, OutSetKey(o) \/ OutPublishKey(o)
      PROVE  OutTypes'
  <2>1. CASE OutSetKey(o)
    BY <2>1 DEF OutSetKey, TypeOK, OutTypes
  <2>2. CASE OutPublishKey(o)
    BY <2>2 DEF OutPublishKey, TypeOK, OutTypes
  <2> QED
    BY <1>4, <2>1, <2>2
<1>5. ASSUME NEW o \in Outs, OutCrash(o)
      PROVE  OutTypes'
  BY <1>5 DEF OutCrash, TypeOK, OutTypes
<1>6. ASSUME NEW o \in Outs, OutLock(o)
      PROVE  OutTypes'
  <2>1. PICK k \in Keys :
          /\ in_announcement_stream' =
               [in_announcement_stream EXCEPT ![o] = @ \ {k}]
          /\ \/ UNCHANGED <<match_pc, matching_key>>
             \/ /\ match_pc' = [match_pc EXCEPT ![o] = "get"]
                /\ matching_key' = [matching_key EXCEPT ![o] = k]
    BY <1>6 DEF OutLock, TypeOK
  <2> QED
    <3>1. UNCHANGED <<out_pc, announce_pc, tunnel_id>>
      BY <1>6 DEF OutLock
    <3> QED
      <4>1. in_announcement_stream' \in [Outs -> SUBSET Keys]
        BY <2>1 DEF TypeOK
      <4>2. /\ match_pc' \in [Outs -> {"next", "get", "reply"}]
            /\ matching_key' \in [Outs -> Keys \cup {None}]
        <5>1. CASE UNCHANGED <<match_pc, matching_key>>
          BY <5>1 DEF TypeOK
        <5>2. CASE /\ match_pc' = [match_pc EXCEPT ![o] = "get"]
                   /\ matching_key' = [matching_key EXCEPT ![o] = k]
          BY <5>2 DEF TypeOK
        <5> QED
          BY <2>1, <5>1, <5>2
      <4> QED
        BY <3>1, <4>1, <4>2 DEF TypeOK, OutTypes
<1>7. ASSUME NEW o \in Outs, OutGet(o)
      PROVE  OutTypes'
  <2>1. CASE match_pc' = [match_pc EXCEPT ![o] = "reply"]
               /\ UNCHANGED <<out_pc, announce_pc, in_announcement_stream,
                              matching_key, tunnel_id>>
    BY <2>1 DEF TypeOK, OutTypes
  <2> QED
    BY <1>1, <1>7, <2>1 DEF OutGet
<1>8. ASSUME NEW o \in Outs, OutReply(o), ~ NextCall(o)
      PROVE  OutTypes'
  <2>1. PICK t \in Tunnels :
          /\ out_pc' = [out_pc EXCEPT ![o] = "listening"]
          /\ tunnel_id' = [tunnel_id EXCEPT ![o] = t]
          /\ announce_pc' = [announce_pc EXCEPT ![o] = "set"]
          /\ match_pc' = [match_pc EXCEPT ![o] = "next"]
          /\ in_announcement_stream' =
               [in_announcement_stream EXCEPT ![o] = {}]
          /\ UNCHANGED matching_key
    BY <1>8 DEF OutReply, FreshTunnels
  <2> QED
    BY <2>1 DEF TypeOK, OutTypes
<1>9. ASSUME UNCHANGED outVars
      PROVE  OutTypes'
  BY <1>9 DEF TypeOK, OutTypes
<1> QED
  BY <1>1, <1>2, <1>3, <1>4, <1>5, <1>6, <1>7, <1>8, <1>9, Steps, Unchanged,
     Accepts
     DEF AcceptSubscribe, AcceptError, HandlerSubscribe, HandlerExists,
         HandlerSetData, HandlerRemove, HandlerMatched, HandlerRefused,
         HandlerError, OutStart, OutExpired, OutError, OutTimeout,
         OutKeyExpires, MatchKeyExpires, LockExpires

LEMMA HistoryTypesStep ==
  ASSUME TypeOK, OutsOK, [Next]_vars
  PROVE  HistoryTypes'
<1>1. faults' \in 0 .. MaxFaults
  BY Steps, Unchanged, Accepts
     DEF Fault, NoFault, AcceptSubscribe, AcceptError, HandlerSubscribe,
         HandlerExists, HandlerSetData, HandlerRemove, HandlerAnnounce,
         HandlerMatched, HandlerConnected, HandlerRefused, HandlerError,
         OutSetKey, OutPublishKey, OutStart, OutExpired, OutError, OutTimeout,
         OutCrash, OutLock, OutGet, OutReply, OutKeyExpires, MatchKeyExpires,
         LockExpires, TypeOK
<1>2. ASSUME NEW h \in Handlers, HandlerSubscribe(h)
      PROVE  HistoryTypes'
  <2>1. PICK k \in Keys : /\ match_count' = [match_count EXCEPT ![k] = 0]
                          /\ relocked' = relocked \ {k}
    BY <1>2 DEF HandlerSubscribe, FreshKeys
  <2> QED
    BY <1>1, <2>1 DEF TypeOK, HistoryTypes
<1>3. ASSUME NEW o \in Outs, OutReply(o)
      PROVE  HistoryTypes'
  <2>1. matching_key[o] \in Keys
    BY <1>3 DEF OutReply, OutsOK
  <2>2. \/ UNCHANGED match_count
        \/ match_count' = [match_count EXCEPT ![matching_key[o]] =
                             IF match_count[matching_key[o]] = 0 THEN 1 ELSE 2]
    BY <1>3 DEF OutReply
  <2>3. match_count' \in [Keys -> 0 .. 2]
    BY <2>1, <2>2 DEF TypeOK
  <2> QED
    BY <1>1, <1>3, <2>3 DEF OutReply, TypeOK, HistoryTypes
<1>4. ASSUME NEW k \in Keys, LockExpires(k)
      PROVE  HistoryTypes'
  BY <1>1, <1>4 DEF LockExpires, TypeOK, HistoryTypes
<1>5. ASSUME UNCHANGED historyVars
      PROVE  HistoryTypes'
  BY <1>1, <1>5 DEF TypeOK, HistoryTypes
<1> QED
  BY <1>2, <1>3, <1>4, <1>5, Steps, Unchanged, Accepts
     DEF AcceptSubscribe, AcceptError, HandlerExists, HandlerSetData,
         HandlerRemove, HandlerAnnounce, HandlerMatched, HandlerConnected,
         HandlerRefused, HandlerError, OutSetKey, OutPublishKey, OutStart,
         OutExpired, OutError, OutTimeout, OutCrash, OutLock, OutGet,
         OutKeyExpires, MatchKeyExpires

LEMMA TypeStep ==
  ASSUME TypeOK, HandlersOK, OutsOK, [Next]_vars
  PROVE  TypeOK'
<1>1. AcceptTypes' /\ HandlerTypes' /\ RedisTypes' /\ OutTypes'
        /\ HistoryTypes'
  BY AcceptTypesStep, HandlerTypesStep, RedisTypesStep, OutTypesStep,
     HistoryTypesStep
<1> QED
  BY <1>1 DEF TypeOK, AcceptTypes, HandlerTypes, RedisTypes, OutTypes,
              HistoryTypes

-----------------------------------------------------------------------------
(* What the steps do, one fact for each way a step can matter below. *)

(* OUT o is in no match any more, all others go on. *)
Reset(o) ==
  /\ o \in Outs
  /\ out_pc'[o] # "listening" /\ match_pc'[o] = "next"
  /\ in_announcement_stream'[o] = {}
  /\ matching_key'[o] = None /\ tunnel_id'[o] = None
  /\ \A p \in Outs \ {o} :
       /\ out_pc'[p] = out_pc[p] /\ match_pc'[p] = match_pc[p]
       /\ in_announcement_stream'[p] = in_announcement_stream[p]
       /\ matching_key'[p] = matching_key[p] /\ tunnel_id'[p] = tunnel_id[p]

OutsStay ==
  UNCHANGED <<out_pc, match_pc, in_announcement_stream, matching_key, tunnel_id>>
InStays == UNCHANGED <<active_out_id_set, handlerVars>>

(* Handler h's next call of match_out begins. *)
Loops(h) ==
  /\ handler_pc[h] \in {"exists", "set", "announce", "connect"}
  /\ HandlerLoops(h)
  /\ UNCHANGED active_out_id_set

LEMMA Resets ==
  ASSUME TypeOK, NEW o \in Outs, NextCall(o) \/ OutCrash(o)
  PROVE  Reset(o)
<1>1. CASE NextCall(o)
  BY <1>1 DEF NextCall, TypeOK, Reset
<1>2. CASE OutCrash(o)
  BY <1>2 DEF OutCrash, TypeOK, Reset
<1> QED
  BY <1>1, <1>2

LEMMA Effects ==
  ASSUME TypeOK, HandlersOK, [Next]_vars
  PROVE  \/ InStays /\ OutsStay /\ UNCHANGED <<match_locks, historyVars>>
         \/ /\ \E i \in Ins : \E o \in Outs \ active_out_id_set[i] :
                 Accepted(i, o)
            /\ OutsStay /\ UNCHANGED <<match_locks, historyVars>>
         \/ \E h \in Handlers : HandlerSubscribe(h)
         \/ \E h \in Handlers : HandlerExists(h) \/ HandlerSetData(h)
         \/ \E h \in Handlers : HandlerRemove(h)
         \/ \E h \in Handlers : HandlerAnnounce(h)
         \/ \E h \in Handlers : HandlerMatched(h)
         \/ /\ \E h \in Handlers :
                 /\ Loops(h) /\ handler_pc[h] = "connect"
                 /\ Reset(match_out[h].id)
            /\ UNCHANGED <<match_locks, historyVars>>
         \/ /\ \E h \in Handlers :
                 /\ Loops(h)
                 /\ \/ handler_pc[h] = "connect" /\ ~ Listening(match_out[h])
                    \/ faults' > 0
            /\ OutsStay /\ UNCHANGED <<match_locks, historyVars>>
         \/ /\ \E o \in Outs : Reset(o)
            /\ InStays /\ UNCHANGED <<match_locks, historyVars>>
         \/ \E o \in Outs : OutLock(o)
         \/ /\ \E o \in Outs : OutGet(o)
            /\ UNCHANGED <<out_pc, in_announcement_stream, matching_key, tunnel_id>>
         \/ \E o \in Outs : OutReply(o)
         \/ \E k \in Keys : LockExpires(k)
<1>1. ASSUME NEW i \in Ins, AcceptScan(i) \/ AcceptMessage(i)
      PROVE  /\ \/ \E o \in Outs \ active_out_id_set[i] : Accepted(i, o)
                \/ InStays
             /\ OutsStay /\ UNCHANGED <<match_locks, historyVars>>
  BY <1>1, Accepts DEF InStays, OutsStay
<1>2. ASSUME NEW h \in Handlers, HandlerConnected(h)
      PROVE  /\ Loops(h) /\ handler_pc[h] = "connect"
             /\ Reset(match_out[h].id) /\ UNCHANGED <<match_locks, historyVars>>
  <2>1. match_out[h].id \in Outs
    BY <1>2 DEF HandlerConnected, HandlersOK, MatchOut
  <2> QED
    BY <1>2, <2>1, Resets DEF HandlerConnected, Loops
<1>3. ASSUME NEW h \in Handlers, HandlerRefused(h) \/ HandlerError(h)
      PROVE  /\ Loops(h)
             /\ \/ handler_pc[h] = "connect" /\ ~ Listening(match_out[h])
                \/ faults' > 0
             /\ OutsStay /\ UNCHANGED <<match_locks, historyVars>>
  BY <1>3 DEF HandlerRefused, HandlerError, Fault, Loops, OutsStay, TypeOK
<1>4. ASSUME NEW o \in Outs,
             \/ OutStart(o) \/ OutExpired(o) \/ OutError(o) \/ OutTimeout(o)
             \/ OutCrash(o)
      PROVE  Reset(o) /\ InStays /\ UNCHANGED <<match_locks, historyVars>>
  BY <1>4, Resets
     DEF OutStart, OutExpired, OutError, OutTimeout, OutCrash, InStays
<1>5. ASSUME NEW o \in Outs, OutGet(o)
      PROVE  \/ Reset(o) /\ InStays /\ UNCHANGED <<match_locks, historyVars>>
             \/ UNCHANGED <<out_pc, in_announcement_stream, matching_key, tunnel_id>>
  BY <1>5, Resets DEF OutGet, InStays
<1>6. ASSUME \/ \E i \in Ins : AcceptSubscribe(i) \/ AcceptError(i)
             \/ \E o \in Outs : \/ OutSetKey(o) \/ OutPublishKey(o)
                                 \/ OutKeyExpires(o)
             \/ \E k \in Keys : MatchKeyExpires(k)
             \/ UNCHANGED vars
      PROVE  InStays /\ OutsStay /\ UNCHANGED <<match_locks, historyVars>>
  BY <1>6, Unchanged
     DEF AcceptSubscribe, AcceptError, OutSetKey, OutPublishKey, OutKeyExpires,
         MatchKeyExpires, InStays, OutsStay
<1> HIDE DEF acceptVars, handlerVars, redisVars, outVars, historyVars
<1> QED
  BY <1>1, <1>2, <1>3, <1>4, <1>5, <1>6, Steps

(* An answer: o lets go of its key, which perhaps reaches whoever announced *)
(* it, and listens or begins again.  Where nothing failed it did both.     *)
ReplyEffect(o, t, k, delivered, ok) ==
  /\ t \in FreshTunnels /\ k \in Keys /\ Holds(o, k) /\ InMatch(o)
  /\ faults' = 0 => delivered /\ ok
  /\ \A h \in Handlers : subscription_stream'[h] =
       IF delivered /\ h \in Subscribers(k)
       THEN subscription_stream[h] \cup {[id |-> o, tunnel_id |-> t]}
       ELSE subscription_stream[h]
  /\ \A j \in Keys : match_count'[j] =
       IF delivered /\ j = k THEN IF match_count[k] = 0 THEN 1 ELSE 2
       ELSE match_count[j]
  /\ IF ok THEN /\ out_pc'[o] = "listening" /\ match_pc'[o] = "next"
                /\ in_announcement_stream'[o] = {}
                /\ matching_key'[o] = k /\ tunnel_id'[o] = t
                /\ \A p \in Outs \ {o} :
                     /\ out_pc'[p] = out_pc[p] /\ match_pc'[p] = match_pc[p]
                     /\ in_announcement_stream'[p] = in_announcement_stream[p]
                     /\ matching_key'[p] = matching_key[p]
                     /\ tunnel_id'[p] = tunnel_id[p]
     ELSE Reset(o)
  /\ UNCHANGED <<active_out_id_set, handler_pc, handler_out, match_key,
                 match_out, match_locks, relocked>>

LEMMA Replies ==
  ASSUME TypeOK, OutsOK, NEW o \in Outs, OutReply(o)
  PROVE  \E t \in Tunnels, k \in Keys, delivered, ok \in BOOLEAN :
           ReplyEffect(o, t, k, delivered, ok)
<1> DEFINE k == matching_key[o]
<1>1. k \in Keys /\ Holds(o, k) /\ InMatch(o)
  BY DEF OutReply, OutsOK, Holds
<1>2. PICK t \in FreshTunnels, delivered \in BOOLEAN, ok \in BOOLEAN :
       /\ IF delivered /\ ok THEN NoFault ELSE Fault
       /\ IF delivered
          THEN /\ subscription_stream' = [h \in Handlers |->
                    IF h \in Subscribers(matching_key[o])
                    THEN subscription_stream[h] \cup {NewMatchOut(o, t)}
                    ELSE subscription_stream[h]]
               /\ match_count' = [match_count EXCEPT ![matching_key[o]] =
                                    IF @ = 0 THEN 1 ELSE 2]
          ELSE UNCHANGED <<subscription_stream, match_count>>
       /\ IF ok
          THEN /\ out_pc' = [out_pc EXCEPT ![o] = "listening"]
               /\ tunnel_id' = [tunnel_id EXCEPT ![o] = t]
               /\ announce_pc' = [announce_pc EXCEPT ![o] = "set"]
               /\ match_pc' = [match_pc EXCEPT ![o] = "next"]
               /\ in_announcement_stream' =
                    [in_announcement_stream EXCEPT ![o] = {}]
               /\ UNCHANGED matching_key
          ELSE NextCall(o)
  BY DEF OutReply
<1>3. t \in Tunnels
  BY DEF FreshTunnels
<1>4. faults' = 0 => delivered /\ ok
  BY <1>2 DEF Fault, TypeOK
<1>5. \A h \in Handlers : subscription_stream'[h] =
       IF delivered /\ h \in Subscribers(k)
       THEN subscription_stream[h] \cup {[id |-> o, tunnel_id |-> t]}
       ELSE subscription_stream[h]
  <2>1. CASE delivered
    <3>1. subscription_stream' = [h \in Handlers |->
                    IF h \in Subscribers(matching_key[o])
                    THEN subscription_stream[h] \cup {NewMatchOut(o, t)}
                    ELSE subscription_stream[h]]
      BY <1>2, <2>1
    <3> QED
      BY <2>1, <3>1 DEF NewMatchOut
  <2>2. CASE ~ delivered
    BY <1>2, <2>2
  <2> QED
    BY <2>1, <2>2
<1>6. \A j \in Keys : match_count'[j] =
       IF delivered /\ j = k THEN IF match_count[k] = 0 THEN 1 ELSE 2
       ELSE match_count[j]
  BY <1>1, <1>2 DEF TypeOK
<1>7. IF ok THEN /\ out_pc'[o] = "listening" /\ match_pc'[o] = "next"
                 /\ in_announcement_stream'[o] = {}
                 /\ matching_key'[o] = k /\ tunnel_id'[o] = t
                 /\ \A p \in Outs \ {o} :
                     /\ out_pc'[p] = out_pc[p] /\ match_pc'[p] = match_pc[p]
                     /\ in_announcement_stream'[p] = in_announcement_stream[p]
                     /\ matching_key'[p] = matching_key[p]
                     /\ tunnel_id'[p] = tunnel_id[p]
      ELSE Reset(o)
  BY <1>1, <1>2, Resets DEF TypeOK
<1>8. UNCHANGED <<active_out_id_set, handler_pc, handler_out, match_key,
                  match_out, match_locks, relocked>>
  BY DEF OutReply
<1>9. ReplyEffect(o, t, k, delivered, ok)
  BY <1>1, <1>2, <1>4, <1>5, <1>6, <1>7, <1>8 DEF ReplyEffect
<1> QED
  BY <1>1, <1>3, <1>9

-----------------------------------------------------------------------------
(* The conjuncts of the invariant, one lemma each. *)

USE DEF Loops, HandlerLoops, InStays, OutsStay

LEMMA HandlersStep ==
  ASSUME IInv, [Next]_vars
  PROVE  HandlersOK'
<1> USE DEF IInv
<1>1. ASSUME NEW i \in Ins, NEW o \in Outs, Accepted(i, o)
      PROVE  HandlersOK'
  BY <1>1 DEF Accepted, HandlersOK, Alive, TypeOK
<1>2. ASSUME NEW h \in Handlers, HandlerSubscribe(h)
      PROVE  HandlersOK'
  <2>1. PICK k \in Keys :
          /\ match_key' = [match_key EXCEPT ![h] = k]
          /\ \A g \in Handlers : match_key[g] # k
    BY <1>2 DEF HandlerSubscribe, FreshKeys
  <2>2. handler_pc[h] = "subscribe"
        /\ handler_pc' = [handler_pc EXCEPT ![h] = "exists"]
        /\ UNCHANGED <<handler_out, subscription_stream, match_out>>
    BY <1>2 DEF HandlerSubscribe
  <2> QED
    BY <2>1, <2>2 DEF HandlersOK, Alive, TypeOK
<1>3. ASSUME NEW h \in Handlers, HandlerExists(h) \/ HandlerSetData(h)
      PROVE  HandlersOK'
  BY <1>3 DEF HandlerExists, HandlerSetData, HandlersOK, Alive, TypeOK
<1>4. ASSUME NEW h \in Handlers, HandlerRemove(h)
      PROVE  HandlersOK'
  BY <1>4 DEF HandlerRemove, HandlersOK, Alive, TypeOK
<1>5. ASSUME NEW h \in Handlers, HandlerMatched(h)
      PROVE  HandlersOK'
  BY <1>5 DEF HandlerMatched, HandlersOK, Alive, TypeOK
<1>6. ASSUME NEW h \in Handlers, Loops(h)
      PROVE  HandlersOK'
  BY <1>6 DEF HandlersOK, Alive, TypeOK
<1>7. ASSUME NEW o \in Outs, OutReply(o)
      PROVE  HandlersOK'
  <2>1. \A h \in Handlers :
          subscription_stream'[h] # subscription_stream[h] =>
            Matching(h) /\ match_key[h] = matching_key[o]
    BY <1>7 DEF OutReply, Subscribers, TypeOK
  <2>2. \A h \in Handlers :
          subscription_stream'[h] # {} => handler_pc[h] = "announce"
    BY <1>7, <2>1 DEF OutReply, Matching, HandlersOK, KeysOK, Knows
  <2> QED
    BY <1>7, <2>2 DEF OutReply, HandlersOK, Alive
<1>8. ASSUME UNCHANGED handlerVars
      PROVE  HandlersOK'
  BY <1>8 DEF HandlersOK, Alive
<1> QED
  BY <1>1, <1>2, <1>3, <1>4, <1>5, <1>6, <1>7, <1>8, Effects
     DEF HandlerAnnounce, OutLock, OutGet, LockExpires

LEMMA OutsStep ==
  ASSUME IInv, [Next]_vars
  PROVE  OutsOK'
<1> USE DEF IInv
<1>1. ASSUME NEW o \in Outs, Reset(o)
      PROVE  OutsOK'
  BY <1>1 DEF Reset, OutsOK, InMatch
<1>2. ASSUME NEW o \in Outs, OutLock(o)
      PROVE  OutsOK'
  <2>1. PICK k \in Keys :
          \/ UNCHANGED <<match_pc, matching_key>>
          \/ /\ match_pc' = [match_pc EXCEPT ![o] = "get"]
             /\ matching_key' = [matching_key EXCEPT ![o] = k]
    BY <1>2 DEF OutLock, TypeOK
  <2>2. InMatch(o) /\ UNCHANGED <<out_pc, tunnel_id>>
    BY <1>2 DEF OutLock
  <2> QED
    <3>1. CASE UNCHANGED <<match_pc, matching_key>>
      BY <2>2, <3>1 DEF OutsOK, InMatch
    <3>2. CASE /\ match_pc' = [match_pc EXCEPT ![o] = "get"]
               /\ matching_key' = [matching_key EXCEPT ![o] = k]
      BY <2>2, <3>2 DEF OutsOK, InMatch, TypeOK
    <3> QED
      BY <2>1, <3>1, <3>2
<1>3. ASSUME NEW o \in Outs, OutGet(o),
             UNCHANGED <<out_pc, in_announcement_stream, matching_key, tunnel_id>>
      PROVE  OutsOK'
  BY <1>3 DEF OutGet, NextCall, OutsOK, InMatch, TypeOK
<1>4. ASSUME NEW o \in Outs, OutReply(o)
      PROVE  OutsOK'
  <2>1. PICK t \in Tunnels, k \in Keys, delivered \in BOOLEAN, ok \in BOOLEAN :
          ReplyEffect(o, t, k, delivered, ok)
    BY <1>4, Replies
  <2> QED
    BY <1>1, <2>1 DEF ReplyEffect, OutsOK, InMatch
<1>5. ASSUME OutsStay
      PROVE  OutsOK'
  BY <1>5 DEF OutsOK, InMatch
<1>6. ASSUME UNCHANGED <<out_pc, match_pc, matching_key, tunnel_id>>
      PROVE  OutsOK'
  BY <1>6 DEF OutsOK, InMatch
<1>7. \A h \in Handlers : Reset(match_out[h].id) => match_out[h].id \in Outs
  BY DEF Reset
<1> QED
  BY <1>1, <1>2, <1>3, <1>4, <1>5, <1>6, <1>7, Effects
     DEF HandlerSubscribe, HandlerExists, HandlerSetData, HandlerRemove,
         HandlerAnnounce, HandlerMatched, LockExpires

LEMMA ServedStep ==
  ASSUME IInv, [Next]_vars
  PROVE  ServedOnce'
<1> USE DEF IInv
<1>1. ASSUME NEW i \in Ins, NEW o \in Outs \ active_out_id_set[i], Accepted(i, o)
      PROVE  ServedOnce'
  <2>1. PICK h \in Handlers :
          /\ InOf[h] = i /\ handler_pc[h] = "none"
          /\ handler_pc' = [handler_pc EXCEPT ![h] = "subscribe"]
          /\ handler_out' = [handler_out EXCEPT ![h] = o]
    BY <1>1 DEF Accepted
  <2>2. active_out_id_set' = [active_out_id_set EXCEPT ![i] = @ \cup {o}]
    BY <1>1 DEF Accepted
  <2>3. \A g \in Handlers :
          /\ Alive(g)' <=> Alive(g) \/ g = h
          /\ handler_out'[g] = IF g = h THEN o ELSE handler_out[g]
    BY <2>1 DEF Alive, TypeOK
  <2>4. \A j \in Ins : active_out_id_set'[j] =
          IF j = i THEN active_out_id_set[i] \cup {o} ELSE active_out_id_set[j]
    BY <2>2 DEF TypeOK
  <2>5. ~ Alive(h)
    BY <2>1 DEF Alive
  <2> QED
    BY <2>1, <2>3, <2>4, <2>5 DEF ServedOnce
<1>2. ASSUME NEW h \in Handlers, HandlerRemove(h)
      PROVE  ServedOnce'
  <2>1. \A g \in Handlers :
          /\ Alive(g)' <=> Alive(g) /\ g # h
          /\ handler_out'[g] = IF g = h THEN None ELSE handler_out[g]
    BY <1>2 DEF HandlerRemove, Alive, TypeOK
  <2>2. \A j \in Ins : active_out_id_set'[j] =
          IF j = InOf[h] THEN active_out_id_set[j] \ {handler_out[h]}
          ELSE active_out_id_set[j]
    BY <1>2 DEF HandlerRemove, TypeOK
  <2>3. Alive(h)
    BY <1>2 DEF HandlerRemove, Alive
  <2>4. ASSUME NEW i \in Ins, NEW o \in active_out_id_set'[i]
        PROVE  \E g \in Handlers : InOf[g] = i /\ Alive(g)' /\ handler_out'[g] = o
    <3>0. o \in active_out_id_set[i]
            /\ ~ (i = InOf[h] /\ o = handler_out[h])
      BY <2>2, <2>4
    <3>1. PICK g \in Handlers : InOf[g] = i /\ Alive(g) /\ handler_out[g] = o
      BY <3>0 DEF ServedOnce
    <3>2. g # h
      BY <3>0, <3>1
    <3> QED
      BY <2>1, <3>1, <3>2
  <2>5. ASSUME NEW g \in Handlers, Alive(g)'
        PROVE  handler_out'[g] \in active_out_id_set'[InOf[g]]
    <3>1. InOf[g] \in Ins /\ handler_out'[g] = handler_out[g]
            /\ handler_out[g] \in active_out_id_set[InOf[g]]
      BY <2>1, <2>5 DEF ServedOnce
    <3>2. ~ (InOf[g] = InOf[h] /\ handler_out[g] = handler_out[h])
      BY <2>1, <2>3, <2>5 DEF ServedOnce
    <3> QED
      BY <2>2, <3>1, <3>2
  <2> QED
    BY <2>1, <2>4, <2>5 DEF ServedOnce
<1>3. ASSUME UNCHANGED <<active_out_id_set, handler_out>>,
             \A g \in Handlers : Alive(g)' <=> Alive(g)
      PROVE  ServedOnce'
  BY <1>3 DEF ServedOnce
<1>4. ASSUME NEW h \in Handlers,
             \/ HandlerSubscribe(h) \/ HandlerExists(h) \/ HandlerSetData(h)
             \/ HandlerMatched(h) \/ Loops(h)
      PROVE  /\ UNCHANGED <<active_out_id_set, handler_out>>
             /\ \A g \in Handlers : Alive(g)' <=> Alive(g)
  BY <1>4 DEF HandlerSubscribe, HandlerExists, HandlerSetData, HandlerMatched,
              Alive, TypeOK
<1>5. ASSUME UNCHANGED <<active_out_id_set, handler_out, handler_pc>>
      PROVE  ServedOnce'
  BY <1>3, <1>5 DEF Alive
<1> HIDE DEF Loops
<1> QED
  BY <1>1, <1>2, <1>3, <1>4, <1>5, Effects
     DEF HandlerAnnounce, OutLock, OutGet, OutReply, LockExpires

LEMMA KeysStep ==
  ASSUME IInv, [Next]_vars
  PROVE  KeysOK'
<1> USE DEF IInv
<1>1. ASSUME NEW i \in Ins, NEW o \in Outs, Accepted(i, o), OutsStay
      PROVE  KeysOK'
  BY <1>1 DEF Accepted, KeysOK, Knows, HandlersOK, TypeOK
<1>2. ASSUME NEW h \in Handlers, HandlerSubscribe(h)
      PROVE  KeysOK'
  <2>1. PICK k \in FreshKeys : match_key' = [match_key EXCEPT ![h] = k]
    BY <1>2 DEF HandlerSubscribe
  <2>2. /\ handler_pc[h] = "subscribe"
        /\ handler_pc' = [handler_pc EXCEPT ![h] = "exists"]
        /\ UNCHANGED <<handler_out, in_announcement_stream, matching_key>>
    BY <1>2 DEF HandlerSubscribe
  <2>3. \A o \in Outs : ~ Knows(o, k)
    BY DEF FreshKeys, Knows
  <2> QED
    BY <2>1, <2>2, <2>3 DEF KeysOK, Knows, TypeOK
<1>3. ASSUME NEW h \in Handlers, HandlerExists(h) \/ HandlerSetData(h)
      PROVE  KeysOK'
  BY <1>3 DEF HandlerExists, HandlerSetData, KeysOK, Knows, TypeOK
<1>4. ASSUME NEW h \in Handlers, HandlerRemove(h)
      PROVE  KeysOK'
  BY <1>4 DEF HandlerRemove, KeysOK, Knows, TypeOK
<1>5. ASSUME NEW h \in Handlers, HandlerAnnounce(h)
      PROVE  KeysOK'
  <2>1. handler_pc[h] = "announce"
    BY <1>5 DEF HandlerAnnounce
  <2>2. match_key[h] \in Keys /\ handler_out[h] \in Outs
    BY <2>1, HandlerInMatch
  <2>3. \A o \in Outs, k \in Keys :
          Knows(o, k)' =>
            Knows(o, k) \/ (o = handler_out[h] /\ k = match_key[h])
    <3>1. \A o \in Outs : in_announcement_stream'[o] =
            IF o = handler_out[h] THEN in_announcement_stream[o] \cup {match_key[h]}
            ELSE in_announcement_stream[o]
      BY <1>5, <2>2 DEF HandlerAnnounce, TypeOK
    <3>2. matching_key' = matching_key
      BY <1>5 DEF HandlerAnnounce
    <3> SUFFICES ASSUME NEW o \in Outs, NEW k \in Keys, Knows(o, k)',
                        ~ (o = handler_out[h] /\ k = match_key[h])
                 PROVE  Knows(o, k)
      BY DEF Knows
    <3>3. CASE matching_key'[o] = k
      BY <3>2, <3>3 DEF Knows
    <3>4. CASE k \in in_announcement_stream'[o]
      <4>1. k \in in_announcement_stream[o]
        BY <3>1, <3>4
      <4> QED
        BY <4>1 DEF Knows
    <3> QED
      BY <3>3, <3>4 DEF Knows
  <2>4. UNCHANGED <<handler_pc, handler_out, match_key>>
    BY <1>5 DEF HandlerAnnounce
  <2> QED
    BY <2>1, <2>3, <2>4 DEF KeysOK, HandlersOK, TypeOK
<1>6. ASSUME NEW h \in Handlers, HandlerMatched(h)
      PROVE  KeysOK'
  BY <1>6 DEF HandlerMatched, KeysOK, Knows, TypeOK
<1>7. ASSUME NEW h \in Handlers, Loops(h), OutsStay
      PROVE  KeysOK'
  BY <1>7 DEF KeysOK, Knows, TypeOK
<1>8. ASSUME NEW h \in Handlers, Loops(h), Reset(match_out[h].id)
      PROVE  KeysOK'
  <2>1. \A o \in Outs, k \in Keys : Knows(o, k)' => Knows(o, k)
    BY <1>8 DEF Reset, Knows
  <2>2. /\ handler_out' = handler_out /\ match_key'[h] = None
        /\ \A g \in Handlers \ {h} : /\ match_key'[g] = match_key[g]
                                     /\ handler_pc'[g] = handler_pc[g]
    BY <1>8 DEF TypeOK
  <2>3. \A g \in Handlers : match_key'[g] # None =>
          /\ match_key'[g] = match_key[g] /\ match_key[g] \in Keys
          /\ handler_out'[g] = handler_out[g] /\ handler_pc'[g] = handler_pc[g]
    BY <2>2 DEF TypeOK
  <2>4. \A g \in Handlers, o \in Outs :
          match_key'[g] # None /\ Knows(o, match_key[g])' => Knows(o, match_key[g])
    BY <2>1, <2>3 DEF Knows
  <2> QED
    BY <2>3, <2>4 DEF KeysOK, Knows
<1>9. ASSUME UNCHANGED <<handler_pc, handler_out, match_key>>,
             \A o \in Outs, k \in Keys : Knows(o, k)' => Knows(o, k)
      PROVE  KeysOK'
  BY <1>9 DEF KeysOK, TypeOK
<1>10. ASSUME NEW o \in Outs, InStays, Reset(o)
       PROVE  KeysOK'
  BY <1>9, <1>10 DEF Reset, Knows
<1>11. ASSUME NEW o \in Outs, OutLock(o)
       PROVE  KeysOK'
  <2>1. PICK k \in in_announcement_stream[o] :
          /\ in_announcement_stream' =
               [in_announcement_stream EXCEPT ![o] = @ \ {k}]
          /\ \/ UNCHANGED matching_key
             \/ matching_key' = [matching_key EXCEPT ![o] = k]
    BY <1>11 DEF OutLock
  <2>2. \A p \in Outs, j \in Keys : Knows(p, j)' => Knows(p, j)
    BY <2>1 DEF Knows, TypeOK
  <2> QED
    BY <1>9, <1>11, <2>2 DEF OutLock
<1>12. ASSUME NEW o \in Outs, OutReply(o)
       PROVE  KeysOK'
  <2>1. PICK t \in Tunnels, k \in Keys, delivered \in BOOLEAN, ok \in BOOLEAN :
          ReplyEffect(o, t, k, delivered, ok)
    BY <1>12, Replies
  <2>2. \A p \in Outs, j \in Keys : Knows(p, j)' => Knows(p, j)
    BY <2>1 DEF ReplyEffect, Reset, Knows, Holds
  <2> QED
    BY <1>9, <2>1, <2>2 DEF ReplyEffect
<1>13. ASSUME UNCHANGED <<handler_pc, handler_out, match_key,
                         in_announcement_stream, matching_key>>
       PROVE  KeysOK'
  BY <1>13 DEF KeysOK, Knows
<1> HIDE DEF Loops
<1> QED
  BY <1>1, <1>2, <1>3, <1>4, <1>5, <1>6, <1>7, <1>8, <1>10, <1>11, <1>12,
     <1>13, Effects DEF OutGet, LockExpires

(* The MatchOuts handler h has got and not yet used up. *)
Answers(h) == subscription_stream[h] \cup
                (IF handler_pc[h] = "connect" THEN {match_out[h]} ELSE {})

LEMMA AgreementStep ==
  ASSUME IInv, [Next]_vars
  PROVE  MatchAgreement'
<1> USE DEF IInv
<1>0. \A h \in Handlers : \A m \in Answers(h) :
        m \in MatchOut /\ handler_pc[h] \in {"announce", "connect"}
  BY DEF Answers, HandlersOK, TypeOK
(* What a step must not do to the answers and the listeners. *)
<1>1. ASSUME \A h \in Handlers : \A m \in Answers(h)' :
               /\ m \in Answers(h)
               /\ handler_out'[h] = handler_out[h]
               /\ match_key'[h] = match_key[h],
             \A h \in Handlers :
               /\ match_out'[h] \in Answers(h) \cup {match_out[h], NoMatch}
               /\ subscription_stream'[h] \subseteq subscription_stream[h],
             \A m \in MatchOut : Listening(m)' =>
               Listening(m) /\ matching_key'[m.id] = matching_key[m.id]
      PROVE  MatchAgreement'
  <2> SUFFICES ASSUME NEW h \in Handlers, NEW m \in Answers(h)'
               PROVE  /\ m.id = handler_out'[h]
                      /\ Listening(m)' => matching_key'[m.id] = match_key'[h]
                      /\ \A g \in Handlers \ {h} :
                           /\ m \notin subscription_stream'[g]
                           /\ m # match_out'[g]
    BY DEF MatchAgreement, Answers
  <2>1. m \in Answers(h) /\ m \in MatchOut
    BY <1>0, <1>1
  <2>2. /\ m.id = handler_out[h]
        /\ Listening(m) => matching_key[m.id] = match_key[h]
        /\ \A g \in Handlers \ {h} :
             m \notin subscription_stream[g] /\ m # match_out[g]
    BY <2>1 DEF MatchAgreement, Answers
  <2>3. m # NoMatch
    BY <2>1 DEF MatchOut, NoMatch
  <2>4. \A g \in Handlers \ {h} : m \notin Answers(g)
    BY <2>2 DEF Answers
  <2> QED
    BY <1>1, <2>1, <2>2, <2>3, <2>4
<1>2. ASSUME OutsStay
      PROVE  \A m \in MatchOut : Listening(m)' =>
               Listening(m) /\ matching_key'[m.id] = matching_key[m.id]
  BY <1>2 DEF Listening
<1>3. ASSUME NEW o \in Outs, Reset(o)
      PROVE  \A m \in MatchOut : Listening(m)' =>
               Listening(m) /\ matching_key'[m.id] = matching_key[m.id]
  BY <1>3 DEF Reset, Listening, MatchOut
<1>4. ASSUME NEW i \in Ins, NEW o \in Outs, Accepted(i, o), OutsStay
      PROVE  MatchAgreement'
  <2>1. PICK h \in Handlers :
          /\ handler_pc[h] = "none"
          /\ handler_pc' = [handler_pc EXCEPT ![h] = "subscribe"]
          /\ handler_out' = [handler_out EXCEPT ![h] = o]
          /\ UNCHANGED <<match_key, subscription_stream, match_out>>
    BY <1>4 DEF Accepted
  <2>2. \A g \in Handlers : \A m \in Answers(g)' : m \in Answers(g) /\ g # h
    BY <1>0, <2>1 DEF Answers, HandlersOK, TypeOK
  <2> QED
    BY <1>1, <1>2, <1>4, <2>1, <2>2 DEF TypeOK
<1>5. ASSUME NEW h \in Handlers,
             \/ HandlerSubscribe(h) \/ HandlerExists(h) \/ HandlerSetData(h)
             \/ HandlerRemove(h)
      PROVE  MatchAgreement'
  <2>1. /\ handler_pc[h] \notin {"announce", "connect"}
        /\ handler_pc'[h] # "connect"
        /\ \A g \in Handlers \ {h} : /\ handler_pc'[g] = handler_pc[g]
                                     /\ handler_out'[g] = handler_out[g]
                                     /\ match_key'[g] = match_key[g]
        /\ \A g \in Handlers : subscription_stream'[g] \subseteq subscription_stream[g]
        /\ UNCHANGED match_out /\ OutsStay
    BY <1>5 DEF HandlerSubscribe, HandlerExists, HandlerSetData, HandlerRemove,
                TypeOK
  <2>2. \A g \in Handlers : \A m \in Answers(g)' : m \in Answers(g) /\ g # h
    BY <1>0, <2>1 DEF Answers, HandlersOK, TypeOK
  <2> QED
    BY <1>1, <1>2, <2>1, <2>2
<1>6. ASSUME NEW h \in Handlers, HandlerMatched(h)
      PROVE  MatchAgreement'
  <2>1. PICK m \in subscription_stream[h] :
          match_out' = [match_out EXCEPT ![h] = m]
    BY <1>6 DEF HandlerMatched
  <2>2. /\ handler_pc' = [handler_pc EXCEPT ![h] = "connect"]
        /\ subscription_stream' = [subscription_stream EXCEPT ![h] = {}]
        /\ UNCHANGED <<handler_out, match_key>> /\ OutsStay
    BY <1>6 DEF HandlerMatched
  <2>3. \A g \in Handlers : /\ \A n \in Answers(g)' : n \in Answers(g)
                           /\ match_out'[g] \in Answers(g) \cup {match_out[g]}
    BY <2>1, <2>2 DEF Answers, TypeOK
  <2>4. \A g \in Handlers : subscription_stream'[g] \subseteq subscription_stream[g]
    BY <2>2 DEF TypeOK
  <2> QED
    BY <1>1, <1>2, <2>2, <2>3, <2>4
<1>7. ASSUME NEW h \in Handlers, Loops(h),
             OutsStay \/ \E o \in Outs : Reset(o)
      PROVE  MatchAgreement'
  <2>1. /\ handler_pc'[h] = "subscribe"
        /\ \A g \in Handlers \ {h} : /\ handler_pc'[g] = handler_pc[g]
                                     /\ match_key'[g] = match_key[g]
                                     /\ match_out'[g] = match_out[g]
                                     /\ subscription_stream'[g] = subscription_stream[g]
        /\ handler_out' = handler_out
        /\ subscription_stream'[h] = {} /\ match_out'[h] = NoMatch
    BY <1>7 DEF TypeOK
  <2>2. \A g \in Handlers : \A m \in Answers(g)' : m \in Answers(g) /\ g # h
    BY <2>1 DEF Answers
  <2>3. \A m \in MatchOut : Listening(m)' =>
          Listening(m) /\ matching_key'[m.id] = matching_key[m.id]
    BY <1>2, <1>3, <1>7
  <2> HIDE DEF Loops
  <2> QED
    BY <1>1, <2>1, <2>2, <2>3
<1>8. ASSUME InStays,
             \A m \in MatchOut : Listening(m)' =>
               Listening(m) /\ matching_key'[m.id] = matching_key[m.id]
      PROVE  MatchAgreement'
  BY <1>1, <1>8 DEF Answers
<1>9. ASSUME NEW o \in Outs, OutLock(o)
      PROVE  MatchAgreement'
  <2>1. \A m \in MatchOut : Listening(m)' =>
          Listening(m) /\ matching_key'[m.id] = matching_key[m.id]
    BY <1>9 DEF OutLock, InMatch, Listening, TypeOK, MatchOut
  <2> QED
    BY <1>8, <1>9, <2>1 DEF OutLock
<1>10. ASSUME NEW h \in Handlers, HandlerAnnounce(h)
       PROVE  MatchAgreement'
  BY <1>8, <1>10 DEF HandlerAnnounce, Listening
<1>11. ASSUME NEW o \in Outs, OutGet(o),
              UNCHANGED <<out_pc, in_announcement_stream, matching_key, tunnel_id>>
       PROVE  MatchAgreement'
  BY <1>8, <1>11 DEF OutGet, Listening
<1>12. ASSUME NEW k \in Keys, LockExpires(k)
       PROVE  MatchAgreement'
  BY <1>8, <1>12 DEF LockExpires, Listening
<1>13. ASSUME NEW o \in Outs, OutReply(o)
       PROVE  MatchAgreement'
  <2>1. PICK t \in Tunnels, k \in Keys, delivered \in BOOLEAN, ok \in BOOLEAN :
          ReplyEffect(o, t, k, delivered, ok)
    BY <1>13, Replies
  <2> DEFINE new == [id |-> o, tunnel_id |-> t]
  <2>2. /\ UNCHANGED <<handler_pc, handler_out, match_key, match_out>>
        /\ \A h \in Handlers : subscription_stream'[h] =
             IF delivered /\ h \in Subscribers(k)
             THEN subscription_stream[h] \cup {new} ELSE subscription_stream[h]
    BY <2>1 DEF ReplyEffect
  <2>3. /\ \A h \in Handlers, m \in MatchOut :
             m \in subscription_stream[h] \/ m = match_out[h] =>
               m # new /\ m.tunnel_id # t
        /\ new \in MatchOut
    BY <2>1 DEF ReplyEffect, FreshTunnels, MatchOut
  <2>4. \A m \in MatchOut : Listening(m)' =>
          IF m.id = o THEN m.tunnel_id = t /\ matching_key'[o] = k
          ELSE Listening(m) /\ matching_key'[m.id] = matching_key[m.id]
    BY <2>1 DEF ReplyEffect, Reset, Listening, MatchOut
  <2>5. \A g, h \in Subscribers(k) : g = h /\ handler_out[h] = o
    <3>1. Knows(o, k)
      BY <2>1 DEF ReplyEffect, Holds, Knows
    <3> QED
      BY <2>1, <3>1 DEF Subscribers, HandlersOK, KeysOK
  <2> SUFFICES ASSUME NEW h \in Handlers, NEW m \in Answers(h)'
               PROVE  /\ m.id = handler_out[h]
                      /\ Listening(m)' => matching_key'[m.id] = match_key[h]
                      /\ \A g \in Handlers \ {h} :
                           m \notin subscription_stream'[g] /\ m # match_out[g]
    BY <2>2 DEF MatchAgreement, Answers
  <2>6. CASE m \in Answers(h)
    <3>1. m \in MatchOut /\ m # new /\ m.tunnel_id # t
      BY <1>0, <2>3, <2>6 DEF Answers
    <3>2. /\ m.id = handler_out[h]
          /\ Listening(m) => matching_key[m.id] = match_key[h]
          /\ \A g \in Handlers \ {h} :
               m \notin subscription_stream[g] /\ m # match_out[g]
      BY <2>6 DEF MatchAgreement, Answers
    <3> HIDE DEF new
    <3>3. \A g \in Handlers \ {h} : m \notin subscription_stream'[g]
      BY <2>2, <3>1, <3>2
    <3> QED
      BY <2>4, <3>1, <3>2, <3>3
  <2>7. CASE m = new /\ delivered /\ h \in Subscribers(k)
    <3>1. match_key[h] = k /\ handler_out[h] = o
      BY <2>5, <2>7 DEF Subscribers
    <3>2. \A g \in Handlers \ {h} :
            m \notin subscription_stream'[g] /\ m # match_out[g]
      BY <2>2, <2>3, <2>5, <2>7
    <3> QED
      BY <2>3, <2>4, <2>7, <3>1, <3>2
  <2> HIDE DEF new
  <2> QED
    BY <2>2, <2>6, <2>7 DEF Answers
<1> HIDE DEF Loops
<1> QED
  BY <1>2, <1>3, <1>4, <1>5, <1>6, <1>7, <1>8, <1>9, <1>10, <1>11, <1>12,
     <1>13, Effects DEF Reset

LEMMA LocksStep ==
  ASSUME IInv, [Next]_vars
  PROVE  LocksOK'
<1> USE DEF IInv
<1>1. ASSUME UNCHANGED <<match_locks, historyVars>>,
             \A o \in Outs, k \in Keys : Holds(o, k)' => Holds(o, k)
      PROVE  LocksOK'
  BY <1>1 DEF LocksOK
<1>2. ASSUME UNCHANGED <<match_locks, historyVars>>, OutsStay
      PROVE  LocksOK'
  BY <1>1, <1>2 DEF Holds
<1>3. ASSUME UNCHANGED <<match_locks, historyVars>>, NEW o \in Outs, Reset(o)
      PROVE  LocksOK'
  BY <1>1, <1>3 DEF Holds, Reset
<1>4. ASSUME NEW h \in Handlers, HandlerSubscribe(h)
      PROVE  LocksOK'
  <2>1. PICK k \in FreshKeys : /\ match_count' = [match_count EXCEPT ![k] = 0]
                               /\ relocked' = relocked \ {k}
    BY <1>4 DEF HandlerSubscribe
  <2>2. UNCHANGED <<match_locks, match_pc, matching_key>>
    BY <1>4 DEF HandlerSubscribe
  <2>3. k \in Keys /\ \A o \in Outs : ~ Holds(o, k)
    BY DEF FreshKeys, Holds
  <2>4. /\ \A o \in Outs, j \in Keys : Holds(o, j)' <=> Holds(o, j)
        /\ match_count'[k] = 0
        /\ \A j \in Keys \ {k} : match_count'[j] = match_count[j]
    BY <2>1, <2>2, <2>3 DEF Holds, TypeOK
  <2> QED
    BY <2>1, <2>2, <2>3, <2>4 DEF LocksOK
<1>5. ASSUME NEW o \in Outs, OutLock(o)
      PROVE  LocksOK'
  <2>1. CASE UNCHANGED <<match_locks, match_pc, matching_key>>
    BY <1>1, <1>5, <2>1 DEF OutLock, Holds
  <2>2. CASE \E k \in in_announcement_stream[o] :
               /\ k \notin match_locks /\ match_locks' = match_locks \cup {k}
               /\ match_pc' = [match_pc EXCEPT ![o] = "get"]
               /\ matching_key' = [matching_key EXCEPT ![o] = k]
    <3>1. PICK k \in in_announcement_stream[o] :
               /\ k \notin match_locks /\ match_locks' = match_locks \cup {k}
               /\ match_pc' = [match_pc EXCEPT ![o] = "get"]
               /\ matching_key' = [matching_key EXCEPT ![o] = k]
      BY <2>2
    <3>2. UNCHANGED historyVars
      BY <1>5 DEF OutLock
    <3>3. \A p \in Outs, j \in Keys :
            Holds(p, j)' <=> (IF p = o THEN j = k ELSE Holds(p, j))
      BY <3>1 DEF Holds, TypeOK
    <3>4. k \in Keys \ relocked =>
            match_count[k] = 0 /\ \A p \in Outs : ~ Holds(p, k)
      <4>1. k \in Keys => match_count[k] \in 0 .. 2
        BY DEF TypeOK
      <4> QED
        BY <3>1, <4>1 DEF LocksOK
    <3> QED
      BY <3>1, <3>2, <3>3, <3>4 DEF LocksOK
  <2> QED
    BY <1>5, <2>1, <2>2 DEF OutLock
<1>6. ASSUME NEW o \in Outs, OutGet(o),
             UNCHANGED <<out_pc, in_announcement_stream, matching_key, tunnel_id>>
      PROVE  LocksOK'
  <2>1. \A p \in Outs, k \in Keys : Holds(p, k)' => Holds(p, k)
    BY <1>6 DEF OutGet, NextCall, Holds, TypeOK
  <2> QED
    BY <1>1, <1>6, <2>1 DEF OutGet
<1>7. ASSUME NEW o \in Outs, OutReply(o)
      PROVE  LocksOK'
  <2>1. PICK t \in Tunnels, k \in Keys, delivered \in BOOLEAN, ok \in BOOLEAN :
          ReplyEffect(o, t, k, delivered, ok)
    BY <1>7, Replies
  <2>2. /\ \A p \in Outs, j \in Keys : Holds(p, j)' => Holds(p, j) /\ p # o
        /\ Holds(o, k) /\ UNCHANGED <<match_locks, relocked>>
        /\ \A j \in Keys \ {k} : match_count'[j] = match_count[j]
        /\ match_count[k] = 0 => match_count'[k] \in {0, 1}
    BY <2>1 DEF ReplyEffect, Reset, Holds
  <2> QED
    BY <2>2 DEF LocksOK
<1>8. ASSUME NEW k \in Keys, LockExpires(k)
      PROVE  LocksOK'
  BY <1>8 DEF LockExpires, LocksOK, Holds
<1>9. ASSUME NEW h \in Handlers,
             \/ HandlerExists(h) \/ HandlerSetData(h) \/ HandlerRemove(h)
             \/ HandlerAnnounce(h) \/ HandlerMatched(h)
      PROVE  LocksOK'
  BY <1>1, <1>9 DEF HandlerExists, HandlerSetData, HandlerRemove,
     HandlerAnnounce, HandlerMatched, Holds
<1> HIDE DEF Loops
<1> QED
  BY <1>2, <1>3, <1>4, <1>5, <1>6, <1>7, <1>8, <1>9, Effects DEF Reset

LEMMA AnswersStep ==
  ASSUME IInv, [Next]_vars
  PROVE  AnswersOK'
<1> USE DEF IInv
(* A handler whose answers stay as they are, or go. *)
<1>1. ASSUME UNCHANGED match_count, relocked \subseteq relocked',
             \A h \in Handlers :
               \/ subscription_stream'[h] = {}
               \/ /\ subscription_stream'[h] = subscription_stream[h]
                  /\ match_key'[h] = match_key[h]
      PROVE  AnswersOK'
  BY <1>1 DEF AnswersOK
<1>2. ASSUME UNCHANGED <<historyVars, match_key, subscription_stream>>
      PROVE  AnswersOK'
  BY <1>2 DEF AnswersOK
<1>3. ASSUME NEW h \in Handlers, HandlerSubscribe(h)
      PROVE  AnswersOK'
  <2>1. PICK k \in Keys :
          /\ \A g \in Handlers : match_key[g] # k
          /\ match_key' = [match_key EXCEPT ![h] = k]
          /\ match_count' = [match_count EXCEPT ![k] = 0]
          /\ relocked' = relocked \ {k}
    BY <1>3 DEF HandlerSubscribe, FreshKeys
  <2>2. UNCHANGED subscription_stream /\ subscription_stream[h] = {}
    BY <1>3 DEF HandlerSubscribe, HandlersOK
  <2>3. \A g \in Handlers : subscription_stream[g] # {} =>
          /\ g # h /\ match_key'[g] = match_key[g]
          /\ match_key[g] \in Keys \ {k}
          /\ match_count'[match_key[g]] = match_count[match_key[g]]
    <3> SUFFICES ASSUME NEW g \in Handlers, subscription_stream[g] # {}
                 PROVE  /\ g # h /\ match_key'[g] = match_key[g]
                        /\ match_key[g] \in Keys \ {k}
                        /\ match_count'[match_key[g]] = match_count[match_key[g]]
      OBVIOUS
    <3>1. g # h /\ match_key[g] \in Keys \ {k}
      BY <2>1, <2>2, HandlerInMatch DEF HandlersOK
    <3> QED
      BY <2>1, <3>1 DEF TypeOK
  <2>4. \A g \in Handlers : subscription_stream[g] # {} =>
          (match_key[g] \notin relocked' => match_key[g] \notin relocked)
    BY <2>1, <2>3
  <2> QED
    BY <2>2, <2>3, <2>4 DEF AnswersOK
<1>4. ASSUME NEW h \in Handlers,
             \/ HandlerRemove(h) \/ HandlerMatched(h)
             \/ Loops(h) /\ UNCHANGED <<match_locks, historyVars>>
      PROVE  AnswersOK'
  <2>1. /\ subscription_stream'[h] = {} /\ UNCHANGED historyVars
        /\ \A g \in Handlers \ {h} :
             /\ subscription_stream'[g] = subscription_stream[g]
             /\ match_key'[g] = match_key[g]
    BY <1>4 DEF HandlerRemove, HandlerMatched, TypeOK
  <2> QED
    BY <1>1, <2>1
<1>5. ASSUME NEW o \in Outs, OutReply(o)
      PROVE  AnswersOK'
  <2>1. PICK t \in Tunnels, k \in Keys, delivered \in BOOLEAN, ok \in BOOLEAN :
          ReplyEffect(o, t, k, delivered, ok)
    BY <1>5, Replies
  <2> DEFINE new == [id |-> o, tunnel_id |-> t]
  <2>2. /\ UNCHANGED <<match_key, relocked>> /\ Holds(o, k)
        /\ \A h \in Handlers : subscription_stream'[h] =
             IF delivered /\ h \in Subscribers(k)
             THEN subscription_stream[h] \cup {new} ELSE subscription_stream[h]
        /\ \A j \in Keys : match_count[j] > 0 => match_count'[j] > 0
        /\ delivered => match_count'[k] > 0
    <3>1. match_count \in [Keys -> 0 .. 2]
      BY DEF TypeOK
    <3> QED
      BY <2>1, <3>1 DEF ReplyEffect
  <2>3. k \notin relocked => match_count[k] = 0
    BY <2>2 DEF LocksOK
  <2>4. \A h \in Subscribers(k) : match_key[h] = k
    BY DEF Subscribers
  <2> HIDE DEF new
  <2>5. \A h \in Handlers : subscription_stream'[h] # {} =>
          match_count'[match_key[h]] > 0
    <3> SUFFICES ASSUME NEW h \in Handlers, subscription_stream'[h] # {}
                 PROVE  match_count'[match_key[h]] > 0
      OBVIOUS
    <3>1. CASE delivered /\ h \in Subscribers(k)
      BY <2>2, <2>4, <3>1
    <3>2. CASE subscription_stream'[h] = subscription_stream[h]
      <4>1. match_key[h] \in Keys /\ match_count[match_key[h]] > 0
        BY <3>2, HandlerInMatch DEF HandlersOK, AnswersOK
      <4> QED
        BY <2>2, <4>1
    <3> QED
      BY <2>2, <3>1, <3>2
  <2>6. \A h \in Handlers : match_key[h] \notin relocked =>
          \A m, n \in subscription_stream'[h] : m = n
    <3> SUFFICES ASSUME NEW h \in Handlers, match_key[h] \notin relocked
                 PROVE  \A m, n \in subscription_stream'[h] : m = n
      OBVIOUS
    <3>1. CASE delivered /\ h \in Subscribers(k)
      <4>1. match_count[k] = 0
        BY <2>3, <2>4, <3>1
      <4>2. subscription_stream[h] = {}
        BY <2>4, <3>1, <4>1 DEF AnswersOK
      <4> QED
        BY <2>2, <3>1, <4>2
    <3>2. CASE subscription_stream'[h] = subscription_stream[h]
      BY <3>2 DEF AnswersOK
    <3> QED
      BY <2>2, <3>1, <3>2
  <2> QED
    BY <2>2, <2>5, <2>6 DEF AnswersOK
<1>6. ASSUME NEW k \in Keys, LockExpires(k)
      PROVE  AnswersOK'
  BY <1>1, <1>6 DEF LockExpires
<1>7. ASSUME NEW i \in Ins, NEW o \in Outs, Accepted(i, o), UNCHANGED historyVars
      PROVE  AnswersOK'
  BY <1>2, <1>7 DEF Accepted
<1>8. ASSUME NEW h \in Handlers,
             \/ HandlerExists(h) \/ HandlerSetData(h) \/ HandlerAnnounce(h)
      PROVE  AnswersOK'
  BY <1>2, <1>8 DEF HandlerExists, HandlerSetData, HandlerAnnounce
<1>9. ASSUME NEW o \in Outs, OutLock(o) \/ OutGet(o)
      PROVE  AnswersOK'
  BY <1>2, <1>9 DEF OutLock, OutGet
<1> HIDE DEF Loops
<1> QED
  BY <1>2, <1>3, <1>4, <1>5, <1>6, <1>7,
     <1>8, <1>9, Effects

(* While nothing has failed, a key an OUT may answer has a handler waiting *)
(* for the answer.                                                         *)
Pending(o, k) == k \in in_announcement_stream[o] \/ Holds(o, k)
Waits(h, k) == match_key[h] = k /\ handler_pc[h] = "announce"
Awaited ==
  faults = 0 =>
    \A o \in Outs, k \in Keys \ relocked :
      Pending(o, k) /\ match_count[k] = 0 => \E h \in Handlers : Waits(h, k)

(* The MatchOut that OUT o listens for. *)
Awaits(o) == [id |-> o, tunnel_id |-> tunnel_id[o]]
Told(o, h) == Awaits(o) \in subscription_stream[h] \/ Awaits(o) = match_out[h]
ListenersTold ==
  faults = 0 =>
    \A o \in Outs :
      out_pc[o] = "listening" /\ matching_key[o] \notin relocked =>
        \E h \in Handlers : Told(o, h)

LEMMA Expected == ExpectedOK <=> Awaited /\ ListenersTold
BY DEF ExpectedOK, Awaited, ListenersTold, Pending, Waits, Awaits, Told

(* Faults are counted and never forgotten. *)
LEMMA FaultsGrow ==
  ASSUME TypeOK, [Next]_vars
  PROVE  faults' = 0 => faults = 0
BY Steps, Unchanged, Accepts
   DEF Fault, NoFault, AcceptSubscribe, AcceptError, HandlerSubscribe,
       HandlerExists, HandlerSetData, HandlerRemove, HandlerAnnounce,
       HandlerMatched, HandlerConnected, HandlerRefused, HandlerError,
       OutSetKey, OutPublishKey, OutStart, OutExpired, OutError, OutTimeout,
       OutCrash, OutLock, OutGet, OutReply, OutKeyExpires, MatchKeyExpires,
       LockExpires, TypeOK

LEMMA AwaitedStep ==
  ASSUME IInv, [Next]_vars
  PROVE  Awaited'
<1> USE DEF IInv
<1> SUFFICES ASSUME faults' = 0
             PROVE  \A o \in Outs, k \in Keys \ relocked' :
                      Pending(o, k)' /\ match_count'[k] = 0 =>
                        \E h \in Handlers : Waits(h, k)'
  BY DEF Awaited
<1>0. \A o \in Outs, k \in Keys \ relocked :
        Pending(o, k) /\ match_count[k] = 0 => \E h \in Handlers : Waits(h, k)
  BY FaultsGrow, Expected DEF Awaited
<1> DEFINE Goal == \A o \in Outs, k \in Keys \ relocked' :
                     Pending(o, k)' /\ match_count'[k] = 0 =>
                       \E h \in Handlers : Waits(h, k)'
           Keeps(k) == \A h \in Handlers : Waits(h, k) => Waits(h, k)'
(* Keys that nobody has got since, and that still have their handler. *)
<1>1. ASSUME \A o \in Outs, k \in Keys \ relocked' :
               Pending(o, k)' /\ match_count'[k] = 0 =>
                 /\ k \notin relocked /\ match_count[k] = 0
                 /\ Pending(o, k) /\ Keeps(k)
      PROVE  Goal
  BY <1>0, <1>1
<1> HIDE DEF Goal
<1>2. ASSUME UNCHANGED historyVars, \A k \in Keys : Keeps(k), OutsStay
      PROVE  Goal
  BY <1>1, <1>2 DEF Pending, Holds
<1>3. ASSUME UNCHANGED historyVars, \A k \in Keys : Keeps(k),
             NEW o \in Outs, Reset(o)
      PROVE  Goal
  BY <1>1, <1>3 DEF Pending, Holds, Reset
<1>4. ASSUME UNCHANGED <<handler_pc, match_key>>
      PROVE  \A k \in Keys : Keeps(k)
  BY <1>4 DEF Waits
<1>5. ASSUME NEW i \in Ins, NEW o \in Outs, Accepted(i, o)
      PROVE  \A k \in Keys : Keeps(k)
  BY <1>5 DEF Accepted, Waits, TypeOK
<1>6. ASSUME NEW h \in Handlers, HandlerSubscribe(h)
      PROVE  Goal
  <2>1. PICK k \in FreshKeys :
          /\ match_key' = [match_key EXCEPT ![h] = k]
          /\ match_count' = [match_count EXCEPT ![k] = 0]
          /\ relocked' = relocked \ {k}
    BY <1>6 DEF HandlerSubscribe
  <2>2. /\ handler_pc[h] = "subscribe"
        /\ handler_pc' = [handler_pc EXCEPT ![h] = "exists"]
        /\ OutsStay
    BY <1>6 DEF HandlerSubscribe
  <2>3. \A o \in Outs : ~ Pending(o, k)
    BY DEF FreshKeys, Pending, Holds
  <2>4. \A j \in Keys : Keeps(j)
    BY <2>1, <2>2 DEF Waits, TypeOK
  <2>5. \A o \in Outs, j \in Keys : Pending(o, j)' <=> Pending(o, j)
    BY <2>2 DEF Pending, Holds
  <2> HIDE DEF Keeps
  <2> QED
    BY <1>1, <2>1, <2>3, <2>4, <2>5 DEF TypeOK
<1>7. ASSUME NEW h \in Handlers,
             \/ HandlerExists(h) \/ HandlerSetData(h) \/ HandlerRemove(h)
      PROVE  Goal
  <2>1. UNCHANGED historyVars /\ OutsStay
    BY <1>7 DEF HandlerExists, HandlerSetData, HandlerRemove
  <2>2. /\ handler_pc[h] # "announce"
        /\ \A g \in Handlers \ {h} : /\ handler_pc'[g] = handler_pc[g]
                                     /\ match_key'[g] = match_key[g]
    BY <1>7 DEF HandlerExists, HandlerSetData, HandlerRemove, TypeOK
  <2> QED
    BY <1>2, <2>1, <2>2 DEF Waits
<1>8. ASSUME NEW h \in Handlers, HandlerAnnounce(h)
      PROVE  Goal
  <2>1. /\ UNCHANGED <<historyVars, match_pc, matching_key, handler_pc, match_key>>
        /\ handler_pc[h] = "announce"
    BY <1>8 DEF HandlerAnnounce
  <2>2. match_key[h] \in Keys /\ handler_out[h] \in Outs
    BY <2>1, HandlerInMatch
  <2>3. \A o \in Outs, k \in Keys :
          k \in in_announcement_stream'[o] =>
            k \in in_announcement_stream[o] \/ k = match_key[h]
    BY <1>8, <2>2 DEF HandlerAnnounce, TypeOK
  <2>4. \A o \in Outs, k \in Keys :
          Pending(o, k)' => Pending(o, k) \/ k = match_key[h]
    BY <2>1, <2>3 DEF Pending, Holds
  <2>5. \A g \in Handlers, k \in Keys : Waits(g, k)' <=> Waits(g, k)
    BY <2>1 DEF Waits
  <2>6. Waits(h, match_key[h])
    BY <2>1 DEF Waits
  <2> QED
    BY <1>0, <2>1, <2>2, <2>4, <2>5, <2>6 DEF Goal
<1>9. ASSUME NEW h \in Handlers, HandlerMatched(h)
      PROVE  Goal
  <2>1. /\ UNCHANGED historyVars /\ OutsStay
        /\ UNCHANGED match_key /\ subscription_stream[h] # {}
        /\ \A g \in Handlers \ {h} : handler_pc'[g] = handler_pc[g]
    BY <1>9 DEF HandlerMatched, TypeOK
  <2>2. match_count[match_key[h]] > 0
    BY <2>1 DEF AnswersOK
  <2>3. \A k \in Keys : match_count[k] = 0 => Keeps(k)
    BY <2>1, <2>2 DEF Waits
  <2>4. \A o \in Outs, k \in Keys : Pending(o, k)' <=> Pending(o, k)
    BY <2>1 DEF Pending, Holds
  <2> HIDE DEF Keeps
  <2> QED
    BY <1>1, <2>1, <2>3, <2>4
<1>10. ASSUME NEW h \in Handlers, Loops(h),
              handler_pc[h] = "connect" \/ faults' > 0
       PROVE  \A k \in Keys : Keeps(k)
  <2>1. /\ handler_pc[h] = "connect"
        /\ \A g \in Handlers \ {h} : /\ handler_pc'[g] = handler_pc[g]
                                     /\ match_key'[g] = match_key[g]
    BY <1>10 DEF TypeOK
  <2> QED
    BY <2>1 DEF Waits
<1>11. ASSUME NEW o \in Outs, OutLock(o)
       PROVE  Goal
  <2>1. UNCHANGED <<handler_pc, match_key, match_count, relocked>>
    BY <1>11 DEF OutLock
  <2>2. \A p \in Outs, k \in Keys : Pending(p, k)' => Pending(p, k)
    <3>1. PICK k \in in_announcement_stream[o] :
            /\ in_announcement_stream' =
                 [in_announcement_stream EXCEPT ![o] = @ \ {k}]
            /\ \/ UNCHANGED <<match_pc, matching_key>>
               \/ /\ match_pc' = [match_pc EXCEPT ![o] = "get"]
                  /\ matching_key' = [matching_key EXCEPT ![o] = k]
      BY <1>11 DEF OutLock
    <3>2. \A p \in Outs, j \in Keys :
            /\ j \in in_announcement_stream'[p] => j \in in_announcement_stream[p]
            /\ Holds(p, j)' => Holds(p, j) \/ (p = o /\ j = k)
      <4>1. \A p \in Outs, j \in Keys :
              j \in in_announcement_stream'[p] => j \in in_announcement_stream[p]
        BY <3>1 DEF TypeOK
      <4>2. \A p \in Outs, j \in Keys :
              Holds(p, j)' => Holds(p, j) \/ (p = o /\ j = k)
        <5>1. CASE UNCHANGED <<match_pc, matching_key>>
          BY <5>1 DEF Holds
        <5>2. CASE /\ match_pc' = [match_pc EXCEPT ![o] = "get"]
                   /\ matching_key' = [matching_key EXCEPT ![o] = k]
          BY <5>2 DEF Holds, TypeOK
        <5> QED
          BY <3>1, <5>1, <5>2
      <4> QED
        BY <4>1, <4>2
    <3> QED
      BY <3>1, <3>2 DEF Pending
  <2> QED
    BY <1>1, <1>4, <2>1, <2>2
<1>12. ASSUME NEW o \in Outs, OutGet(o),
              UNCHANGED <<out_pc, in_announcement_stream, matching_key, tunnel_id>>
       PROVE  Goal
  <2>1. UNCHANGED <<handler_pc, match_key, match_count, relocked>>
    BY <1>12 DEF OutGet
  <2>2. \A p \in Outs, k \in Keys : Pending(p, k)' => Pending(p, k)
    BY <1>12 DEF OutGet, NextCall, Holds, Pending, TypeOK
  <2> QED
    BY <1>1, <1>4, <2>1, <2>2
<1>13. ASSUME NEW o \in Outs, OutReply(o)
       PROVE  Goal
  <2>1. PICK t \in Tunnels, k \in Keys, delivered \in BOOLEAN, ok \in BOOLEAN :
          ReplyEffect(o, t, k, delivered, ok)
    BY <1>13, Replies
  <2>2. /\ UNCHANGED <<handler_pc, match_key, relocked>> /\ delivered
        /\ match_count'[k] > 0
        /\ \A j \in Keys \ {k} : match_count'[j] = match_count[j]
        /\ \A p \in Outs, j \in Keys : Pending(p, j)' => Pending(p, j)
    BY <2>1 DEF ReplyEffect, Reset, Pending, Holds
  <2> QED
    BY <1>1, <1>4, <2>2
<1>14. ASSUME NEW k \in Keys, LockExpires(k)
       PROVE  Goal
  <2>1. /\ UNCHANGED <<handler_pc, match_key, match_count>>
        /\ relocked \subseteq relocked' /\ OutsStay
    BY <1>14 DEF LockExpires
  <2>2. \A p \in Outs, j \in Keys : Pending(p, j)' => Pending(p, j)
    BY <2>1 DEF Pending, Holds
  <2> QED
    BY <1>1, <1>4, <2>1, <2>2
<1> HIDE DEF Loops, Keeps, historyVars, handlerVars
<1>15. UNCHANGED <<match_locks, historyVars>> => UNCHANGED historyVars
  OBVIOUS
<1>16. InStays => UNCHANGED <<handler_pc, match_key>>
  BY DEF handlerVars
<1>17. Goal
  BY <1>2, <1>3, <1>4, <1>5, <1>6, <1>7, <1>8, <1>9, <1>10, <1>11, <1>12,
     <1>13, <1>14, <1>15, <1>16, Effects DEF Reset
<1> QED
  BY <1>17 DEF Goal

LEMMA ToldStep ==
  ASSUME IInv, [Next]_vars
  PROVE  ListenersTold'
<1> USE DEF IInv
<1> DEFINE Waiting(o) == out_pc[o] = "listening" /\ matching_key[o] \notin relocked
<1> SUFFICES ASSUME faults' = 0
             PROVE  \A o \in Outs : Waiting(o)' => \E h \in Handlers : Told(o, h)'
  BY DEF ListenersTold
<1>0. \A o \in Outs : Waiting(o) => \E h \in Handlers : Told(o, h)
  BY FaultsGrow, Expected DEF ListenersTold
<1> DEFINE Goal == \A o \in Outs : Waiting(o)' => \E h \in Handlers : Told(o, h)'
(* OUTs that listened before, and whose handlers know what they knew. *)
<1>1. ASSUME \A o \in Outs : Waiting(o)' =>
               Waiting(o) /\ \A h \in Handlers : Told(o, h) => Told(o, h)'
      PROVE  Goal
  BY <1>0, <1>1
<1> HIDE DEF Goal
<1>2. ASSUME NEW o \in Outs, Reset(o), relocked \subseteq relocked'
      PROVE  \A p \in Outs : Waiting(p)' =>
               Waiting(p) /\ p # o /\ tunnel_id'[p] = tunnel_id[p]
  BY <1>2 DEF Reset
<1>3. ASSUME UNCHANGED <<match_out, subscription_stream>>,
             UNCHANGED <<out_pc, matching_key, tunnel_id>>,
             relocked \subseteq relocked'
      PROVE  Goal
  BY <1>1, <1>3 DEF Told, Awaits
<1>4. ASSUME NEW o \in Outs, Reset(o), InStays, UNCHANGED historyVars
      PROVE  Goal
  <2>1. \A p \in Outs : Waiting(p)' =>
          Waiting(p) /\ \A h \in Handlers : Told(p, h) => Told(p, h)'
    BY <1>2, <1>4 DEF Told, Awaits
  <2> QED
    BY <1>1, <2>1
<1>5. ASSUME NEW h \in Handlers, HandlerSubscribe(h)
      PROVE  Goal
  <2>1. PICK k \in FreshKeys : relocked' = relocked \ {k}
    BY <1>5 DEF HandlerSubscribe
  <2>2. OutsStay /\ UNCHANGED <<match_out, subscription_stream>>
    BY <1>5 DEF HandlerSubscribe
  <2>3. \A o \in Outs : matching_key[o] # k
    BY DEF FreshKeys
  <2> QED
    BY <1>1, <2>1, <2>2, <2>3 DEF Told, Awaits
<1>6. ASSUME NEW h \in Handlers, HandlerRemove(h)
      PROVE  Goal
  <2>1. \A g \in Handlers : subscription_stream'[g] = subscription_stream[g]
    BY <1>6 DEF HandlerRemove, HandlersOK, TypeOK
  <2>2. OutsStay /\ UNCHANGED <<match_out, historyVars>>
    BY <1>6 DEF HandlerRemove
  <2> QED
    BY <1>1, <2>1, <2>2 DEF Told, Awaits
<1>7. ASSUME NEW h \in Handlers, HandlerMatched(h)
      PROVE  Goal
  <2>1. PICK m \in subscription_stream[h] :
          match_out' = [match_out EXCEPT ![h] = m]
    BY <1>7 DEF HandlerMatched
  <2>2. /\ OutsStay /\ UNCHANGED historyVars /\ handler_pc[h] = "announce"
        /\ subscription_stream' = [subscription_stream EXCEPT ![h] = {}]
    BY <1>7 DEF HandlerMatched
  <2>3. ASSUME NEW o \in Outs, Waiting(o), NEW g \in Handlers, Told(o, g)
        PROVE  Told(o, g)'
    <3>1. CASE g # h
      BY <2>1, <2>2, <2>3, <3>1 DEF Told, Awaits, TypeOK
    <3>2. CASE g = h
      <4>1. Awaits(o) # NoMatch /\ Listening(Awaits(o)) /\ Awaits(o).id = o
        BY <2>3 DEF Awaits, NoMatch, Listening
      <4>2. Awaits(o) \in subscription_stream[h]
        BY <2>2, <2>3, <3>2, <4>1 DEF Told, HandlersOK
      <4>3. matching_key[o] = match_key[h]
        BY <4>1, <4>2 DEF MatchAgreement
      <4>4. m = Awaits(o)
        BY <2>3, <4>2, <4>3 DEF AnswersOK
      <4>5. match_out'[h] = Awaits(o)
        BY <2>1, <4>4 DEF TypeOK
      <4> QED
        BY <2>2, <3>2, <4>5 DEF Told, Awaits
    <3> QED
      BY <3>1, <3>2
  <2> QED
    BY <1>1, <2>2, <2>3
<1>8. ASSUME NEW h \in Handlers, Loops(h), handler_pc[h] = "connect",
             UNCHANGED historyVars,
             \/ Reset(match_out[h].id)
             \/ OutsStay /\ ~ Listening(match_out[h])
      PROVE  Goal
  <2>1. subscription_stream[h] = {}
    BY <1>8 DEF HandlersOK
  <2>2. \A g \in Handlers \ {h} : /\ subscription_stream'[g] = subscription_stream[g]
                                 /\ match_out'[g] = match_out[g]
    BY <1>8 DEF TypeOK
  <2>3. \A o \in Outs : Waiting(o)' => /\ Waiting(o) /\ ~ Told(o, h)
                                      /\ tunnel_id'[o] = tunnel_id[o]
    <3>1. CASE Reset(match_out[h].id)
      <4>1. \A o \in Outs : Waiting(o)' => /\ Waiting(o) /\ o # match_out[h].id
                                          /\ tunnel_id'[o] = tunnel_id[o]
        BY <1>2, <1>8, <3>1 DEF Reset
      <4> QED
        BY <2>1, <4>1 DEF Told, Awaits
    <3>2. CASE OutsStay /\ ~ Listening(match_out[h])
      BY <1>8, <2>1, <3>2 DEF Told, Awaits, Listening
    <3> QED
      BY <1>8, <3>1, <3>2
  <2>4. ASSUME NEW o \in Outs, Waiting(o)', NEW g \in Handlers, Told(o, g)
        PROVE  Told(o, g)'
    BY <2>2, <2>3, <2>4 DEF Told, Awaits
  <2> QED
    BY <1>1, <2>3, <2>4
<1>9. ASSUME NEW o \in Outs, OutLock(o)
      PROVE  Goal
  <2>1. /\ out_pc[o] = "match_in"
        /\ UNCHANGED <<out_pc, tunnel_id, relocked, subscription_stream, match_out>>
        /\ \A p \in Outs \ {o} : matching_key'[p] = matching_key[p]
    BY <1>9 DEF OutLock, InMatch, TypeOK
  <2>2. \A p \in Outs : Waiting(p)' => Waiting(p)
    BY <2>1
  <2> QED
    BY <1>1, <2>1, <2>2 DEF Told, Awaits
<1>10. ASSUME NEW o \in Outs, OutGet(o),
              UNCHANGED <<out_pc, in_announcement_stream, matching_key, tunnel_id>>
       PROVE  Goal
  BY <1>3, <1>10 DEF OutGet
<1>11. ASSUME NEW o \in Outs, OutReply(o)
       PROVE  Goal
  <2>1. PICK t \in Tunnels, k \in Keys, delivered \in BOOLEAN, ok \in BOOLEAN :
          ReplyEffect(o, t, k, delivered, ok)
    BY <1>11, Replies
  <2>2. /\ Holds(o, k) /\ out_pc'[o] = "listening" /\ matching_key'[o] = k
        /\ tunnel_id'[o] = t /\ UNCHANGED <<match_out, match_key, handler_pc, relocked>>
        /\ \A p \in Outs \ {o} : /\ out_pc'[p] = out_pc[p]
                                 /\ matching_key'[p] = matching_key[p]
                                 /\ tunnel_id'[p] = tunnel_id[p]
        /\ \A h \in Handlers :
             /\ subscription_stream[h] \subseteq subscription_stream'[h]
             /\ h \in Subscribers(k) =>
                  [id |-> o, tunnel_id |-> t] \in subscription_stream'[h]
    BY <2>1 DEF ReplyEffect
  <2>3. ASSUME NEW p \in Outs \ {o}, Waiting(p)'
        PROVE  \E h \in Handlers : Told(p, h)'
    <3>1. PICK h \in Handlers : Told(p, h)
      BY <1>0, <2>2, <2>3
    <3> QED
      BY <2>2, <2>3, <3>1 DEF Told, Awaits
  <2>4. ASSUME Waiting(o)'
        PROVE  \E h \in Handlers : Told(o, h)'
    <3>1. k \in Keys \ relocked /\ match_count[k] = 0
      BY <2>1, <2>2, <2>4 DEF LocksOK, ReplyEffect
    <3>2. Pending(o, k)
      BY <2>2 DEF Pending
    <3>3. PICK h \in Handlers : Waits(h, k)
      BY <3>1, <3>2, FaultsGrow, Expected DEF Awaited
    <3>4. h \in Subscribers(k)
      BY <3>3 DEF Waits, Subscribers, Matching
    <3> QED
      BY <2>2, <3>4 DEF Told, Awaits
  <2> QED
    BY <2>3, <2>4 DEF Goal
<1>12. ASSUME NEW h \in Handlers,
              \/ HandlerExists(h) \/ HandlerSetData(h) \/ HandlerAnnounce(h)
       PROVE  Goal
  BY <1>3, <1>12 DEF HandlerExists, HandlerSetData, HandlerAnnounce
<1>13. ASSUME NEW i \in Ins, NEW o \in Outs, Accepted(i, o), OutsStay,
              UNCHANGED <<match_locks, historyVars>>
       PROVE  Goal
  BY <1>3, <1>13 DEF Accepted
<1>14. ASSUME NEW k \in Keys, LockExpires(k)
       PROVE  Goal
  BY <1>3, <1>14 DEF LockExpires
<1>15. ASSUME InStays, OutsStay, UNCHANGED <<match_locks, historyVars>>
       PROVE  Goal
  BY <1>3, <1>15
<1> HIDE DEF Loops, InStays, OutsStay, historyVars
<1>16. UNCHANGED <<match_locks, historyVars>> => UNCHANGED historyVars
  OBVIOUS
<1>17. Goal
  BY <1>4, <1>5, <1>6, <1>7, <1>8, <1>9, <1>10, <1>11, <1>12, <1>13, <1>14,
     <1>15, <1>16, Effects DEF Reset
<1> QED
  BY <1>17 DEF Goal

THEOREM Invariance == Spec => []IInv
<1>1. IInv /\ [Next]_vars => IInv'
  <2> SUFFICES ASSUME IInv, [Next]_vars PROVE IInv'
    OBVIOUS
  <2>1. TypeOK'
    BY TypeStep DEF IInv
  <2>2. ExpectedOK'
    BY AwaitedStep, ToldStep
       DEF ExpectedOK, Awaited, ListenersTold, Pending, Waits, Awaits, Told
  <2> QED
    BY <2>1, <2>2, HandlersStep, OutsStep, ServedStep, KeysStep, AgreementStep,
       LocksStep, AnswersStep DEF IInv
<1> QED
  BY InitIInv, <1>1, PTL DEF Spec

(* The variables of redis_match_server.rs and its callers keep their types. *)
THEOREM TypeCorrect == Spec => []TypeOK
BY Invariance, PTL DEF IInv

(* An IN serves each OUT of its active set with exactly one handler, and   *)
(* serves no other.                                                        *)
THEOREM ActiveSet == Spec => []ActiveSetMatchesHandlers
<1>1. ServedOnce => ActiveSetMatchesHandlers
  <2> SUFFICES ASSUME ServedOnce, NEW i \in Ins, NEW o \in Outs
               PROVE  Cardinality({h \in Handlers :
                        InOf[h] = i /\ Alive(h) /\ handler_out[h] = o})
                      = (IF o \in active_out_id_set[i] THEN 1 ELSE 0)
    BY DEF ActiveSetMatchesHandlers
  <2> DEFINE S == {h \in Handlers :
                    InOf[h] = i /\ Alive(h) /\ handler_out[h] = o}
  <2>1. CASE o \in active_out_id_set[i]
    <3>1. PICK h \in Handlers : S = {h}
      BY <2>1 DEF ServedOnce
    <3> QED
      BY <2>1, <3>1, FS_Singleton
  <2>2. CASE o \notin active_out_id_set[i]
    <3>1. S = {}
      BY <2>2 DEF ServedOnce
    <3> QED
      BY <2>2, <3>1, FS_EmptySet
  <2> QED
    BY <2>1, <2>2
<1> QED
  BY Invariance, <1>1, PTL DEF IInv

(* A handler's tunnel is its own OUT's and no other handler's. *)
THEOREM Agreement == Spec => []MatchAgreement
BY Invariance, PTL DEF IInv

(* A key is answered a second time only after its lock has run out. *)
THEOREM MatchedOnce == Spec => []KeyMatchedOnce
<1>1. TypeOK /\ LocksOK => KeyMatchedOnce
  <2> SUFFICES ASSUME TypeOK, LocksOK, NEW k \in Keys, match_count[k] > 1,
                      k \notin relocked
               PROVE  FALSE
    BY DEF KeyMatchedOnce
  <2>1. match_count[k] \in 0 .. 2
    BY DEF TypeOK
  <2>2. match_count[k] = 1
    BY <2>1 DEF LocksOK
  <2> QED
    BY <2>2
<1> QED
  BY Invariance, <1>1, PTL DEF IInv

(* Where nothing failed, an OUT that listens has a handler to come. *)
THEOREM ListenerExpected == Spec => []ListenerIsExpected
<1>1. ExpectedOK => ListenerIsExpected
  BY DEF ExpectedOK, ListenerIsExpected
<1> QED
  BY Invariance, <1>1, PTL DEF IInv
=============================================================================
