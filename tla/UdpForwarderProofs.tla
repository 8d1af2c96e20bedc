-------------------------- MODULE UdpForwarderProofs --------------------------
(***************************************************************************)
(* Proofs about UdpForwarder.  The map, the task, the remover and the loop *)
(* each know about an association; the invariant says what each may        *)
(* conclude of the others at every step in between.                        *)
(***************************************************************************)
EXTENDS UdpForwarder, FiniteSetTheorems, TLAPS

-----------------------------------------------------------------------------
(* The inductive invariant. *)

(* The loop holds the lock exactly while it inserts, and the association   *)
(* it inserts for stays in the map as long.                                *)
MainOK ==
  /\ main_pc # "receive" =>
       main_source \in Sources /\ main_original \in Originals
  /\ main_pc \in {"send", "insert"} => main_real \in Reals
  /\ association_lock <=> main_pc = "insert"
  /\ main_pc = "insert" => association_map[main_source] # None

(* A remover acts once its task is told to end, while the association is   *)
(* in the map under its source.                                            *)
TasksOK ==
  \A a \in Associations :
    /\ task_pc[a] = "lookup" => received[a] # None
    /\ task_pc[a] = "none" =>
         remover_pc[a] = "none" /\ original_to_real[a] = Nothing(Originals)
    /\ remover_pc[a] \in {"remove", "retain"} => task_pc[a] \in {"break", "ended"}
    /\ task_pc[a] \in {"read", "lookup", "reply"} \/ remover_pc[a] = "remove" =>
         source_of[a] \in Sources /\ association_map[source_of[a]] = a

(* What the loop has looked up is what the association says, if it says    *)
(* anything: no other association of the source can have come in between.  *)
LookedUp ==
  main_pc \in {"send", "insert"} /\ association_map[main_source] # None =>
    original_to_real[association_map[main_source]][main_original]
      \in {None, main_real}

IInv ==
  TypeOK /\ MainOK /\ TasksOK /\ MapMatchesTasks /\ LookedUp
    /\ OneSocketPerDestination

-----------------------------------------------------------------------------
USE UdpAssumption DEF Addresses

LEMMA InitIInv == Init => IInv
<1> SUFFICES ASSUME Init PROVE IInv
  OBVIOUS
<1>1. TypeOK
  BY DEF Init, TypeOK, Nothing
<1>2. MainOK /\ TasksOK /\ LookedUp
  BY DEF Init, MainOK, TasksOK, LookedUp, Nothing
<1>3. MapMatchesTasks
  BY DEF Init, MapMatchesTasks, Nothing
<1>4. OneSocketPerDestination
  BY DEF Init, OneSocketPerDestination, Nothing
<1> QED
  BY <1>1, <1>2, <1>3, <1>4 DEF IInv

(* What a step may be, one case for each action. *)
LEMMA Steps ==
  ASSUME [Next]_vars
  PROVE  \/ \E s \in Sources, d \in Originals : Receive(s, d)
         \/ Look
         \/ Send
         \/ Insert
         \/ \E a \in Associations, r \in Reals : ReadDatagram(a, r)
         \/ \E a \in Associations : AssignResponseSocket(a)
         \/ \E a \in Associations : Reply(a)
         \/ \E a \in Associations : TaskEnds(a)
         \/ \E a \in Associations : Timeout(a)
         \/ \E a \in Associations : TaskFails(a)
         \/ \E a \in Associations : RemoveAssociation(a)
         \/ \E a \in Associations : RetainSockets(a)
         \/ \E a \in Associations : Forget(a)
         \/ UNCHANGED vars
BY DEF Next, MainStep, TaskStep, RemoverStep

(* Variables that are in none of the model's tuples but vars. *)
LEMMA Unchanged ==
  ASSUME UNCHANGED vars
  PROVE  /\ UNCHANGED <<up, main_pc, main_source, main_original, main_real>>
         /\ UNCHANGED <<association_map, association_lock, source_of>>
         /\ UNCHANGED <<task_pc, remover_pc, original_to_real>>
         /\ UNCHANGED <<real_to_original, received, answering, related>>
         /\ UNCHANGED response_socket
BY DEF vars, mainVars, mapVars, natVars, readVars

USE DEF mainVars, mapVars, natVars, readVars

(* The destination an association answers as is an address. *)
LEMMA AnswersAsType ==
  ASSUME TypeOK, NEW a \in Associations, NEW r \in Reals
  PROVE  AnswersAs(a, r) \in Addresses
BY DEF AnswersAs, TypeOK

LEMMA MainTypes ==
  ASSUME TypeOK, MainOK, TasksOK, Look \/ Send \/ Insert
  PROVE  TypeOK'
<1>1. CASE Look
  <2>1. main_real' \in Reals \cup {None}
    BY <1>1 DEF Look, TypeOK, MainOK, AssociatedDestination
  <2> QED
    BY <1>1, <2>1 DEF Look, TypeOK
<1>2. CASE Send
  <2>1. CASE association_map[main_source] = None
    <3>1. PICK a \in Associations : Created(a, main_source)
      BY <1>2, <2>1 DEF Send
    <3> QED
      BY <1>2, <2>1, <3>1 DEF Send, Created, TypeOK, MainOK
  <2>2. CASE association_map[main_source] # None
    BY <1>2, <2>2 DEF Send, TypeOK
  <2> QED
    BY <2>1, <2>2
<1>3. CASE Insert
  BY <1>3 DEF Insert, TypeOK, MainOK
<1> QED
  BY <1>1, <1>2, <1>3

LEMMA TypeStep ==
  ASSUME TypeOK, MainOK, TasksOK, [Next]_vars
  PROVE  TypeOK'
<1>1. ASSUME NEW s \in Sources, NEW d \in Originals, Receive(s, d)
      PROVE  TypeOK'
  BY <1>1 DEF Receive, TypeOK
<1>2. ASSUME Look \/ Send \/ Insert PROVE TypeOK'
  BY <1>2, MainTypes
<1>3. ASSUME NEW a \in Associations, NEW r \in Reals, ReadDatagram(a, r)
      PROVE  TypeOK'
  BY <1>3 DEF ReadDatagram, TaskGoes, TypeOK
<1>4. ASSUME NEW a \in Associations, AssignResponseSocket(a) PROVE TypeOK'
  <2> DEFINE d == AnswersAs(a, received[a])
  <2>1. d \in Addresses
    <3>1. received[a] \in Reals
      BY <1>4 DEF AssignResponseSocket, TaskGoes, TasksOK, TypeOK
    <3> QED
      BY <3>1, AnswersAsType
  <2>2. PICK k \in Sockets :
          /\ response_socket' = [response_socket EXCEPT ![d] = k]
          /\ related' = [related EXCEPT ![a][d] = k]
    BY <1>4, <2>1 DEF AssignResponseSocket, TypeOK
  <2> HIDE DEF d
  <2> QED
    BY <1>4, <2>1, <2>2 DEF AssignResponseSocket, TaskGoes, TypeOK, d
<1>5. ASSUME NEW a \in Associations,
             Reply(a) \/ TaskEnds(a) \/ Timeout(a) \/ TaskFails(a)
      PROVE  TypeOK'
  <2>1. CASE Reply(a)
    BY <2>1 DEF Reply, TaskGoes, TypeOK
  <2>2. CASE Timeout(a)
    BY <2>2 DEF Timeout, TypeOK
  <2>3. CASE Dropped(a) /\ (TaskEnds(a) \/ TaskFails(a))
    <3>1. Nothing(Addresses) \in [Addresses -> Sockets \cup {None}]
      BY DEF Nothing
    <3>2. remover_pc' \in
            [Associations -> {"none", "wait", "remove", "retain"}]
      BY <2>3 DEF TaskEnds, TaskFails, TypeOK
    <3> HIDE DEF Addresses
    <3>3. related' \in [Associations -> [Addresses -> Sockets \cup {None}]]
      BY <2>3, <3>1 DEF Dropped, TypeOK
    <3> QED
      BY <2>3, <3>2, <3>3 DEF TaskEnds, TaskFails, Dropped, TypeOK
  <2> QED
    BY <1>5, <2>1, <2>2, <2>3 DEF TaskEnds, TaskFails
<1>6. ASSUME NEW a \in Associations, RemoveAssociation(a) \/ RetainSockets(a)
      PROVE  TypeOK'
  BY <1>6 DEF RemoveAssociation, RetainSockets, RemoverGoes, TypeOK
<1>7. ASSUME NEW a \in Associations, Forget(a) PROVE TypeOK'
  BY <1>7 DEF Forget, Nothing, TypeOK
<1>8. CASE UNCHANGED vars
  BY <1>8, Unchanged DEF TypeOK
<1> QED
  BY <1>1, <1>2, <1>3, <1>4, <1>5, <1>6, <1>7, <1>8, Steps

LEMMA MainStepOK ==
  ASSUME TypeOK, MainOK, [Next]_vars
  PROVE  MainOK'
<1>1. ASSUME NEW s \in Sources, NEW d \in Originals, Receive(s, d)
      PROVE  MainOK'
  BY <1>1 DEF Receive, MainOK
<1>2. CASE Look
  BY <1>2 DEF Look, MainOK, TypeOK, AssociatedDestination
<1>3. CASE Send
  BY <1>3 DEF Send, Created, MainOK, TypeOK
<1>4. CASE Insert
  BY <1>4 DEF Insert, MainOK
<1>5. ASSUME NEW a \in Associations, RemoveAssociation(a)
      PROVE  MainOK'
  BY <1>5 DEF RemoveAssociation, MainOK
<1>6. ASSUME UNCHANGED <<mainVars, association_map, association_lock>>
      PROVE  MainOK'
  BY <1>6 DEF MainOK
<1> QED
  BY <1>1, <1>2, <1>3, <1>4, <1>5, <1>6, Steps, Unchanged
     DEF ReadDatagram, AssignResponseSocket, Reply, TaskEnds, Timeout,
         TaskFails, RetainSockets, Forget

(* A removal takes out the association it is for and no other.             *)
LEMMA Removal ==
  ASSUME TypeOK, TasksOK, MapMatchesTasks, NEW a \in Associations,
         RemoveAssociation(a)
  PROVE  /\ source_of[a] \in Sources /\ association_map[source_of[a]] = a
         /\ \A s \in Sources : association_map'[s] =
              IF association_map[s] = a THEN None ELSE association_map[s]
         /\ task_pc[a] \in {"break", "ended"}
BY DEF TypeOK, TasksOK, MapMatchesTasks, RemoveAssociation, RemoverGoes

LEMMA TasksStep ==
  ASSUME IInv, [Next]_vars
  PROVE  TasksOK'
<1> USE DEF IInv
<1>1. CASE Look
  BY <1>1 DEF Look, TasksOK
<1>2. CASE Send
  BY <1>2 DEF Send, Created, MainOK, TasksOK, TypeOK
<1>3. CASE Insert
  BY <1>3 DEF Insert, MainOK, MapMatchesTasks, TasksOK, TypeOK
<1>4. ASSUME NEW a \in Associations, NEW r \in Reals, ReadDatagram(a, r)
      PROVE  TasksOK'
  BY <1>4 DEF ReadDatagram, TaskGoes, TasksOK, TypeOK
<1>5. ASSUME NEW a \in Associations,
             \/ AssignResponseSocket(a) \/ Reply(a) \/ TaskEnds(a)
             \/ Timeout(a) \/ TaskFails(a) \/ Forget(a)
      PROVE  TasksOK'
  <2>1. CASE AssignResponseSocket(a)
    BY <2>1 DEF AssignResponseSocket, TaskGoes, TasksOK, TypeOK
  <2>2. CASE Reply(a)
    BY <2>2 DEF Reply, TaskGoes, TasksOK, TypeOK
  <2>3. CASE TaskEnds(a)
    BY <2>3 DEF TaskEnds, Dropped, TasksOK, TypeOK
  <2>4. CASE Timeout(a)
    BY <2>4 DEF Timeout, TasksOK, MapMatchesTasks, TypeOK
  <2>5. CASE TaskFails(a)
    BY <2>5 DEF TaskFails, Dropped, TasksOK, MapMatchesTasks, TypeOK
  <2>6. CASE Forget(a)
    BY <2>6 DEF Forget, TasksOK, TypeOK
  <2> QED
    BY <1>5, <2>1, <2>2, <2>3, <2>4, <2>5, <2>6
<1>6. ASSUME NEW a \in Associations, RemoveAssociation(a)
      PROVE  TasksOK'
  BY <1>6, Removal DEF RemoveAssociation, RemoverGoes, TasksOK,
     MapMatchesTasks, TypeOK
<1>7. ASSUME NEW a \in Associations, RetainSockets(a)
      PROVE  TasksOK'
  BY <1>7 DEF RetainSockets, RemoverGoes, TasksOK, TypeOK
<1>8. ASSUME UNCHANGED <<mapVars, task_pc, remover_pc, natVars, received>>
      PROVE  TasksOK'
  BY <1>8 DEF TasksOK
<1> QED
  BY <1>1, <1>2, <1>3, <1>4, <1>5, <1>6, <1>7, <1>8, Steps, Unchanged
     DEF Receive

LEMMA MapStep ==
  ASSUME IInv, [Next]_vars
  PROVE  MapMatchesTasks'
<1> USE DEF IInv
<1>1. CASE Send
  BY <1>1 DEF Send, Created, MainOK, MapMatchesTasks, TasksOK, TypeOK
<1>2. ASSUME NEW a \in Associations, NEW r \in Reals, ReadDatagram(a, r)
      PROVE  MapMatchesTasks'
  BY <1>2 DEF ReadDatagram, TaskGoes, MapMatchesTasks, TypeOK
<1>3. ASSUME NEW a \in Associations,
             \/ AssignResponseSocket(a) \/ Reply(a) \/ TaskEnds(a)
             \/ Timeout(a) \/ TaskFails(a) \/ Forget(a)
      PROVE  MapMatchesTasks'
  <2>1. CASE AssignResponseSocket(a)
    BY <2>1 DEF AssignResponseSocket, TaskGoes, MapMatchesTasks, TypeOK
  <2>2. CASE Reply(a)
    BY <2>2 DEF Reply, TaskGoes, MapMatchesTasks, TypeOK
  <2>3. CASE TaskEnds(a)
    BY <2>3 DEF TaskEnds, Dropped, MapMatchesTasks, TypeOK
  <2>4. CASE Timeout(a)
    BY <2>4 DEF Timeout, MapMatchesTasks, TypeOK
  <2>5. CASE TaskFails(a)
    BY <2>5 DEF TaskFails, Dropped, MapMatchesTasks, TypeOK
  <2>6. CASE Forget(a)
    BY <2>6 DEF Forget, MapMatchesTasks, TypeOK
  <2> QED
    BY <1>3, <2>1, <2>2, <2>3, <2>4, <2>5, <2>6
<1>4. ASSUME NEW a \in Associations, RemoveAssociation(a)
      PROVE  MapMatchesTasks'
  <2>1. task_pc' = task_pc /\ source_of' = source_of
    BY <1>4 DEF RemoveAssociation
  <2>2. \A b \in Associations : b # a => remover_pc'[b] = remover_pc[b]
    BY <1>4 DEF RemoveAssociation, RemoverGoes, TypeOK
  <2> SUFFICES ASSUME NEW b \in Associations
               PROVE  /\ task_pc[b] \in {"read", "lookup", "reply"} =>
                           /\ association_map'[source_of[b]] = b
                           /\ remover_pc'[b] = "wait"
                      /\ \A s \in Sources : association_map'[s] = b =>
                           /\ source_of[b] = s /\ task_pc[b] # "none"
                           /\ task_pc[b] \in {"break", "ended"} =>
                                remover_pc'[b] = "remove"
    BY <2>1 DEF MapMatchesTasks
  <2>3. CASE b = a
    BY <1>4, <2>3, Removal DEF MapMatchesTasks
  <2>4. CASE b # a
    <3>1. \A s \in Sources : association_map'[s] = b =>
            association_map[s] = b
      BY <1>4, <2>4, Removal
    <3>2. task_pc[b] \in {"read", "lookup", "reply"} =>
            source_of[b] \in Sources /\ association_map[source_of[b]] = b
      BY DEF TasksOK
    <3> QED
      BY <1>4, <2>2, <2>4, <3>1, <3>2, Removal DEF MapMatchesTasks
  <2> QED
    BY <2>3, <2>4
<1>5. ASSUME NEW a \in Associations, RetainSockets(a)
      PROVE  MapMatchesTasks'
  BY <1>5 DEF RetainSockets, RemoverGoes, MapMatchesTasks, TypeOK
<1>6. ASSUME UNCHANGED <<mapVars, task_pc, remover_pc>>
      PROVE  MapMatchesTasks'
  BY <1>6 DEF MapMatchesTasks
<1>7. ASSUME UNCHANGED <<association_map, source_of, task_pc, remover_pc>>
      PROVE  MapMatchesTasks'
  BY <1>7 DEF MapMatchesTasks
<1> QED
  BY <1>1, <1>2, <1>3, <1>4, <1>5, <1>6, <1>7, Steps, Unchanged
     DEF Receive, Look, Insert

LEMMA LookedUpStep ==
  ASSUME IInv, [Next]_vars
  PROVE  LookedUp'
<1> USE DEF IInv
<1>1. CASE Look
  BY <1>1 DEF Look, AssociatedDestination, LookedUp
<1>2. CASE Send
  BY <1>2 DEF Send, Created, MainOK, TasksOK, LookedUp, Nothing, TypeOK
<1>3. CASE Insert \/ \E s \in Sources, d \in Originals : Receive(s, d)
  BY <1>3 DEF Insert, Receive, LookedUp
<1>4. ASSUME NEW a \in Associations, RemoveAssociation(a)
      PROVE  LookedUp'
  BY <1>4, Removal DEF RemoveAssociation, MainOK, LookedUp, TypeOK
<1>5. ASSUME NEW a \in Associations, Forget(a)
      PROVE  LookedUp'
  BY <1>5 DEF Forget, MainOK, MapMatchesTasks, LookedUp, TypeOK
<1>6. ASSUME UNCHANGED <<mainVars, association_map, original_to_real>>
      PROVE  LookedUp'
  BY <1>6 DEF LookedUp
<1> QED
  BY <1>1, <1>2, <1>3, <1>4, <1>5, <1>6, Steps, Unchanged
     DEF ReadDatagram, AssignResponseSocket, Reply, TaskEnds, Timeout,
         TaskFails, RetainSockets

(* A socket with a task's reference survives a remover's look at counts.   *)
LEMMA ReferenceRetains ==
  ASSUME NEW a \in Associations, NEW d \in Addresses, related[a][d] # None
  PROVE  Retained(d)
<1> DEFINE S == {b \in Associations : related[b][d] # None}
<1>1. IsFiniteSet(S) /\ Cardinality(S) \in Nat
  BY FS_Subset, FS_CardinalityType
<1>2. Cardinality(S) # 0
  BY <1>1, FS_EmptySet
<1> QED
  BY <1>1, <1>2 DEF Retained, StrongCount

LEMMA SocketStep ==
  ASSUME IInv, [Next]_vars
  PROVE  OneSocketPerDestination'
<1> USE DEF IInv
<1>1. ASSUME NEW a \in Associations, AssignResponseSocket(a)
      PROVE  OneSocketPerDestination'
  <2> DEFINE d == AnswersAs(a, received[a])
  <2>1. PICK k \in (IF response_socket[d] # None THEN {response_socket[d]}
                    ELSE Sockets \ Open) :
          /\ response_socket' = [response_socket EXCEPT ![d] = k]
          /\ related' = [related EXCEPT ![a][d] = k]
    BY <1>1 DEF AssignResponseSocket
  <2>2. response_socket[d] # None => k = response_socket[d]
    BY <2>1
  <2> HIDE DEF d
  <2> QED
    BY <2>1, <2>2 DEF OneSocketPerDestination, TypeOK
<1>2. ASSUME NEW a \in Associations, TaskEnds(a) \/ TaskFails(a)
      PROVE  OneSocketPerDestination'
  <2>1. /\ related' = [related EXCEPT ![a] = Nothing(Addresses)]
        /\ UNCHANGED response_socket
    BY <1>2 DEF TaskEnds, TaskFails, Dropped
  <2>2. \A d \in Addresses : related'[a][d] = None
    BY <2>1 DEF Nothing, TypeOK
  <2>3. \A b \in Associations : b # a => related'[b] = related[b]
    BY <2>1 DEF TypeOK
  <2> QED
    BY <2>1, <2>2, <2>3 DEF OneSocketPerDestination
<1>3. ASSUME NEW a \in Associations, RetainSockets(a)
      PROVE  OneSocketPerDestination'
  BY <1>3, ReferenceRetains DEF RetainSockets, OneSocketPerDestination, TypeOK
<1>4. ASSUME UNCHANGED <<related, response_socket>>
      PROVE  OneSocketPerDestination'
  BY <1>4 DEF OneSocketPerDestination
<1> QED
  BY <1>1, <1>2, <1>3, <1>4, Steps, Unchanged
     DEF Receive, Look, Send, Insert, ReadDatagram, Reply, Timeout,
         RemoveAssociation, Forget

THEOREM Invariance == Spec => []IInv
<1>1. IInv /\ [Next]_vars => IInv'
  BY TypeStep, MainStepOK, TasksStep, MapStep, LookedUpStep, SocketStep
     DEF IInv
<1> QED
  BY InitIInv, <1>1, PTL DEF Spec

(* The variables of udp_forwarder.rs and of the listening loop keep their  *)
(* types.                                                                  *)
THEOREM TypeCorrect == Spec => []TypeOK
BY Invariance, PTL DEF IInv

(* All sources answered in the name of a destination share its socket.     *)
THEOREM OneSocket == Spec => []OneSocketPerDestination
BY Invariance, PTL DEF IInv

(* The map of associations and their tasks and removers agree.             *)
THEOREM MapAndTasks == Spec => []MapMatchesTasks
BY Invariance, PTL DEF IInv

(* A destination an association has seen keeps its real address.           *)
THEOREM Sticky == Spec => DestinationIsSticky
<1> DEFINE A == \A a \in Associations, d \in Originals :
      original_to_real[a][d] # None /\ task_pc'[a] # "none" =>
        original_to_real'[a][d] = original_to_real[a][d]
<1>1. IInv /\ [Next]_vars => [A]_vars
  <2> SUFFICES ASSUME IInv, [Next]_vars PROVE [A]_vars
    OBVIOUS
  <2> USE DEF IInv
  <2>1. CASE Insert
    BY <2>1 DEF Insert, MainOK, LookedUp, TypeOK
  <2>2. ASSUME NEW a \in Associations, Forget(a) PROVE A
    BY <2>2 DEF Forget, TypeOK
  <2>3. CASE UNCHANGED original_to_real
    BY <2>3
  <2> HIDE DEF A
  <2> QED
    BY <2>1, <2>2, <2>3, Steps
       DEF Receive, Look, Send, ReadDatagram, AssignResponseSocket, Reply,
           TaskEnds, Timeout, TaskFails, RemoveAssociation, RetainSockets
<1> QED
  BY Invariance, <1>1, PTL DEF Spec, DestinationIsSticky
=============================================================================
