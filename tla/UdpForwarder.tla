---------------------------- MODULE UdpForwarder ----------------------------
(***************************************************************************)
(* UDP on the IN side: the listening loop of transparent_proxy.rs and the  *)
(* associations of udp_forwarder.rs.                                       *)
(*                                                                         *)
(* The loop takes one datagram at a time, finds its real destination and   *)
(* sends it through the association of its source.  An association has a   *)
(* task that reads answers and a timer, and a remover that takes it out of *)
(* the map when the task has ended.  Answers leave through sockets bound   *)
(* to the destination the client had asked for, shared by all sources and  *)
(* freed when a remover finds nobody else with a reference to one.         *)
(*                                                                         *)
(* Time is not modelled: the timer may run out whenever the task waits.    *)
(***************************************************************************)
EXTENDS Integers, FiniteSets

CONSTANTS
  Sources,       \* addresses of clients
  Originals,     \* destinations clients send to; fake addresses, for one
  Reals,         \* destinations datagrams are sent on to
  Associations,  \* bound: associations alive or being removed
  Sockets,       \* response sockets: bound, a closed one is used again
  None

(* An address that is not fake is its own real destination. *)
ASSUME UdpAssumption ==
  /\ None \notin Originals \cup Reals \cup Sockets \cup Associations
  /\ IsFiniteSet(Associations)

Addresses == Originals \cup Reals

VARIABLES
  up,                    \* the loop: "running", or "failed" with the program
  main_pc, main_source, main_original, main_real,
  association_map,       \* source -> association
  association_lock,      \* the map's mutex is held by the loop
  source_of,
  task_pc,               \* the association's task
  remover_pc,            \* the task spawned by send
  original_to_real,      \* per association
  real_to_original,
  received,              \* read_task: the real destination heard from
  answering,             \* read_task: the destination to answer as
  related,               \* read_task: its references to response sockets
  response_socket        \* destination -> socket, shared

mainVars == <<up, main_pc, main_source, main_original, main_real>>
mapVars == <<association_map, association_lock, source_of>>
natVars == <<original_to_real, real_to_original>>
readVars == <<received, answering, related>>
vars == <<mainVars, mapVars, task_pc, remover_pc, natVars, readVars,
          response_socket>>

TypeOK ==
  /\ up \in {"running", "failed"}
  /\ main_pc \in {"receive", "look", "send", "insert"}
  /\ main_source \in Sources \cup {None}
  /\ main_original \in Originals \cup {None}
  /\ main_real \in Reals \cup {None}
  /\ association_map \in [Sources -> Associations \cup {None}]
  /\ association_lock \in BOOLEAN
  /\ source_of \in [Associations -> Sources \cup {None}]
  /\ task_pc \in
       [Associations -> {"none", "read", "lookup", "reply", "break", "ended"}]
  /\ remover_pc \in [Associations -> {"none", "wait", "remove", "retain"}]
  /\ original_to_real \in [Associations -> [Originals -> Reals \cup {None}]]
  /\ real_to_original \in [Associations -> [Reals -> Originals \cup {None}]]
  /\ received \in [Associations -> Reals \cup {None}]
  /\ answering \in [Associations -> Addresses \cup {None}]
  /\ related \in [Associations -> [Addresses -> Sockets \cup {None}]]
  /\ response_socket \in [Addresses -> Sockets \cup {None}]

Nothing(S) == [x \in S |-> None]

Init ==
  /\ up = "running"
  /\ main_pc = "receive"
  /\ main_source = None /\ main_original = None /\ main_real = None
  /\ association_map = Nothing(Sources)
  /\ association_lock = FALSE
  /\ source_of = Nothing(Associations)
  /\ task_pc = [a \in Associations |-> "none"]
  /\ remover_pc = [a \in Associations |-> "none"]
  /\ original_to_real = [a \in Associations |-> Nothing(Originals)]
  /\ real_to_original = [a \in Associations |-> Nothing(Reals)]
  /\ received = Nothing(Associations)
  /\ answering = Nothing(Associations)
  /\ related = [a \in Associations |-> Nothing(Addresses)]
  /\ response_socket = Nothing(Addresses)

Running == up = "running"
TaskGoes(a, from, to) ==
  Running /\ task_pc[a] = from /\ task_pc' = [task_pc EXCEPT ![a] = to]
RemoverGoes(a, from, to) ==
  Running /\ remover_pc[a] = from
  /\ remover_pc' = [remover_pc EXCEPT ![a] = to]

-----------------------------------------------------------------------------
(* The loop. *)

Receive(s, d) ==
  /\ Running /\ main_pc = "receive"
  /\ main_source' = s /\ main_original' = d
  /\ main_pc' = "look"
  /\ UNCHANGED <<up, main_real, mapVars, task_pc, remover_pc, natVars,
                 readVars, response_socket>>

(* Mutant: the association is not asked. *)
NeverAssociated(s, d) == None

(* get_associated_destination *)
AssociatedDestination(s, d) ==
  IF association_map[s] = None THEN None
  ELSE original_to_real[association_map[s]][d]

(* The association's answer, or else the resolver's: a real address is its *)
(* own, what a fake one stands for may be anything, or unknown by now.     *)
Look ==
  /\ Running /\ main_pc = "look"
  /\ LET associated == AssociatedDestination(main_source, main_original)
         resolved == IF main_original \in Reals THEN {main_original}
                     ELSE Reals \cup {None}
     IN \E r \in (IF associated # None THEN {associated} ELSE resolved) :
          /\ main_real' = r
          /\ main_pc' = IF r = None THEN "receive" ELSE "send"
  /\ UNCHANGED <<up, main_source, main_original, mapVars, task_pc,
                 remover_pc, natVars, readVars, response_socket>>

(* Mutant: the remover is told the destination instead of the source. *)
CreatedForOriginal(a, s) ==
  /\ task_pc[a] = "none" /\ remover_pc[a] = "none"
  /\ association_map' = [association_map EXCEPT ![s] = a]
  /\ source_of' = [source_of EXCEPT ![a] = main_original]
  /\ task_pc' = [task_pc EXCEPT ![a] = "read"]
  /\ remover_pc' = [remover_pc EXCEPT ![a] = "wait"]

(* Association::new and its remover, under the map's lock. *)
Created(a, s) ==
  /\ task_pc[a] = "none" /\ remover_pc[a] = "none"
  /\ association_map' = [association_map EXCEPT ![s] = a]
  /\ source_of' = [source_of EXCEPT ![a] = s]
  /\ task_pc' = [task_pc EXCEPT ![a] = "read"]
  /\ remover_pc' = [remover_pc EXCEPT ![a] = "wait"]

(* send takes the lock, creates the association when there is none, and    *)
(* signals activity.  The receiver is gone once the task has ended: the    *)
(* error ends the loop, and with it the program.                           *)
Send ==
  /\ Running /\ main_pc = "send"
  /\ \/ /\ association_map[main_source] = None
        /\ \E a \in Associations : Created(a, main_source)
        /\ association_lock' = TRUE
        /\ main_pc' = "insert"
        /\ UNCHANGED up
     \/ /\ association_map[main_source] # None
        /\ task_pc[association_map[main_source]] # "ended"
        /\ association_lock' = TRUE
        /\ main_pc' = "insert"
        /\ UNCHANGED <<up, association_map, source_of, task_pc, remover_pc>>
     \/ /\ association_map[main_source] # None
        /\ task_pc[association_map[main_source]] = "ended"
        /\ up' = "failed"
        /\ UNCHANGED <<main_pc, mapVars, task_pc, remover_pc>>
  /\ UNCHANGED <<main_source, main_original, main_real, natVars, readVars,
                 response_socket>>

(* The two maps are written, the datagram is sent, the lock is released.   *)
(* An error of send_to, an unreachable network say, ends the program, too. *)
Insert ==
  /\ Running /\ main_pc = "insert"
  /\ LET a == association_map[main_source] IN
     /\ original_to_real' =
          [original_to_real EXCEPT ![a][main_original] = main_real]
     /\ real_to_original' =
          [real_to_original EXCEPT ![a][main_real] = main_original]
  /\ association_lock' = FALSE
  /\ main_pc' = "receive"
  /\ up' \in {"running", "failed"}
  /\ main_source' = None /\ main_original' = None /\ main_real' = None
  /\ UNCHANGED <<association_map, source_of, task_pc, remover_pc, readVars,
                 response_socket>>

-----------------------------------------------------------------------------
(* The association's task. *)

ReadDatagram(a, r) ==
  /\ TaskGoes(a, "read", "lookup")
  /\ received' = [received EXCEPT ![a] = r]
  /\ UNCHANGED <<mainVars, mapVars, remover_pc, natVars, answering, related,
                 response_socket>>

AnswersAs(a, r) ==
  IF real_to_original[a][r] = None THEN r ELSE real_to_original[a][r]

Open == {k \in Sockets :
           \/ \E d \in Addresses : response_socket[d] = k
           \/ \E a \in Associations, d \in Addresses : related[a][d] = k}

(* assign_response_socket: the shared socket, or a new one.  Its clone     *)
(* goes to the task's own map.                                             *)
AssignResponseSocket(a) ==
  /\ TaskGoes(a, "lookup", "reply")
  /\ LET d == AnswersAs(a, received[a]) IN
     /\ answering' = [answering EXCEPT ![a] = d]
     /\ \E k \in (IF response_socket[d] # None THEN {response_socket[d]}
                  ELSE Sockets \ Open) :
          /\ response_socket' = [response_socket EXCEPT ![d] = k]
          /\ related' = [related EXCEPT ![a][d] = k]
  /\ UNCHANGED <<mainVars, mapVars, remover_pc, natVars, received>>

Reply(a) ==
  /\ TaskGoes(a, "reply", "read")
  /\ received' = [received EXCEPT ![a] = None]
  /\ answering' = [answering EXCEPT ![a] = None]
  /\ UNCHANGED <<mainVars, mapVars, remover_pc, natVars, related,
                 response_socket>>

(* timeout_sender.send, whatever read_task awaits; the loop is left next. *)
Timeout(a) ==
  /\ Running /\ task_pc[a] \in {"read", "lookup", "reply"}
  /\ task_pc' = [task_pc EXCEPT ![a] = "break"]
  /\ remover_pc' = [remover_pc EXCEPT ![a] = "remove"]
  /\ UNCHANGED <<mainVars, mapVars, natVars, readVars, response_socket>>

(* Mutant: the sender is kept elsewhere, a failure wakes nobody. *)
TaskFailsSilently(a) ==
  /\ Running /\ task_pc[a] \in {"read", "lookup", "reply"}
  /\ task_pc' = [task_pc EXCEPT ![a] = "ended"]
  /\ UNCHANGED <<mainVars, mapVars, remover_pc, natVars, readVars,
                 response_socket>>

(* The task is over: both futures are dropped, with what they own. *)
Dropped(a) ==
  /\ task_pc' = [task_pc EXCEPT ![a] = "ended"]
  /\ received' = [received EXCEPT ![a] = None]
  /\ answering' = [answering EXCEPT ![a] = None]
  /\ related' = [related EXCEPT ![a] = Nothing(Addresses)]

TaskEnds(a) ==
  /\ Running /\ task_pc[a] = "break"
  /\ Dropped(a)
  /\ UNCHANGED <<mainVars, mapVars, remover_pc, natVars, response_socket>>

(* Reading, binding or answering fails: the drop of timeout_sender wakes   *)
(* the remover.                                                            *)
TaskFails(a) ==
  /\ Running /\ task_pc[a] \in {"read", "lookup", "reply"}
  /\ Dropped(a)
  /\ remover_pc' = [remover_pc EXCEPT ![a] = "remove"]
  /\ UNCHANGED <<mainVars, mapVars, natVars, response_socket>>

-----------------------------------------------------------------------------
(* The remover. *)

RemoveAssociation(a) ==
  /\ RemoverGoes(a, "remove", "retain")
  /\ ~ association_lock
  /\ association_map' = [association_map EXCEPT ![source_of[a]] = None]
  /\ UNCHANGED <<mainVars, association_lock, source_of, task_pc, natVars,
                 readVars, response_socket>>

(* Arc::strong_count: the map's own reference, and those of the tasks. *)
StrongCount(d) == 1 + Cardinality({a \in Associations : related[a][d] # None})

(* Mutant: the map's own reference is not counted. *)
RetainedTwo(d) == StrongCount(d) > 2

Retained(d) == StrongCount(d) > 1

(* Afterwards nothing refers to the association any more, but perhaps its  *)
(* task, on its way out.                                                   *)
RetainSockets(a) ==
  /\ RemoverGoes(a, "retain", "none")
  /\ response_socket' = [d \in Addresses |->
       IF response_socket[d] # None /\ Retained(d) THEN response_socket[d]
       ELSE None]
  /\ UNCHANGED <<mainVars, mapVars, task_pc, natVars, readVars>>

(* Bookkeeping of the model: an association that is over may be used as a  *)
(* new one.                                                                *)
Forget(a) ==
  /\ task_pc[a] = "ended" /\ remover_pc[a] = "none"
  /\ task_pc' = [task_pc EXCEPT ![a] = "none"]
  /\ source_of' = [source_of EXCEPT ![a] = None]
  /\ original_to_real' = [original_to_real EXCEPT ![a] = Nothing(Originals)]
  /\ real_to_original' = [real_to_original EXCEPT ![a] = Nothing(Reals)]
  /\ UNCHANGED <<mainVars, association_map, association_lock, remover_pc,
                 readVars, response_socket>>

-----------------------------------------------------------------------------
TaskStep(a) ==
  AssignResponseSocket(a) \/ Reply(a) \/ TaskEnds(a)
RemoverStep(a) == RemoveAssociation(a) \/ RetainSockets(a)
MainStep == Look \/ Send \/ Insert

Next ==
  \/ \E s \in Sources, d \in Originals : Receive(s, d)
  \/ MainStep
  \/ \E a \in Associations :
       \/ TaskStep(a) \/ RemoverStep(a) \/ Forget(a)
       \/ Timeout(a) \/ TaskFails(a)
       \/ \E r \in Reals : ReadDatagram(a, r)

Spec == Init /\ [][Next]_vars

-----------------------------------------------------------------------------
(* Properties. *)

(* All sources that are answered in the name of a destination are answered *)
(* through one socket, the one in the map: a remover, running between any  *)
(* two steps of the tasks, never lets go of a socket somebody still uses.  *)
OneSocketPerDestination ==
  \A a \in Associations, d \in Addresses :
    related[a][d] # None => related[a][d] = response_socket[d]

(* A source has one association at a time: the map's.  A remover waits as  *)
(* long as the association's task has not been told to end, and removes    *)
(* that association and none that came after it.  One that is left in the  *)
(* map without a task has its remover on the way, so that its source gets  *)
(* a new one.                                                              *)
MapMatchesTasks ==
  \A a \in Associations :
    /\ task_pc[a] \in {"read", "lookup", "reply"} =>
         association_map[source_of[a]] = a /\ remover_pc[a] = "wait"
    /\ \A s \in Sources : association_map[s] = a =>
         source_of[a] = s /\ task_pc[a] # "none"
    /\ \A s \in Sources :
         association_map[s] = a /\ task_pc[a] \in {"break", "ended"} =>
           remover_pc[a] = "remove"

(* A datagram is not redirected elsewhere in mid-conversation: as long as  *)
(* an association lives, a destination it has seen keeps its real address, *)
(* whatever the fake address has been assigned to in the meantime.         *)
DestinationIsSticky ==
  [][\A a \in Associations, d \in Originals :
       original_to_real[a][d] # None /\ task_pc'[a] # "none" =>
         original_to_real'[a][d] = original_to_real[a][d]]_vars
=============================================================================
