------------------------------- MODULE FakeIpDns -------------------------------
(***************************************************************************)
(* Fake addresses: fake_authority.rs answers a DNS lookup with an address  *)
(* made from the id of a row in a database, and fake_ip_resolver.rs finds  *)
(* the name again when a client connects to that address.                  *)
(*                                                                         *)
(* A row is written for seven days; when no row has the name, the oldest   *)
(* expired one is written over.  Lookups run concurrently: each reads the  *)
(* clock, takes the connection's mutex, selects and writes, and answers    *)
(* with a TTL of a minute.  A client uses an answer as long as its TTL     *)
(* lasts.  The real address, written together with the name, is left out.  *)
(*                                                                         *)
(* Time passes evenly, and no lookup takes longer than MaxDelay from its   *)
(* first reading of the clock to its answer.                               *)
(***************************************************************************)
EXTENDS Integers

CONSTANTS
  Names,
  Lookups,     \* lookups in progress: bound
  Expiration,  \* FAKE_IP_EXPIRATION_TIME_IN_MS
  Ttl,         \* of an answer
  MaxDelay,    \* of a lookup
  PoolSize,    \* addresses in the IPv4 network of fake addresses
  MaxRows,     \* bound: rows ever inserted
  MaxTime,     \* bound
  None, Outside

ASSUME DelayAssumption ==
  /\ Expiration \in Nat /\ Ttl \in Nat /\ MaxDelay \in Nat
  /\ Expiration > Ttl + MaxDelay + MaxDelay

ASSUME BoundAssumption ==
  /\ MaxRows \in Nat /\ MaxTime \in Nat /\ PoolSize \in Nat
  /\ None \notin Names /\ Outside \notin Names

VARIABLES
  now,             \* the clock
  last_rowid,      \* rows are numbered from 1, none is ever deleted
  records,         \* the table: row number -> row
  lookup_pc,
  lookup_name,
  lookup_types,    \* addresses yet to be assigned: one, or an HTTPS answer's two
  lookup_fakes,    \* addresses assigned so far
  lookup_now,      \* `now` of the current assign_fake_ip
  lookup_began,    \* history: when the lookup first came to read the clock
  answers          \* history: answers clients may still use

tableVars == <<last_rowid, records>>
lookupVars == <<lookup_pc, lookup_name, lookup_types, lookup_fakes, lookup_now,
                lookup_began>>
vars == <<now, tableVars, lookupVars, answers>>

Types == {"A", "AAAA"}
Rows == 1 .. last_rowid
Record == [type : Types, name : Names, expires_at : Nat]
NoRecord == [type |-> "A", name |-> None, expires_at |-> 0]
Fake == [type : Types, id : 1 .. MaxRows]
Answer == [type : Types, id : 1 .. MaxRows, name : Names, until : Nat]

TypeOK ==
  /\ now \in Nat
  /\ last_rowid \in 0 .. MaxRows
  /\ records \in [1 .. MaxRows -> Record \cup {NoRecord}]
  /\ \A id \in Rows : records[id] \in Record
  /\ lookup_pc \in [Lookups -> {"idle", "clock", "lock"}]
  /\ lookup_name \in [Lookups -> Names \cup {None}]
  /\ \A q \in Lookups : lookup_pc[q] # "idle" => lookup_name[q] \in Names
  /\ lookup_types \in [Lookups -> SUBSET Types]
  /\ lookup_fakes \in [Lookups -> SUBSET Fake]
  /\ lookup_now \in [Lookups -> Nat]
  /\ lookup_began \in [Lookups -> Nat]
  /\ answers \in SUBSET Answer

Init ==
  /\ now = 0
  /\ last_rowid = 0
  /\ records = [id \in 1 .. MaxRows |-> NoRecord]
  /\ lookup_pc = [q \in Lookups |-> "idle"]
  /\ lookup_name = [q \in Lookups |-> None]
  /\ lookup_types = [q \in Lookups |-> {}]
  /\ lookup_fakes = [q \in Lookups |-> {}]
  /\ lookup_now = [q \in Lookups |-> 0]
  /\ lookup_began = [q \in Lookups |-> 0]
  /\ answers = {}

-----------------------------------------------------------------------------
(* The table. *)

(* Mutant: a row that has expired does not match. *)
MatchingUnexpired(q, type) ==
  {id \in Rows : /\ records[id].type = type
                 /\ records[id].name = lookup_name[q]
                 /\ records[id].expires_at > lookup_now[q]}

Matching(q, type) ==
  {id \in Rows :
     records[id].type = type /\ records[id].name = lookup_name[q]}

Expired(t) == {id \in Rows : records[id].expires_at <= t}

Oldest(ids) ==
  {i \in ids : \A j \in ids : records[i].expires_at <= records[j].expires_at}

(* Mutant: UPDATE sets the real address alone. *)
RefreshedNever(id, t) == records[id].expires_at

Refreshed(id, t) == t + Expiration

NewRowid == last_rowid + 1

(* convert_id_to_fake_ip does not look at the network's size.  The IPv6    *)
(* network has room for every id.                                          *)
InPool(type, id) == type = "AAAA" \/ id < PoolSize

(* FakeIpResolver::resolve: an address outside the networks is not fake.   *)
Resolved(type, id) ==
  IF ~ InPool(type, id) THEN Outside
  ELSE IF id \in Rows /\ records[id].type = type THEN records[id].name
  ELSE None

-----------------------------------------------------------------------------
(* A lookup. *)

Forgotten(q) ==
  /\ lookup_pc' = [lookup_pc EXCEPT ![q] = "idle"]
  /\ lookup_name' = [lookup_name EXCEPT ![q] = None]
  /\ lookup_types' = [lookup_types EXCEPT ![q] = {}]
  /\ lookup_fakes' = [lookup_fakes EXCEPT ![q] = {}]
  /\ lookup_now' = [lookup_now EXCEPT ![q] = 0]
  /\ lookup_began' = [lookup_began EXCEPT ![q] = 0]

(* The upstream answer is there: an address, or hints of either type. *)
Lookup(q, name, types) ==
  /\ lookup_pc[q] = "idle"
  /\ lookup_pc' = [lookup_pc EXCEPT ![q] = "clock"]
  /\ lookup_name' = [lookup_name EXCEPT ![q] = name]
  /\ lookup_types' = [lookup_types EXCEPT ![q] = types]
  /\ lookup_began' = [lookup_began EXCEPT ![q] = now]
  /\ UNCHANGED <<now, tableVars, lookup_fakes, lookup_now, answers>>

(* assign_fake_ip reads the clock before it takes the mutex. *)
ReadClock(q) ==
  /\ lookup_pc[q] = "clock" /\ lookup_types[q] # {}
  /\ lookup_pc' = [lookup_pc EXCEPT ![q] = "lock"]
  /\ lookup_now' = [lookup_now EXCEPT ![q] = now]
  /\ UNCHANGED <<now, tableVars, lookup_name, lookup_types, lookup_fakes,
                 lookup_began, answers>>

(* What is left of assign_fake_ip runs under the mutex. *)
Assigned(q, type, id) ==
  /\ lookup_pc[q] = "lock" /\ type \in lookup_types[q]
  /\ lookup_pc' = [lookup_pc EXCEPT ![q] = "clock"]
  /\ lookup_types' = [lookup_types EXCEPT ![q] = @ \ {type}]
  /\ lookup_fakes' = [lookup_fakes EXCEPT ![q] = @ \cup {[type |-> type, id |-> id]}]
  /\ UNCHANGED <<now, lookup_name, lookup_now, lookup_began, answers>>

UpdateMatching(q, type) ==
  \E id \in Matching(q, type) :
    /\ Assigned(q, type, id)
    /\ records' = [records EXCEPT ![id].expires_at =
                                     Refreshed(id, lookup_now[q])]
    /\ UNCHANGED last_rowid

NewRecord(q, type) ==
  [type |-> type, name |-> lookup_name[q],
   expires_at |-> lookup_now[q] + Expiration]

ReplaceExpired(q, type) ==
  /\ Matching(q, type) = {}
  /\ \E id \in Oldest(Expired(lookup_now[q])) :
       /\ Assigned(q, type, id)
       /\ records' = [records EXCEPT ![id] = NewRecord(q, type)]
  /\ UNCHANGED last_rowid

(* Mutant: insert without looking for an expired row. *)
InsertAlways(q, type) ==
  /\ Matching(q, type) = {}
  /\ last_rowid < MaxRows
  /\ Assigned(q, type, NewRowid)
  /\ last_rowid' = last_rowid + 1
  /\ records' = [records EXCEPT ![last_rowid + 1] = NewRecord(q, type)]

Insert(q, type) ==
  /\ Matching(q, type) = {}
  /\ Expired(lookup_now[q]) = {}
  /\ last_rowid < MaxRows
  /\ Assigned(q, type, NewRowid)
  /\ last_rowid' = last_rowid + 1
  /\ records' = [records EXCEPT ![last_rowid + 1] = NewRecord(q, type)]

(* An HTTPS answer with a second hint that is loopback is passed on as it  *)
(* came, though the first hint has been assigned.                          *)
PassOn(q) ==
  /\ lookup_pc[q] = "clock" /\ lookup_types[q] # {}
  /\ Forgotten(q)
  /\ UNCHANGED <<now, tableVars, answers>>

Reply(q) ==
  /\ lookup_pc[q] = "clock" /\ lookup_types[q] = {}
  /\ answers' = answers \cup
       {[type |-> f.type, id |-> f.id, name |-> lookup_name[q],
         until |-> now + Ttl] : f \in lookup_fakes[q]}
  /\ Forgotten(q)
  /\ UNCHANGED <<now, tableVars>>

-----------------------------------------------------------------------------
(* The process is started again: the table is on disk, and clients keep    *)
(* their answers.                                                          *)
Restart ==
  /\ lookup_pc' = [q \in Lookups |-> "idle"]
  /\ lookup_name' = [q \in Lookups |-> None]
  /\ lookup_types' = [q \in Lookups |-> {}]
  /\ lookup_fakes' = [q \in Lookups |-> {}]
  /\ lookup_now' = [q \in Lookups |-> 0]
  /\ lookup_began' = [q \in Lookups |-> 0]
  /\ UNCHANGED <<now, tableVars, answers>>

Tick ==
  /\ now < MaxTime
  /\ \A q \in Lookups :
       lookup_pc[q] # "idle" => now < lookup_began[q] + MaxDelay
  /\ now' = now + 1
  /\ answers' = {a \in answers : a.until > now}
  /\ UNCHANGED <<tableVars, lookupVars>>

Next ==
  \/ \E q \in Lookups :
       \/ \E name \in Names, types \in SUBSET Types \ {{}} :
            Lookup(q, name, types)
       \/ ReadClock(q) \/ PassOn(q) \/ Reply(q)
       \/ \E type \in Types :
            UpdateMatching(q, type) \/ ReplaceExpired(q, type) \/ Insert(q, type)
  \/ Restart
  \/ Tick

Spec == Init /\ [][Next]_vars

-----------------------------------------------------------------------------
(* Properties. *)

(* As long as a client may use an answer, the address in it leads to the   *)
(* name that was looked up: rows are written over, and refreshed by        *)
(* lookups that read an older clock, but never one that is in use.  An id  *)
(* beyond the network is no fake address at all, though.                   *)
UsableAnswerResolves ==
  \A a \in answers :
    Resolved(a.type, a.id) = IF InPool(a.type, a.id) THEN a.name ELSE Outside

(* A name has one row of a type, whichever lookups of it run at the same   *)
(* time: the unique index of the schema is never created, because          *)
(* `execute` runs the first statement only.                                *)
OneRecordPerName ==
  \A i, j \in Rows :
    /\ records[i].type = records[j].type
    /\ records[i].name = records[j].name
    => i = j

(* Ids, which are never given back, are used up only while all rows have   *)
(* been in use until a moment ago, so that the network is large enough if  *)
(* it is for the names of one week.                                        *)
GrowsOnlyWhenInUse ==
  [][last_rowid' # last_rowid =>
       \A id \in Rows : records[id].expires_at > now - MaxDelay]_vars
=============================================================================
