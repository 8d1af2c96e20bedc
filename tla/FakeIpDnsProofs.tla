---------------------------- MODULE FakeIpDnsProofs ----------------------------
(***************************************************************************)
(* Proofs about FakeIpDns.  An answer's row is safe from being written     *)
(* over because it expires later than the answer may be used.  That holds  *)
(* when the row is assigned, but another lookup of the same name, which    *)
(* read its clock earlier, may write it afterwards with an earlier expiry: *)
(* so the invariant bounds how old a lookup's clock is, and says what is   *)
(* promised to answers that have not been given yet.                       *)
(***************************************************************************)
EXTENDS FakeIpDns, TLAPS

-----------------------------------------------------------------------------
(* The inductive invariant. *)

(* No lookup in progress is older than MaxDelay, and its clock reading     *)
(* lies between its beginning and now.                                     *)
LookupsInTime ==
  \A q \in Lookups :
    /\ lookup_pc[q] = "idle" => lookup_fakes[q] = {}
    /\ lookup_pc[q] # "idle" =>
         lookup_began[q] <= now /\ now <= lookup_began[q] + MaxDelay
    /\ lookup_pc[q] = "lock" =>
         lookup_began[q] <= lookup_now[q] /\ lookup_now[q] <= now

(* The row with this id is the name's, and stays so until after t. *)
HeldUntil(type, id, name, t) ==
  /\ id \in Rows
  /\ records[id].type = type
  /\ records[id].name = name
  /\ records[id].expires_at > t

(* An address assigned to a lookup will last for the latest answer. *)
FakesHeld ==
  \A q \in Lookups : \A f \in lookup_fakes[q] :
    HeldUntil(f.type, f.id, lookup_name[q], lookup_began[q] + MaxDelay + Ttl)

AnswersHeld ==
  \A a \in answers :
    /\ HeldUntil(a.type, a.id, a.name, a.until)
    /\ now <= a.until /\ a.until <= now + Ttl

IInv ==
  /\ TypeOK
  /\ OneRecordPerName
  /\ LookupsInTime
  /\ FakesHeld
  /\ AnswersHeld

-----------------------------------------------------------------------------
(* The initial state satisfies the invariant. *)
LEMMA InitIInv == Init => IInv
<1> SUFFICES ASSUME Init PROVE IInv
  OBVIOUS
<1> USE DelayAssumption, BoundAssumption
<1>1. Rows = {}
  BY DEF Init, Rows
<1>2. TypeOK
  BY <1>1 DEF Init, TypeOK, NoRecord
<1>3. OneRecordPerName
  BY <1>1 DEF OneRecordPerName
<1>4. LookupsInTime
  BY DEF Init, LookupsInTime
<1>5. FakesHeld /\ AnswersHeld
  BY DEF Init, FakesHeld, AnswersHeld
<1> QED
  BY <1>2, <1>3, <1>4, <1>5 DEF IInv

(* What assign_fake_ip does to the table, in either of its three cases, is *)
(* to write one row, which no other row doubles and nobody needs for       *)
(* another name.                                                           *)
Writes(q, type, id) ==
  /\ Assigned(q, type, id)
  /\ id \in 1 .. MaxRows
  /\ last_rowid' \in 0 .. MaxRows
  /\ Rows' = Rows \cup {id}
  /\ records' = [records EXCEPT ![id] = NewRecord(q, type)]
  /\ \A j \in Rows \ {id} :
       ~ (records[j].type = type /\ records[j].name = lookup_name[q])
  /\ id \in Rows =>
       \/ records[id].type = type /\ records[id].name = lookup_name[q]
       \/ records[id].expires_at <= lookup_now[q]

LEMMA UpdateWrites ==
  ASSUME IInv, NEW q \in Lookups, NEW type \in Types, UpdateMatching(q, type)
  PROVE  \E id \in 1 .. MaxRows : Writes(q, type, id)
<1> USE BoundAssumption
<1>1. PICK id \in Matching(q, type) :
        /\ Assigned(q, type, id)
        /\ records' = [records EXCEPT ![id].expires_at =
                                         Refreshed(id, lookup_now[q])]
        /\ UNCHANGED last_rowid
  BY DEF UpdateMatching
<1>2. /\ id \in Rows /\ Rows \subseteq 1 .. MaxRows /\ records[id] \in Record
      /\ records[id].type = type /\ records[id].name = lookup_name[q]
  BY <1>1 DEF Matching, Rows, IInv, TypeOK
<1>3. [records[id] EXCEPT !.expires_at = Refreshed(id, lookup_now[q])]
        = NewRecord(q, type)
  BY <1>2 DEF Record, NewRecord, Refreshed
<1>4. records' = [records EXCEPT ![id] = NewRecord(q, type)]
  BY <1>1, <1>2, <1>3
<1>5. \A j \in Rows \ {id} :
        ~ (records[j].type = type /\ records[j].name = lookup_name[q])
  BY <1>2 DEF IInv, OneRecordPerName
<1>6. Rows' = Rows \cup {id} /\ last_rowid' \in 0 .. MaxRows
  BY <1>1, <1>2 DEF Rows, IInv, TypeOK
<1> QED
  BY <1>1, <1>2, <1>4, <1>5, <1>6 DEF Writes

LEMMA ReplaceWrites ==
  ASSUME IInv, NEW q \in Lookups, NEW type \in Types, ReplaceExpired(q, type)
  PROVE  \E id \in 1 .. MaxRows : Writes(q, type, id)
<1> USE BoundAssumption
<1>1. PICK id \in Oldest(Expired(lookup_now[q])) :
        /\ Assigned(q, type, id)
        /\ records' = [records EXCEPT ![id] = NewRecord(q, type)]
  BY DEF ReplaceExpired
<1>2. /\ id \in Rows /\ Rows \subseteq 1 .. MaxRows
      /\ records[id].expires_at <= lookup_now[q]
  BY <1>1 DEF Oldest, Expired, Rows, IInv, TypeOK
<1>3. \A j \in Rows \ {id} :
        ~ (records[j].type = type /\ records[j].name = lookup_name[q])
  BY DEF ReplaceExpired, Matching
<1>4. Rows' = Rows \cup {id} /\ last_rowid' \in 0 .. MaxRows
  BY <1>2 DEF ReplaceExpired, Rows, IInv, TypeOK
<1> QED
  BY <1>1, <1>2, <1>3, <1>4 DEF Writes

LEMMA InsertWrites ==
  ASSUME IInv, NEW q \in Lookups, NEW type \in Types, Insert(q, type)
  PROVE  \E id \in 1 .. MaxRows : Writes(q, type, id)
<1> USE BoundAssumption
<1> DEFINE id == last_rowid + 1
<1>1. id \in 1 .. MaxRows /\ last_rowid' \in 0 .. MaxRows /\ id \notin Rows
  BY DEF Insert, IInv, TypeOK, Rows
<1>2. Rows' = Rows \cup {id}
  BY DEF Insert, IInv, TypeOK, Rows
<1>3. \A j \in Rows \ {id} :
        ~ (records[j].type = type /\ records[j].name = lookup_name[q])
  BY DEF Insert, Matching
<1> QED
  BY <1>1, <1>2, <1>3 DEF Insert, NewRowid, Writes

-----------------------------------------------------------------------------
(* Writing a row preserves the invariant. *)

LEMMA RowsBounded == TypeOK => Rows \subseteq 1 .. MaxRows
  BY BoundAssumption DEF TypeOK, Rows

LEMMA WritesType ==
  ASSUME IInv, NEW q \in Lookups, NEW type \in Types, NEW id \in 1 .. MaxRows,
         Writes(q, type, id)
  PROVE  TypeOK'
<1> USE DelayAssumption, BoundAssumption
<1>1. NewRecord(q, type) \in Record
  BY DEF IInv, TypeOK, NewRecord, Record, Writes, Assigned
<1>2. records' \in [1 .. MaxRows -> Record \cup {NoRecord}]
  BY <1>1 DEF IInv, TypeOK, Writes
<1>3. \A i \in Rows' : records'[i] \in Record
  BY <1>1, RowsBounded DEF IInv, TypeOK, Writes
<1>4. /\ lookup_types' \in [Lookups -> SUBSET Types]
      /\ lookup_fakes' \in [Lookups -> SUBSET Fake]
  <2>1. [type |-> type, id |-> id] \in Fake
    BY DEF Fake
  <2> QED
    BY <2>1 DEF IInv, TypeOK, Writes, Assigned
<1> QED
  BY <1>2, <1>3, <1>4 DEF IInv, TypeOK, Writes, Assigned

(* A row that somebody holds, for a name that has time left, is still      *)
(* held after the write: it is another row, or it is the name's own and    *)
(* the writer's clock is recent enough.                                    *)
LEMMA WritesHeld ==
  ASSUME IInv, NEW q \in Lookups, NEW type \in Types, NEW id \in 1 .. MaxRows,
         Writes(q, type, id),
         NEW t, NEW i, NEW n, NEW u \in Nat,
         HeldUntil(t, i, n, u), now <= u, u <= now + MaxDelay + Ttl
  PROVE  HeldUntil(t, i, n, u)'
<1> USE DelayAssumption, BoundAssumption
<1>1. /\ i \in Rows' /\ i \in 1 .. MaxRows
      /\ lookup_now[q] \in Nat /\ now \in Nat
      /\ lookup_now[q] <= now /\ now <= lookup_now[q] + MaxDelay
  <2>1. lookup_now[q] \in Nat /\ lookup_began[q] \in Nat /\ now \in Nat
    BY DEF IInv, TypeOK
  <2>2. /\ lookup_began[q] <= lookup_now[q] /\ lookup_now[q] <= now
        /\ now <= lookup_began[q] + MaxDelay
    BY DEF IInv, LookupsInTime, Writes, Assigned
  <2>3. i \in Rows' /\ i \in 1 .. MaxRows
    BY RowsBounded DEF HeldUntil, Writes, IInv
  <2> QED
    BY <2>1, <2>2, <2>3
<1>2. CASE i # id
  <2>1. records'[i] = records[i]
    BY <1>1, <1>2 DEF Writes, IInv, TypeOK
  <2> QED
    BY <1>1, <2>1 DEF HeldUntil
<1>3. CASE i = id
  <2>1. records[id].expires_at \in Nat
    BY <1>3 DEF HeldUntil, IInv, TypeOK, Record
  <2>2. records[id].type = type /\ records[id].name = lookup_name[q]
    BY <1>1, <1>3, <2>1 DEF HeldUntil, Writes
  <2>3. records'[id] = NewRecord(q, type)
    BY DEF Writes, IInv, TypeOK
  <2>4. lookup_now[q] + Expiration > u
    BY <1>1
  <2> QED
    BY <1>1, <1>3, <2>2, <2>3, <2>4 DEF HeldUntil, NewRecord
<1> QED
  BY <1>2, <1>3

LEMMA WritesIInv ==
  ASSUME IInv, NEW q \in Lookups, NEW type \in Types, NEW id \in 1 .. MaxRows,
         Writes(q, type, id)
  PROVE  IInv'
<1> USE DelayAssumption, BoundAssumption
<1>1. TypeOK'
  BY WritesType
<1>2. OneRecordPerName'
  <2> SUFFICES ASSUME NEW i \in Rows', NEW j \in Rows',
                      records'[i].type = records'[j].type,
                      records'[i].name = records'[j].name
               PROVE  i = j
    BY DEF OneRecordPerName
  <2>1. /\ records'[id].type = type /\ records'[id].name = lookup_name[q]
        /\ \A k \in Rows \ {id} : records'[k] = records[k]
    BY DEF Writes, NewRecord, IInv, TypeOK, Rows
  <2>2. CASE i # id /\ j # id
    BY <2>1, <2>2 DEF Writes, IInv, OneRecordPerName
  <2>3. CASE i = id \/ j = id
    BY <2>1, <2>3 DEF Writes
  <2> QED
    BY <2>2, <2>3
<1>3. LookupsInTime'
  BY DEF IInv, TypeOK, LookupsInTime, Writes, Assigned
<1>4. FakesHeld'
  <2> SUFFICES ASSUME NEW p \in Lookups, NEW f \in lookup_fakes'[p],
                      NEW n, n = lookup_name'[p],
                      NEW u, u = lookup_began'[p] + MaxDelay + Ttl
               PROVE  HeldUntil(f.type, f.id, n, u)'
    BY DEF FakesHeld, HeldUntil
  <2>1. /\ n = lookup_name[p] /\ u = lookup_began[p] + MaxDelay + Ttl
        /\ lookup_began[p] \in Nat /\ now \in Nat /\ u \in Nat
    BY DEF Writes, Assigned, IInv, TypeOK
  <2>2. CASE f \in lookup_fakes[p]
    <3>1. lookup_pc[p] # "idle"
      BY <2>2 DEF IInv, LookupsInTime
    <3>2. now <= u /\ u <= now + MaxDelay + Ttl
      BY <2>1, <3>1 DEF IInv, LookupsInTime
    <3>3. HeldUntil(f.type, f.id, n, u)
      BY <2>1, <2>2 DEF IInv, FakesHeld
    <3> QED
      BY <2>1, <3>2, <3>3, WritesHeld
  <2>3. CASE f \notin lookup_fakes[p]
    <3>1. p = q /\ f = [type |-> type, id |-> id]
      BY <2>3 DEF Writes, Assigned, IInv, TypeOK
    <3>2. records'[id] = NewRecord(q, type) /\ id \in Rows'
      BY DEF Writes, IInv, TypeOK
    <3>3. /\ lookup_now[q] \in Nat /\ lookup_began[q] <= lookup_now[q]
      BY DEF Writes, Assigned, IInv, TypeOK, LookupsInTime
    <3>4. lookup_now[q] + Expiration > u
      BY <2>1, <3>1, <3>3
    <3> QED
      BY <2>1, <3>1, <3>2, <3>4 DEF HeldUntil, NewRecord
  <2> QED
    BY <2>2, <2>3
<1>5. AnswersHeld'
  <2> SUFFICES ASSUME NEW a \in answers'
               PROVE  /\ HeldUntil(a.type, a.id, a.name, a.until)'
                      /\ now' <= a.until /\ a.until <= now' + Ttl
    BY DEF AnswersHeld
  <2>1. /\ a \in answers /\ now' = now /\ now \in Nat /\ a.until \in Nat
    BY DEF Writes, Assigned, IInv, TypeOK, Answer
  <2>2. /\ HeldUntil(a.type, a.id, a.name, a.until)
        /\ now <= a.until /\ a.until <= now + Ttl
    BY <2>1 DEF IInv, AnswersHeld
  <2>3. a.until <= now + MaxDelay + Ttl
    BY <2>1, <2>2
  <2>4. HeldUntil(a.type, a.id, a.name, a.until)'
    BY <2>1, <2>2, <2>3, WritesHeld
  <2> QED
    BY <2>1, <2>2, <2>4
<1> QED
  BY <1>1, <1>2, <1>3, <1>4, <1>5 DEF IInv

-----------------------------------------------------------------------------
(* The other steps leave the table alone. *)

LEMMA TableUnchanged ==
  ASSUME UNCHANGED tableVars
  PROVE  /\ Rows' = Rows
         /\ OneRecordPerName' <=> OneRecordPerName
         /\ \A t, i, n, u : HeldUntil(t, i, n, u)' <=> HeldUntil(t, i, n, u)
  BY DEF tableVars, Rows, OneRecordPerName, HeldUntil

LEMMA LookupIInv ==
  ASSUME IInv, NEW q \in Lookups, NEW name \in Names,
         NEW types \in SUBSET Types, Lookup(q, name, types)
  PROVE  IInv'
<1> USE DelayAssumption, BoundAssumption
<1>1. UNCHANGED tableVars
  BY DEF Lookup
<1>2. TypeOK'
  BY <1>1, TableUnchanged DEF IInv, TypeOK, Lookup, tableVars
<1>3. LookupsInTime'
  BY DEF IInv, TypeOK, LookupsInTime, Lookup
<1>4. FakesHeld'
  <2> SUFFICES ASSUME NEW p \in Lookups, NEW f \in lookup_fakes'[p]
               PROVE  HeldUntil(f.type, f.id, lookup_name[p],
                                lookup_began[p] + MaxDelay + Ttl)'
    BY DEF FakesHeld
  <2>1. f \in lookup_fakes[p] /\ p # q
    BY DEF Lookup, IInv, LookupsInTime
  <2>2. lookup_name'[p] = lookup_name[p] /\ lookup_began'[p] = lookup_began[p]
    BY <2>1 DEF Lookup, IInv, TypeOK
  <2>3. HeldUntil(f.type, f.id, lookup_name[p],
                  lookup_began[p] + MaxDelay + Ttl)
    BY <2>1 DEF IInv, FakesHeld
  <2> QED
    BY <1>1, <2>2, <2>3 DEF HeldUntil, tableVars, Rows
<1>5. AnswersHeld'
  BY <1>1, TableUnchanged DEF IInv, AnswersHeld, Lookup
<1> QED
  BY <1>1, <1>2, <1>3, <1>4, <1>5, TableUnchanged DEF IInv

LEMMA ReadClockIInv ==
  ASSUME IInv, NEW q \in Lookups, ReadClock(q)
  PROVE  IInv'
<1> USE DelayAssumption, BoundAssumption
<1>1. UNCHANGED tableVars
  BY DEF ReadClock
<1>2. TypeOK'
  BY <1>1, TableUnchanged DEF IInv, TypeOK, ReadClock, tableVars
<1>3. LookupsInTime'
  BY DEF IInv, TypeOK, LookupsInTime, ReadClock
<1>4. FakesHeld'
  BY <1>1 DEF IInv, FakesHeld, HeldUntil, ReadClock, tableVars, Rows
<1>5. AnswersHeld'
  BY <1>1, TableUnchanged DEF IInv, AnswersHeld, ReadClock
<1> QED
  BY <1>1, <1>2, <1>3, <1>4, <1>5, TableUnchanged DEF IInv

(* A lookup that is over is forgotten; the others are as they were. *)
LEMMA ForgottenInv ==
  ASSUME IInv, NEW q \in Lookups, Forgotten(q), UNCHANGED <<now, tableVars>>
  PROVE  LookupsInTime' /\ FakesHeld'
<1> USE DelayAssumption, BoundAssumption
<1>1. LookupsInTime'
  BY DEF IInv, TypeOK, LookupsInTime, Forgotten
<1>2. FakesHeld'
  <2> SUFFICES ASSUME NEW p \in Lookups, NEW f \in lookup_fakes'[p]
               PROVE  HeldUntil(f.type, f.id, lookup_name[p],
                                lookup_began[p] + MaxDelay + Ttl)'
    BY DEF FakesHeld
  <2>1. /\ f \in lookup_fakes[p]
        /\ lookup_name'[p] = lookup_name[p]
        /\ lookup_began'[p] = lookup_began[p]
    BY DEF Forgotten, IInv, TypeOK
  <2>2. HeldUntil(f.type, f.id, lookup_name[p],
                  lookup_began[p] + MaxDelay + Ttl)
    BY <2>1 DEF IInv, FakesHeld
  <2> QED
    BY <2>1, <2>2 DEF HeldUntil, tableVars, Rows
<1> QED
  BY <1>1, <1>2

LEMMA PassOnIInv ==
  ASSUME IInv, NEW q \in Lookups, PassOn(q)
  PROVE  IInv'
<1> USE DelayAssumption, BoundAssumption
<1>1. UNCHANGED tableVars
  BY DEF PassOn
<1>2. TypeOK'
  BY <1>1, TableUnchanged DEF IInv, TypeOK, PassOn, Forgotten, tableVars
<1>3. LookupsInTime' /\ FakesHeld'
  BY ForgottenInv DEF PassOn
<1>4. AnswersHeld'
  BY <1>1, TableUnchanged DEF IInv, AnswersHeld, PassOn
<1> QED
  BY <1>1, <1>2, <1>3, <1>4, TableUnchanged DEF IInv

LEMMA ReplyIInv ==
  ASSUME IInv, NEW q \in Lookups, Reply(q)
  PROVE  IInv'
<1> USE DelayAssumption, BoundAssumption
<1>1. UNCHANGED tableVars
  BY DEF Reply
<1>2. answers' \in SUBSET Answer
  <2>1. \A f \in lookup_fakes[q] :
          [type |-> f.type, id |-> f.id, name |-> lookup_name[q],
           until |-> now + Ttl] \in Answer
    BY DEF Reply, IInv, TypeOK, Answer, Fake
  <2> QED
    BY <2>1 DEF Reply, IInv, TypeOK
<1>3. TypeOK'
  BY <1>1, <1>2, TableUnchanged
     DEF IInv, TypeOK, Reply, Forgotten, tableVars
<1>4. LookupsInTime' /\ FakesHeld'
  BY ForgottenInv DEF Reply
<1>5. AnswersHeld'
  <2> SUFFICES ASSUME NEW a \in answers'
               PROVE  /\ HeldUntil(a.type, a.id, a.name, a.until)
                      /\ now <= a.until /\ a.until <= now + Ttl
    BY <1>1, TableUnchanged DEF AnswersHeld, Reply
  <2>1. CASE a \in answers
    BY <2>1 DEF IInv, AnswersHeld
  <2>2. CASE a \notin answers
    <3>1. PICK f \in lookup_fakes[q] :
            a = [type |-> f.type, id |-> f.id, name |-> lookup_name[q],
                 until |-> now + Ttl]
      BY <2>2 DEF Reply
    <3>2. HeldUntil(f.type, f.id, lookup_name[q],
                    lookup_began[q] + MaxDelay + Ttl)
      BY DEF IInv, FakesHeld
    <3>3. /\ now \in Nat /\ lookup_began[q] \in Nat
          /\ now <= lookup_began[q] + MaxDelay
      BY DEF IInv, TypeOK, LookupsInTime, Reply
    <3>4. f.id \in Rows /\ records[f.id].expires_at \in Nat
      BY <3>2 DEF HeldUntil, IInv, TypeOK, Record
    <3> QED
      BY <3>1, <3>2, <3>3, <3>4 DEF HeldUntil
  <2> QED
    BY <2>1, <2>2
<1> QED
  BY <1>1, <1>3, <1>4, <1>5, TableUnchanged DEF IInv

LEMMA RestartIInv ==
  ASSUME IInv, Restart
  PROVE  IInv'
<1> USE DelayAssumption, BoundAssumption
<1>1. UNCHANGED tableVars
  BY DEF Restart
<1>2. TypeOK'
  BY <1>1, TableUnchanged DEF IInv, TypeOK, Restart, tableVars
<1>3. LookupsInTime' /\ FakesHeld'
  BY DEF LookupsInTime, FakesHeld, Restart
<1>4. AnswersHeld'
  BY <1>1, TableUnchanged DEF IInv, AnswersHeld, Restart
<1> QED
  BY <1>1, <1>2, <1>3, <1>4, TableUnchanged DEF IInv

(* Time passes only as long as no lookup becomes too old for it, and an    *)
(* answer whose time has passed is used no more.                           *)
LEMMA TickIInv ==
  ASSUME IInv, Tick
  PROVE  IInv'
<1> USE DelayAssumption, BoundAssumption
<1>1. UNCHANGED tableVars
  BY DEF Tick
<1>2. TypeOK'
  BY <1>1, TableUnchanged DEF IInv, TypeOK, Tick, tableVars, lookupVars
<1>3. LookupsInTime'
  BY DEF IInv, TypeOK, LookupsInTime, Tick, lookupVars
<1>4. FakesHeld'
  BY <1>1 DEF IInv, FakesHeld, HeldUntil, Tick, lookupVars, tableVars, Rows
<1>5. AnswersHeld'
  <2> SUFFICES ASSUME NEW a \in answers'
               PROVE  /\ HeldUntil(a.type, a.id, a.name, a.until)'
                      /\ now' <= a.until /\ a.until <= now' + Ttl
    BY DEF AnswersHeld
  <2>1. /\ a \in answers /\ a.until > now /\ now' = now + 1
        /\ now \in Nat /\ a.until \in Nat
    BY DEF Tick, IInv, TypeOK, Answer
  <2>2. HeldUntil(a.type, a.id, a.name, a.until) /\ a.until <= now + Ttl
    BY <2>1 DEF IInv, AnswersHeld
  <2> QED
    BY <1>1, <2>1, <2>2, TableUnchanged
<1> QED
  BY <1>1, <1>2, <1>3, <1>4, <1>5, TableUnchanged DEF IInv

-----------------------------------------------------------------------------
(* Every step preserves the invariant. *)
LEMMA NextIInv == IInv /\ [Next]_vars => IInv'
<1> SUFFICES ASSUME IInv, [Next]_vars PROVE IInv'
  OBVIOUS
<1>1. ASSUME NEW q \in Lookups, NEW name \in Names,
             NEW types \in SUBSET Types \ {{}}, Lookup(q, name, types)
      PROVE  IInv'
  BY <1>1, LookupIInv
<1>2. ASSUME NEW q \in Lookups, ReadClock(q) PROVE IInv'
  BY <1>2, ReadClockIInv
<1>3. ASSUME NEW q \in Lookups, PassOn(q) PROVE IInv'
  BY <1>3, PassOnIInv
<1>4. ASSUME NEW q \in Lookups, Reply(q) PROVE IInv'
  BY <1>4, ReplyIInv
<1>5. ASSUME NEW q \in Lookups, NEW type \in Types,
             UpdateMatching(q, type) \/ ReplaceExpired(q, type)
               \/ Insert(q, type)
      PROVE  IInv'
  <2>1. PICK id \in 1 .. MaxRows : Writes(q, type, id)
    BY <1>5, UpdateWrites, ReplaceWrites, InsertWrites
  <2> QED
    BY <2>1, WritesIInv
<1>6. CASE Restart
  BY <1>6, RestartIInv
<1>7. CASE Tick
  BY <1>7, TickIInv
<1>8. CASE UNCHANGED vars
  <2>1. UNCHANGED tableVars
    BY <1>8 DEF vars
  <2>2. UNCHANGED <<now, last_rowid, records, lookup_pc, lookup_name,
                    lookup_types, lookup_fakes, lookup_now, lookup_began,
                    answers>>
    BY <1>8 DEF vars, tableVars, lookupVars
  <2> QED
    BY <2>1, <2>2, TableUnchanged
       DEF IInv, TypeOK, LookupsInTime, FakesHeld, AnswersHeld, HeldUntil, Rows
<1> QED
  BY <1>1, <1>2, <1>3, <1>4, <1>5, <1>6, <1>7, <1>8 DEF Next

(* The invariant holds throughout: what fake_authority.rs has assigned and *)
(* answered is kept in the table for as long as it may be used.            *)
THEOREM Invariance == Spec => []IInv
  BY InitIInv, NextIInv, PTL DEF Spec

(* Every variable stays in its type. *)
THEOREM TypeCorrect == Spec => []TypeOK
<1>1. IInv => TypeOK
  BY DEF IInv
<1> QED
  BY <1>1, Invariance, PTL

(* An address that a client may still use leads to the name it asked for,  *)
(* whichever lookups have run since, as long as it lies in the network.    *)
THEOREM AnswersResolve == Spec => []UsableAnswerResolves
<1>1. IInv => UsableAnswerResolves
  BY DEF IInv, AnswersHeld, HeldUntil, UsableAnswerResolves, Resolved
<1> QED
  BY <1>1, Invariance, PTL

(* Without the unique index a name still has one row of each type. *)
THEOREM NamesAreUnique == Spec => []OneRecordPerName
<1>1. IInv => OneRecordPerName
  BY DEF IInv
<1> QED
  BY <1>1, Invariance, PTL

(* A row is inserted only when all others have been in use less than a     *)
(* lookup's delay ago.                                                     *)
THEOREM Growth == Spec => GrowsOnlyWhenInUse
<1> DEFINE Grows ==
      last_rowid' # last_rowid =>
        \A id \in Rows : records[id].expires_at > now - MaxDelay
<1>1. IInv /\ [Next]_vars => [Grows]_vars
  <2> SUFFICES ASSUME IInv, Next, last_rowid' # last_rowid, NEW id \in Rows
               PROVE  records[id].expires_at > now - MaxDelay
    OBVIOUS
  <2>1. PICK q \in Lookups, type \in Types : Insert(q, type)
    BY DEF Next, Lookup, ReadClock, PassOn, Reply, UpdateMatching,
           ReplaceExpired, Restart, Tick, tableVars
  <2>2. /\ lookup_now[q] \in Nat /\ lookup_began[q] \in Nat /\ now \in Nat
        /\ lookup_began[q] <= lookup_now[q] /\ now <= lookup_began[q] + MaxDelay
    BY <2>1 DEF Insert, Assigned, IInv, TypeOK, LookupsInTime
  <2>3. records[id].expires_at \in Nat
    BY DEF IInv, TypeOK, Record
  <2>4. ~ (records[id].expires_at <= lookup_now[q])
    BY <2>1 DEF Insert, Expired
  <2> QED
    BY <2>2, <2>3, <2>4, DelayAssumption
<1> QED
  BY <1>1, Invariance, PTL DEF Spec, GrowsOnlyWhenInUse
=============================================================================
