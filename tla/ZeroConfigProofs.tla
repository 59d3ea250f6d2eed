-------------------------- MODULE ZeroConfigProofs --------------------------
(* ViewIsStore and NothingOverdue of ZeroConfig for any services, types,      *)
(* packets, lifetimes and intervals.  The first rests on the difference of    *)
(* two snapshots turning the one into the other at the receiver; the second   *)
(* on a probe moving a record to a fraction of its lifetime that is ahead of  *)
(* its age, however late it came.  HooksFollowCache of ServerMdns for any     *)
(* instances and addresses rests on a service that is alone with its serial   *)
(* having a key in the registry that no other service enters or removes.      *)
EXTENDS Mdns, WellFoundedInduction, TLAPS

Entry == [age : Nat, ttl : Ttls, life : Lives]

(* A map from records to entries. *)
Queue(q) == \A r \in DOMAIN q : q[r] \in Entry

IInv ==
  /\ view = Snapshot(store) /\ snapshot = Snapshot(store)
  /\ DOMAIN store = DOMAIN attention
  /\ Queue(attention)
  /\ query_in \in [Tracked -> Nat]
  /\ NothingOverdue
-----------------------------------------------------------------------------
(* A receiver that holds the old snapshot holds the new one after the events  *)
(* of the difference.                                                         *)
LEMMA DiffIsEnough ==
  ASSUME NEW old, NEW new, DOMAIN old \subseteq Services, DOMAIN new \subseteq Services,
         new = [s \in DOMAIN new |-> new[s]]
  PROVE  Receive(old, Diff(old, new), new) = new
<1> DEFINE E == Diff(old, new)
           heard(x) == {<<"Create", x>>, <<"Update", x>>} \cap E # {}
<1>1. \A x : <<"Create", x>> \in E <=> x \in Created(old, new)
  BY Zenon DEF Diff
<1>2. \A x : <<"Update", x>> \in E <=> x \in Updated(old, new)
  BY Zenon DEF Diff
<1>3. \A x : <<"Delete", x>> \in E <=> x \in Deleted(old, new)
  BY Zenon DEF Diff
<1> HIDE DEF E
<1>4. \A x : heard(x) <=> x \in Created(old, new) \/ x \in Updated(old, new)
  BY <1>1, <1>2, Zenon
<1> HIDE DEF heard
<1>5. \A x \in Services :
        (x \in DOMAIN old /\ <<"Delete", x>> \notin E) \/ heard(x) <=> x \in DOMAIN new
  BY <1>3, <1>4, Zenon DEF Created, Updated, Deleted
<1>6. \A x \in DOMAIN new : (IF heard(x) THEN new[x] ELSE old[x]) = new[x]
  BY <1>4, Zenon DEF Created, Updated
<1>7. {x \in Services : (x \in DOMAIN old /\ <<"Delete", x>> \notin E) \/ heard(x)} = DOMAIN new
  BY <1>5, Zenon
<1>8. Receive(old, E, new)
        = [s \in {x \in Services : (x \in DOMAIN old /\ <<"Delete", x>> \notin E) \/ heard(x)}
             |-> IF heard(s) THEN new[s] ELSE old[s]]
  BY Zenon DEF Receive, heard
<1>9. Receive(old, E, new) = [s \in DOMAIN new |-> IF heard(s) THEN new[s] ELSE old[s]]
  BY <1>7, <1>8, Zenon
<1>10. Receive(old, E, new) = [s \in DOMAIN new |-> new[s]]
  BY <1>6, <1>9, Zenon
<1> QED
  BY <1>10, Zenon DEF E

(* A snapshot is a map of services. *)
LEMMA SnapshotIsMap ==
  ASSUME NEW st
  PROVE  /\ DOMAIN Snapshot(st) \subseteq Services
         /\ Snapshot(st) = [s \in DOMAIN Snapshot(st) |-> Snapshot(st)[s]]
BY Zenon DEF Snapshot

(* tick leaves the receiver with the snapshot of what the store keeps, and    *)
(* takes a record out of the store and out of the queue together.             *)
LEMMA TickKeepsView ==
  ASSUME NEW st, NEW q, NEW queries, DOMAIN st = DOMAIN q, view = snapshot,
         DOMAIN snapshot \subseteq Services, TickWith(st, q, queries)
  PROVE  /\ view' = Snapshot(store') /\ snapshot' = Snapshot(store')
         /\ DOMAIN store' = DOMAIN attention'
<1> DEFINE kept == Restrict(st, DOMAIN st \ Removed(q))
           new == Snapshot(kept)
<1>1. /\ store' = kept /\ snapshot' = new /\ view' = Receive(view, Diff(snapshot, new), new)
      /\ attention' = AfterAttention(q)
  BY Zenon DEF TickWith
<1>2. DOMAIN kept = DOMAIN st \ Removed(q) /\ DOMAIN AfterAttention(q) = DOMAIN q \ Removed(q)
  BY Zenon DEF Restrict, AfterAttention
<1>3. DOMAIN new \subseteq Services /\ new = [s \in DOMAIN new |-> new[s]]
  BY SnapshotIsMap, Zenon
<1> HIDE DEF new, kept
<1>4. Receive(snapshot, Diff(snapshot, new), new) = new
  BY <1>3, DiffIsEnough, Zenon
<1> QED
  BY <1>1, <1>2, <1>4, Zenon DEF new
-----------------------------------------------------------------------------
(* The fields of an entry are numbers. *)
LEMMA EntryFields ==
  ASSUME NEW e \in Entry
  PROVE  e.age \in Nat /\ e.ttl \in Nat /\ e.ttl \in Ttls /\ e.life \in Lives
<1>1. e.age \in Nat /\ e.ttl \in Ttls /\ e.life \in Lives
  BY Zenon DEF Entry
<1> QED
  BY <1>1, Timing, Zenon

(* An entry that is not due has part of its lifetime ahead. *)
LEMMA NotDueIsYoung ==
  ASSUME NEW age \in Nat, NEW ttl \in Nat, NEW f \in 16..20, ttl * f - 20 * age > 0
  PROVE  age < ttl
<1>1. f \in {16, 17, 18, 19, 20}
  OBVIOUS
<1>2. CASE f = 16
  BY <1>2
<1>3. CASE f = 17
  BY <1>3
<1>4. CASE f = 18
  BY <1>4
<1>5. CASE f = 19
  BY <1>5
<1>6. CASE f = 20
  BY <1>6
<1> QED
  BY <1>1, <1>2, <1>3, <1>4, <1>5, <1>6, Zenon

(* The fractions a lifetime is looked at on. *)
LEMMA Fractions ==
  ASSUME NEW life \in Lives
  PROVE  next_ttl_fraction(life) \in 16..20
BY DEF Lives, next_ttl_fraction

(* Of the entries that are due, the one that is not gone is moved to a        *)
(* fraction ahead of its age.                                                 *)
LEMMA ProbeIsAhead ==
  ASSUME NEW e \in Entry, ~Gone(e)
  PROVE  /\ ProbeOf(e) \in Lives
         /\ e.ttl * next_ttl_fraction(ProbeOf(e)) - 20 * e.age > 0
<1>1. e.age \in Nat /\ e.ttl \in Nat
  BY EntryFields, Zenon
<1>2. e.age < e.ttl
  BY <1>1 DEF Gone
<1>3. CASE Past(e, 19)
  <2>1. ProbeOf(e) = "Probed95" /\ next_ttl_fraction(ProbeOf(e)) = 20
    BY <1>3, Zenon DEF ProbeOf, next_ttl_fraction
  <2> QED
    BY <1>1, <1>2, <2>1 DEF Lives
<1>4. CASE ~Past(e, 19) /\ Past(e, 18)
  <2>1. ProbeOf(e) = "Probed90" /\ next_ttl_fraction(ProbeOf(e)) = 19
    BY <1>4, Zenon DEF ProbeOf, next_ttl_fraction
  <2> QED
    BY <1>1, <1>4, <2>1 DEF Lives, Past
<1>5. CASE ~Past(e, 19) /\ ~Past(e, 18) /\ Past(e, 17)
  <2>1. ProbeOf(e) = "Probed85" /\ next_ttl_fraction(ProbeOf(e)) = 18
    BY <1>5, Zenon DEF ProbeOf, next_ttl_fraction
  <2> QED
    BY <1>1, <1>5, <2>1 DEF Lives, Past
<1>6. CASE ~Past(e, 19) /\ ~Past(e, 18) /\ ~Past(e, 17)
  <2>1. ProbeOf(e) = "Probed80" /\ next_ttl_fraction(ProbeOf(e)) = 17
    BY <1>6, Zenon DEF ProbeOf, next_ttl_fraction
  <2> QED
    BY <1>1, <1>6, <2>1 DEF Lives, Past
<1> QED
  BY <1>3, <1>4, <1>5, <1>6, Zenon

(* tick leaves nothing overdue in the queue. *)
LEMMA TickKeepsAhead ==
  ASSUME NEW q, Queue(q)
  PROVE  /\ Queue(AfterAttention(q))
         /\ \A r \in DOMAIN AfterAttention(q) :
              LET e == AfterAttention(q)[r] IN e.age < e.ttl /\ ~Due(e)
<1>1. DOMAIN AfterAttention(q) = DOMAIN q \ Removed(q)
  BY Zenon DEF AfterAttention, Restrict
<1> SUFFICES ASSUME NEW r \in DOMAIN q \ Removed(q)
             PROVE  LET e == AfterAttention(q)[r]
                    IN  e \in Entry /\ e.age < e.ttl /\ ~Due(e)
  BY <1>1, Zenon DEF Queue
<1> DEFINE o == q[r]
           e == AfterAttention(q)[r]
<1>2. o \in Entry
  BY Zenon DEF Queue
<1>3. o.age \in Nat /\ o.ttl \in Nat /\ o.ttl \in Ttls /\ o.life \in Lives
  BY <1>2, EntryFields, Zenon
<1>4. CASE Due(o)
  <2>1. ~Gone(o)
    BY <1>4, Zenon DEF Removed
  <2>2. e = [o EXCEPT !.life = ProbeOf(o)]
    BY <1>4, Zenon DEF AfterAttention, Restrict, Probed
  <2> HIDE DEF o, e
  <2>3. /\ ProbeOf(o) \in Lives
        /\ o.ttl * next_ttl_fraction(ProbeOf(o)) - 20 * o.age > 0
    BY <1>2, <2>1, ProbeIsAhead, Zenon
  <2>4. e \in Entry /\ e.age = o.age /\ e.ttl = o.ttl /\ e.life = ProbeOf(o)
    BY <1>2, <2>2, <2>3, Zenon DEF Entry
  <2>5. o.age < o.ttl
    BY <1>3, <2>1 DEF Gone
  <2>6. AttentionIn(e) > 0 /\ AttentionIn(e) \in Int
    <3> DEFINE f == next_ttl_fraction(ProbeOf(o))
    <3>1. AttentionIn(e) = o.ttl * f - 20 * o.age
      BY <2>4, Zenon DEF AttentionIn
    <3>2. f \in 16..20 /\ o.ttl * f - 20 * o.age > 0
      BY <2>3, Fractions, Zenon
    <3> HIDE DEF f
    <3>3. o.ttl * f \in Int
      BY <1>3, <3>2
    <3> QED
      BY <1>3, <3>1, <3>2, <3>3
  <2>7. ~Due(e)
    BY <2>6 DEF Due
  <2> QED
    BY <2>4, <2>5, <2>7, Zenon DEF e
<1>5. CASE ~Due(o)
  <2>1. e = o
    BY <1>5, Zenon DEF AfterAttention, Restrict, Probed
  <2> HIDE DEF o, e
  <2> DEFINE f == next_ttl_fraction(o.life)
  <2>2. f \in 16..20
    BY <1>3, Fractions, Zenon
  <2>3. ~(o.ttl * f - 20 * o.age <= 0)
    BY <1>5, Zenon DEF Due, AttentionIn
  <2> HIDE DEF f
  <2>4. o.ttl * f \in Int
    BY <1>3, <2>2
  <2>5. o.ttl * f - 20 * o.age > 0
    BY <1>3, <2>3, <2>4
  <2>6. o.age < o.ttl
    BY <1>3, <2>2, <2>5, NotDueIsYoung, Zenon
  <2> QED
    BY <1>2, <1>5, <2>1, <2>6, Zenon DEF e
<1> QED
  BY <1>4, <1>5, Zenon
-----------------------------------------------------------------------------
(* A set of natural numbers that is not empty has a least element, whether    *)
(* it is finite or not.                                                       *)
LEMMA MinOfNats ==
  ASSUME NEW S \in SUBSET Nat, S # {}
  PROVE  Min(S) \in Nat
<1>1. PICK m \in S : \A k \in S : ~(<<k, m>> \in OpToRel(<, Nat))
  BY NatLessThanWellFounded, WFMin, Zenon
<1>2. ASSUME NEW k \in S PROVE m <= k
  <2>1. ~(k < m)
    BY <1>1, Zenon DEF OpToRel
  <2> QED
    BY <2>1
<1> QED
  BY <1>2, Zenon DEF Min

(* The larger of two numbers. *)
LEMMA MaxOfTwo ==
  ASSUME NEW a \in Int, NEW b \in Nat
  PROVE  Max({a, b}) \in Nat
<1>1. \E x \in {a, b} : x \in Nat /\ \A y \in {a, b} : x >= y
  OBVIOUS
<1>2. \A x \in {a, b} : (\A y \in {a, b} : x >= y) => x \in Nat
  OBVIOUS
<1> QED
  BY <1>1, <1>2, Zenon DEF Max

(* The driver waits for a number of units. *)
LEMMA TimeoutIsNat ==
  ASSUME Queue(attention), query_in \in [Tracked -> Nat]
  PROVE  Timeout \in Nat
<1> DEFINE In(r) == Max({(AttentionIn(attention[r]) + 19) \div 20, 0})
<1>1. \A r \in DOMAIN attention : In(r) \in Nat
  <2> TAKE r \in DOMAIN attention
  <2>1. attention[r] \in Entry
    BY Zenon DEF Queue
  <2> DEFINE f == next_ttl_fraction(attention[r].life)
             d == (AttentionIn(attention[r]) + 19) \div 20
  <2>2. attention[r].age \in Nat /\ attention[r].ttl \in Nat /\ f \in 16..20
    BY <2>1, EntryFields, Fractions, Zenon
  <2>3. AttentionIn(attention[r]) \in Int
    <3>1. attention[r].ttl * f \in Int
      BY <2>2
    <3> QED
      BY <2>2, <3>1 DEF AttentionIn
  <2>4. d \in Int
    BY <2>3
  <2> HIDE DEF d
  <2>5. Max({d, 0}) \in Nat
    BY <2>4, MaxOfTwo, Zenon
  <2> QED
    BY <2>5, Zenon DEF d
<1>2. NextAttention \in Nat
  <2>1. CASE DOMAIN attention = {}
    BY <2>1, Timing, Zenon DEF NextAttention
  <2>2. CASE DOMAIN attention # {}
    <3> DEFINE S == {In(r) : r \in DOMAIN attention}
    <3>1. S \in SUBSET Nat /\ S # {}
      BY <1>1, <2>2, Zenon
    <3>2. NextAttention = Min(S)
      BY <2>2, Zenon DEF NextAttention
    <3> HIDE DEF S
    <3> QED
      BY <3>1, <3>2, MinOfNats, Zenon
  <2> QED
    BY <2>1, <2>2, Zenon
<1> DEFINE T == {MaxWait, NextAttention} \cup {query_in[t] : t \in Tracked}
<1>3. T \in SUBSET Nat /\ T # {}
  BY <1>2, Timing, Zenon
<1>4. Timeout = Max({MinWait, Min(T)})
  BY Zenon DEF Timeout
<1> HIDE DEF T
<1>5. Min(T) \in Nat /\ MinWait \in Int
  BY <1>3, MinOfNats, Timing
<1> QED
  BY <1>4, <1>5, MaxOfTwo, Zenon

(* Time passes over a queue. *)
LEMMA AgedIsQueue ==
  ASSUME NEW q, Queue(q), NEW dt \in Nat
  PROVE  Queue(Aged(q, dt)) /\ DOMAIN Aged(q, dt) = DOMAIN q
<1> SUFFICES ASSUME NEW r \in DOMAIN q
             PROVE  [q[r] EXCEPT !.age = Older(q[r], dt)] \in Entry
  BY Zenon DEF Aged, Queue
<1>1. q[r] \in Entry
  BY Zenon DEF Queue
<1>2. q[r].age \in Nat /\ q[r].ttl \in Nat
  BY <1>1, EntryFields, Zenon
<1>3. Older(q[r], dt) \in Nat
  BY <1>2 DEF Older
<1> QED
  BY <1>1, <1>3, Zenon DEF Entry

(* What a packet brings is a queue of fresh records, and comes before what    *)
(* is known already.                                                          *)
LEMMA HeardIsQueue ==
  ASSUME NEW packet \in Packets, NEW q, Queue(q)
  PROVE  Queue(Over(Fresh(packet), q))
<1>1. \A r \in Accepted(packet) : NewRR(packet.records[r].ttl) \in Entry
  <2> TAKE r \in Accepted(packet)
  <2>1. packet.records[r].ttl \in Ttls
    BY Timing, Zenon DEF Accepted
  <2>2. "Created" \in Lives
    BY Zenon DEF Lives
  <2> QED
    BY <2>1, <2>2, Zenon DEF NewRR, Entry
<1>2. Queue(Fresh(packet))
  BY <1>1, Zenon DEF Queue, Fresh
<1> QED
  BY <1>2, Zenon DEF Queue, Over

(* The trackers: a type that was due has its next query ahead.                *)
LEMMA RequeriedAhead ==
  ASSUME NEW queries \in [Tracked -> Nat]
  PROVE  /\ Requeried(queries) \in [Tracked -> Nat]
         /\ \A t \in Tracked : Requeried(queries)[t] > 0
BY Timing DEF Requeried, ToQuery
-----------------------------------------------------------------------------
(* tick as a whole.                                                           *)
LEMMA TickOK ==
  ASSUME IInv, NEW st, NEW q, NEW queries \in [Tracked -> Nat],
         DOMAIN st = DOMAIN q, Queue(q), TickWith(st, q, queries)
  PROVE  IInv'
<1>1. view = snapshot /\ DOMAIN snapshot \subseteq Services
  BY SnapshotIsMap, Zenon DEF IInv
<1>2. /\ view' = Snapshot(store') /\ snapshot' = Snapshot(store')
      /\ DOMAIN store' = DOMAIN attention'
  BY <1>1, TickKeepsView, Zenon
<1>3. attention' = AfterAttention(q) /\ query_in' = Requeried(queries)
  BY Zenon DEF TickWith
<1>4. /\ Queue(attention')
      /\ \A r \in DOMAIN attention' : attention'[r].age < attention'[r].ttl /\ ~Due(attention'[r])
  BY <1>3, TickKeepsAhead, Zenon
<1>5. query_in' \in [Tracked -> Nat] /\ \A t \in Tracked : query_in'[t] > 0
  BY <1>3, RequeriedAhead, Zenon
<1>6. NothingOverdue'
  BY <1>4, <1>5, Zenon DEF NothingOverdue
<1> QED
  BY <1>2, <1>4, <1>5, <1>6, Zenon DEF IInv

(* An iteration of the driver, whenever it wakes up and whatever it heard.    *)
LEMMA IterateOK ==
  ASSUME IInv, NEW dt \in Waits, NEW packet \in Packets, Iterate(dt, packet)
  PROVE  IInv'
<1> DEFINE st == Over(Heard(packet), store)
           q == Over(Fresh(packet), Aged(attention, dt))
           queries == [t \in Tracked |-> IF t \in packet.questions THEN Refresh
                                         ELSE Sooner(query_in, dt)[t]]
<1>1. Queue(attention) /\ query_in \in [Tracked -> Nat] /\ DOMAIN store = DOMAIN attention
  BY Zenon DEF IInv
<1>2. dt \in Nat
  BY <1>1, TimeoutIsNat, Timing DEF Waits
<1>3. Queue(Aged(attention, dt)) /\ DOMAIN Aged(attention, dt) = DOMAIN attention
  BY <1>1, <1>2, AgedIsQueue, Zenon
<1>4. Queue(q)
  BY <1>3, HeardIsQueue, Zenon
<1>5. DOMAIN st = DOMAIN q
  BY <1>1, <1>3, Zenon DEF Over, Heard, Fresh
<1>6. queries \in [Tracked -> Nat]
  BY <1>1, <1>2, Timing DEF Sooner
<1>7. TickWith(st, q, queries)
  BY Zenon DEF Iterate
<1> HIDE DEF st, q, queries
<1> QED
  BY <1>4, <1>5, <1>6, <1>7, TickOK, Zenon

(* A run begins: time has passed, and every type is due.                      *)
LEMMA StartOK ==
  ASSUME IInv, NEW dt \in {Early, Late}, Start(dt)
  PROVE  IInv'
<1>1. Queue(attention')
      /\ DOMAIN attention' = DOMAIN attention
  BY AgedIsQueue, Timing, Zenon DEF IInv, Start
<1>2. query_in' \in [Tracked -> Nat]
  BY Zenon DEF Start
<1>3. NothingOverdue'
  BY Zenon DEF Start, NothingOverdue
<1>4. UNCHANGED <<store, snapshot, view>>
  BY Zenon DEF Start
<1> QED
  BY <1>1, <1>2, <1>3, <1>4, Zenon DEF IInv

(* The end of a run that was told to restart.                                 *)
LEMMA StopOK ==
  ASSUME IInv, Stop
  PROVE  IInv'
<1>1. DOMAIN None = {} /\ Queue(None)
  BY Zenon DEF None, Queue
<1>2. query_in \in [Tracked -> Nat] /\ TickWith(None, None, query_in)
  BY Zenon DEF IInv, Stop
<1> QED
  BY <1>1, <1>2, TickOK, Zenon

(* The initial state: an empty store.                                         *)
LEMMA InitOK ==
  ASSUME Init
  PROVE  IInv
<1>1. DOMAIN None = {}
  BY Zenon DEF None
<1>2. \A x \in Services : ~Resolvable(None, x)
  BY <1>1, Zenon DEF Resolvable
<1>3. Snapshot(None) = [s \in {} |-> Details(None, s)]
  BY <1>2, Zenon DEF Snapshot
<1>4. Snapshot(None) = None
  BY <1>3, Zenon DEF None
<1>5. Queue(None)
  BY <1>1, Zenon DEF Queue
<1> QED
  BY <1>4, <1>5, Zenon DEF Init, IInv, NothingOverdue

(* The invariant is inductive.                                                *)
LEMMA Inductive == Spec => []IInv
<1>1. Init => IInv
  BY InitOK, Zenon
<1>2. IInv /\ [Next]_vars => IInv'
  <2> SUFFICES ASSUME IInv, [Next]_vars
               PROVE  IInv'
    BY Zenon
  <2>1. CASE \E dt \in Waits, p \in Packets : Iterate(dt, p)
    BY <2>1, IterateOK, Zenon
  <2>2. CASE \E dt \in {Early, Late} : Start(dt)
    BY <2>2, StartOK, Zenon
  <2>3. CASE Stop
    BY <2>3, StopOK, Zenon
  <2>4. CASE RunError
    <3>1. NothingOverdue'
      BY <2>4, Zenon DEF RunError, NothingOverdue
    <3>2. UNCHANGED <<store, attention, snapshot, query_in, view>>
      BY <2>4, Zenon DEF RunError
    <3> QED
      BY <3>1, <3>2, Zenon DEF IInv
  <2>5. CASE UNCHANGED vars
    BY <2>5, Zenon DEF vars, IInv, NothingOverdue
  <2> QED
    BY <2>1, <2>2, <2>3, <2>4, <2>5, Zenon DEF Next
<1> QED
  BY <1>1, <1>2, PTL DEF Spec

(* For any services, packets, lifetimes and delays: after every iteration,    *)
(* restart and failed run the receiver of the events knows exactly the        *)
(* services that can be resolved from the store, and the store and the        *)
(* attention queue hold the same records (ZeroConfig::tick).                  *)
THEOREM ViewFollows == Spec => []ViewIsStore
<1>1. IInv => ViewIsStore
  BY Zenon DEF IInv, ViewIsStore
<1> QED
  BY <1>1, Inductive, PTL

(* For any services, packets, lifetimes and delays: an iteration leaves no    *)
(* record at or past its TTL or with a deadline that has passed, and no type  *)
(* without a query ahead (process_record_attention, tick_tracker_services).   *)
THEOREM AllAhead == Spec => []NothingOverdue
<1>1. IInv => NothingOverdue
  BY Zenon DEF IInv
<1> QED
  BY <1>1, Inductive, PTL

(***************************************************************************)
(* The server's manager.                                                   *)
(***************************************************************************)

\* Found services resolve to one address or none.
Answers(f) == DOMAIN f \subseteq Instances /\ \A n \in DOMAIN f : f[n] = {} \/ \E a \in Addrs : f[n] = {a}

\* A service with a serial that no other has.
Alone(n) == InstanceSerial[n] # {} /\ \A m \in Instances \ {n} : InstanceSerial[m] # InstanceSerial[n]

\* A thread that has just been started has found nothing yet.
MInv ==
    /\ Answers(cache)
    /\ thread \in {"none", "bind"} \/ HooksFollowCache
    /\ thread = "bind" => DOMAIN cache = {}

\* Services with the same key in the registry have the same serial.
LEMMA SameSerial ==
    ASSUME NEW n \in Instances, NEW m \in Instances, InstanceSerial[n] # {}, NEW a, NEW b
    PROVE  /\ M!KeyOf(n, a) = M!LostKey(n)
           /\ M!KeyOf(m, b) = M!LostKey(n) \/ M!LostKey(m) = M!LostKey(n) => InstanceSerial[m] = InstanceSerial[n]
<1> DEFINE One(x) == CHOOSE s \in InstanceSerial[x] : TRUE
<1>1. M!KeyOf(n, a) = <<"serial", One(n)>> /\ M!LostKey(n) = <<"serial", One(n)>>
  BY Zenon DEF M!KeyOf, M!LostKey
<1>2. CASE InstanceSerial[m] = {}
  BY <1>1, <1>2, Zenon DEF M!KeyOf, M!LostKey
<1>3. CASE InstanceSerial[m] # {}
  <2>1. M!KeyOf(m, b) = <<"serial", One(m)>> /\ M!LostKey(m) = <<"serial", One(m)>>
    BY <1>3, Zenon DEF M!KeyOf, M!LostKey
  <2>2. InstanceSerial[n] = {One(n)} /\ InstanceSerial[m] = {One(m)}
    BY <1>3, SerialsAssumption
  <2> HIDE DEF One
  <2> QED
    BY <1>1, <2>1, <2>2
<1> QED
  BY <1>1, <1>2, <1>3, Zenon

\* What Sync puts into the registry under the key of a service that is alone
\* with its serial.
LEMMA Enters ==
    ASSUME NEW reg, NEW found, Answers(found), NEW names \in SUBSET DOMAIN found, NEW n \in DOMAIN found,
           found[n] # {}, Alone(n)
    PROVE  /\ n \in names \/ M!LostKey(n) \in DOMAIN reg => M!LostKey(n) \in DOMAIN M!Registered(reg, found, names)
           /\ n \in names => M!Registered(reg, found, names)[M!LostKey(n)] = found[n]
           /\ n \notin names /\ M!LostKey(n) \in DOMAIN reg =>
                 M!Registered(reg, found, names)[M!LostKey(n)] = reg[M!LostKey(n)]
<1> DEFINE k == M!LostKey(n)
           entries == {<<M!KeyOf(x, a), a>> : x \in {y \in names : found[y] # {}}, a \in Addrs}
           here == {e \in entries : \E x \in names : found[x] = {e[2]} /\ e[1] = M!KeyOf(x, e[2])}
           keys == {e[1] : e \in here}
           new == M!Registered(reg, found, names)
<1>1. /\ DOMAIN new = DOMAIN reg \cup keys
      /\ \A x \in DOMAIN new : new[x] = IF x \in keys THEN {CHOOSE a \in Addrs : <<x, a>> \in here} ELSE reg[x]
  <2>1. new = [x \in DOMAIN reg \cup keys |->
                 IF x \in keys THEN {CHOOSE a \in Addrs : <<x, a>> \in here} ELSE reg[x]]
    BY DEF M!Registered
  <2> HIDE DEF new, keys, here
  <2> QED
    BY <2>1, Zenon
<1>2. n \in Instances /\ names \subseteq Instances
  BY Zenon DEF Answers
<1>3. \A a \in Addrs : <<k, a>> \in here => n \in names /\ found[n] = {a}
  <2> SUFFICES ASSUME NEW a \in Addrs, NEW x \in names, found[x] = {a}, k = M!KeyOf(x, a)
               PROVE  x = n
    OBVIOUS
  <2>1. InstanceSerial[x] = InstanceSerial[n]
    BY <1>2, SameSerial, Zenon DEF Alone
  <2> QED
    BY <1>2, <2>1, Zenon DEF Alone
<1>4. PICK b \in Addrs : found[n] = {b}
  BY Zenon DEF Answers
<1>5. M!KeyOf(n, b) = k
  BY <1>2, SameSerial, Zenon DEF Alone
<1>6. n \in names => <<k, b>> \in here
  BY <1>4, <1>5
<1>7. \A e \in here : e[2] \in Addrs /\ e = <<e[1], e[2]>>
  OBVIOUS
<1>8. k \in keys => \E a \in Addrs : <<k, a>> \in here
  BY <1>7
<1> HIDE DEF k, here, new
<1>9. n \in names => k \in keys /\ (CHOOSE a \in Addrs : <<k, a>> \in here) = b
  <2> SUFFICES ASSUME n \in names
               PROVE  k \in keys /\ (CHOOSE a \in Addrs : <<k, a>> \in here) = b
    BY Zenon
  <2>1. k \in keys
    <3>1. <<k, b>>[1] = k
      BY Zenon
    <3> QED
      BY <1>6, <3>1, Zenon
  <2>2. \A a \in Addrs : <<k, a>> \in here => a = b
    BY <1>3, <1>4, Zenon
  <2>3. <<k, CHOOSE a \in Addrs : <<k, a>> \in here>> \in here /\ (CHOOSE a \in Addrs : <<k, a>> \in here) \in Addrs
    BY <1>6, Zenon
  <2> QED
    BY <2>1, <2>2, <2>3, Zenon
<1>10. n \notin names => k \notin keys
  BY <1>3, <1>8, Zenon
<1> HIDE DEF keys
<1>11. n \in names => k \in DOMAIN new /\ new[k] = found[n]
  BY <1>1, <1>4, <1>9, Zenon
<1>12. n \notin names /\ k \in DOMAIN reg => k \in DOMAIN new /\ new[k] = reg[k]
  BY <1>1, <1>10, Zenon
<1> QED
  BY <1>11, <1>12, Zenon DEF k, new

\* A comparison with the cache leaves hooks and registry with what was found.
LEMMA SyncFollows ==
    ASSUME Answers(cache), HooksFollowCache, thread \notin {"none", "bind"}, NEW found, Answers(found), M!Sync(found)
    PROVE  /\ DOMAIN found \subseteq told'
           /\ \A n \in DOMAIN found :
                found[n] # {} /\ Alone(n) => M!LostKey(n) \in DOMAIN registry' /\ registry'[M!LostKey(n)] = found[n]
<1> DEFINE changed == {n \in DOMAIN found : n \notin DOMAIN cache \/ cache[n] # found[n]}
           lost == DOMAIN cache \ DOMAIN found
           new == M!Registered(registry, found, changed)
           gone == {M!LostKey(n) : n \in lost}
<1>1. told' = (told \cup changed) \ lost /\ registry' = [x \in DOMAIN new \ gone |-> new[x]]
  BY Zenon DEF M!Sync, M!Restrict
<1>2. /\ DOMAIN cache \subseteq told
      /\ \A n \in DOMAIN cache :
           cache[n] # {} /\ Alone(n) => M!LostKey(n) \in DOMAIN registry /\ registry[M!LostKey(n)] = cache[n]
  BY Zenon DEF HooksFollowCache, M!HooksFollowCache, Alone
<1>3. DOMAIN found \subseteq told'
  BY <1>1, <1>2, Zenon
<1>4. ASSUME NEW n \in DOMAIN found, found[n] # {}, Alone(n)
      PROVE  M!LostKey(n) \in DOMAIN registry' /\ registry'[M!LostKey(n)] = found[n]
  <2> DEFINE k == M!LostKey(n)
  <2>1. changed \in SUBSET DOMAIN found
    BY Zenon
  <2>2. /\ n \in changed => k \in DOMAIN new /\ new[k] = found[n]
        /\ n \notin changed /\ k \in DOMAIN registry => k \in DOMAIN new /\ new[k] = registry[k]
    <3> HIDE DEF changed
    <3> QED
      BY <1>4, <2>1, Enters
  <2>3. n \notin changed => k \in DOMAIN registry /\ registry[k] = found[n]
    BY <1>2, <1>4, Zenon
  <2>4. k \notin gone
    <3> SUFFICES ASSUME NEW m \in lost, M!LostKey(m) = k
                 PROVE  FALSE
      BY Zenon
    <3>1. m \in Instances /\ n \in Instances /\ m # n
      BY Zenon DEF Answers
    <3> QED
      BY <1>4, <3>1, SameSerial, Zenon DEF Alone
  <2> HIDE DEF new, gone, changed, k
  <2> QED
    BY <1>1, <2>2, <2>3, <2>4, Zenon DEF k
<1> QED
  BY <1>3, <1>4, Zenon

\* Nothing is cached before the manager is started.
LEMMA ManagerInit == M!Init => MInv
BY Zenon DEF M!Init, M!None, MInv, Answers

\* Every step of the owner and of the thread keeps hooks and cache together.
LEMMA ManagerStep ==
    ASSUME MInv, [M!Next]_(M!vars)
    PROVE  MInv'
<1> USE DEF MInv
<1>1. CASE UNCHANGED M!vars
  BY <1>1, Zenon DEF M!vars, HooksFollowCache, M!HooksFollowCache, Answers
<1>2. CASE M!StartDiscovery
  BY <1>2, Zenon DEF M!StartDiscovery, M!None, Answers
<1>3. CASE M!StopDiscovery
  BY <1>3, Zenon DEF M!StopDiscovery, HooksFollowCache, M!HooksFollowCache, Answers
<1>4. ASSUME NEW ok \in BOOLEAN, M!Bind(ok)
      PROVE  MInv'
  BY <1>4, Zenon DEF M!Bind, HooksFollowCache, M!HooksFollowCache, Answers
<1>5. ASSUME NEW found \in M!Results, M!Query(found)
      PROVE  MInv'
  <2>1. Answers(found)
    <3>1. PICK names \in SUBSET Instances : found \in [names -> {{}} \cup {{a} : a \in Addrs}]
      BY <1>5, Zenon DEF M!Results
    <3> QED
      BY <3>1, Zenon DEF Answers
  <2>2. thread \in {"Classic", "TlsConnect"} /\ M!Sync(found) /\ thread' = M!After(thread)
    BY <1>5, Zenon DEF M!Query
  <2>3. cache' = found /\ thread' \in {"TlsConnect", "sleep"}
    BY <2>2, Zenon DEF M!Sync, M!After
  <2>4. HooksFollowCache'
    <3>1. /\ DOMAIN found \subseteq told'
          /\ \A n \in DOMAIN found :
               found[n] # {} /\ Alone(n) => M!LostKey(n) \in DOMAIN registry' /\ registry'[M!LostKey(n)] = found[n]
      <4>1. thread \notin {"none", "bind"}
        BY <2>2, Zenon
      <4> QED
        BY <2>1, <2>2, <4>1, SyncFollows, Zenon
    <3> QED
      BY <2>3, <3>1, Zenon DEF HooksFollowCache, M!HooksFollowCache, Alone, M!LostKey
  <2> QED
    BY <2>1, <2>3, <2>4, Zenon DEF Answers
<1>6. CASE M!QueryFails
  BY <1>6, Zenon DEF M!QueryFails, M!After, HooksFollowCache, M!HooksFollowCache, Answers
<1>7. CASE M!Sleep
  BY <1>7, Zenon DEF M!Sleep, HooksFollowCache, M!HooksFollowCache, Answers
<1> QED
  BY <1>1, <1>2, <1>3, <1>4, <1>5, <1>6, <1>7, Zenon DEF M!Next, M!Threads

\* Whatever services answer, with whichever serials and addresses, and however
\* often the manager is stopped and started: its hooks and its registry entries
\* follow its cache (server/adb_mdns.rs sync_discovered_services).
THEOREM ManagerFollowsCache == M!Spec => []HooksFollowCache
<1>1. MInv => HooksFollowCache
  BY Zenon DEF MInv, HooksFollowCache, M!HooksFollowCache
<1> QED
  BY <1>1, ManagerInit, ManagerStep, PTL DEF M!Spec
=============================================================================
