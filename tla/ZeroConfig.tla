----------------------------- MODULE ZeroConfig -----------------------------
(* The mDNS engine of crate adb-mdns: the resource records it heard (store),  *)
(* the queue of records that need attention, the snapshot of resolvable       *)
(* services, and the Create, Update and Delete events the difference of two   *)
(* snapshots gives the server.                                                *)
(* Time is counted in twentieths of the shortest TTL, so that 80%, 85%, 90%,  *)
(* 95% and 100% of a lifetime are whole numbers; an entry holds its age       *)
(* instead of the instant it was created on.                                  *)
(* The heap behind the queue is module IndexMinPQ; here the queue is the map  *)
(* from records to deadlines that the heap is shown to implement.             *)
EXTENDS Integers, FiniteSets, FiniteSetsExt, Functions

CONSTANTS Services,    \* fully qualified instance names
          TypeOf,      \* TypeOf[s]: the service type of s
          Tracked,     \* the service types the engine tracks
          Hosts, Addrs, Ports, Txts,
          Ttls,        \* lifetimes of records, in units; 0 is a goodbye
          Packets,     \* what is multicast: questions for types, and a map from records
                       \* to data and TTL
          Refresh,     \* TRACKER_SERVICE_REFRESH_INTERVAL
          Idle,        \* the pause when no record waits
          MinWait, MaxWait, \* the clamp on the poll timeout
          Early, Late  \* when a packet wakes the driver; how long a wake-up may be delayed

(* Lifetimes are unsigned, the intervals are durations, and a type that was   *)
(* just asked for is not asked for again at once.                             *)
ASSUME Timing ==
  /\ Ttls \subseteq Nat /\ Refresh \in Nat \ {0}
  /\ {Idle, MinWait, MaxWait, Early, Late} \subseteq Nat
  /\ \A p \in Packets : \A r \in DOMAIN p.records : p.records[r].ttl \in Ttls

VARIABLES phase,       \* "down": between two runs of the driver; "started"; "polling"
          store,       \* record |-> data
          attention,   \* record |-> [age, ttl, life]
          snapshot,    \* last_snap_shot
          query_in,    \* tracked type |-> time to its next query
          view,        \* what the receiver of the events has heard
          turn         \* changes with each iteration that took time

vars == <<phase, store, attention, snapshot, query_in, view, turn>>

-----------------------------------------------------------------------------
(* Records. Two records are the same if kind and name agree, and the address  *)
(* for A and AAAA; target, port and attributes are data.                      *)
PTR(s) == <<"PTR", s>>
SRV(s) == <<"SRV", s>>
TXT(s) == <<"TXT", s>>
A(h, a) == <<"A", h, a>>
Records == {PTR(s) : s \in Services} \cup {SRV(s) : s \in Services}
             \cup {TXT(s) : s \in Services} \cup {A(h, a) : h \in Hosts, a \in Addrs}
DataOf(r) == CASE r[1] = "SRV" -> Hosts \X Ports
               [] r[1] = "TXT" -> Txts \X {"txt"}
               [] OTHER -> {<<>>}

Lives == {"Created", "Probed80", "Probed85", "Probed90", "Probed95"}
next_ttl_fraction(life) == CASE life = "Created"  -> 16
                             [] life = "Probed80" -> 17
                             [] life = "Probed85" -> 18
                             [] life = "Probed90" -> 19
                             [] life = "Probed95" -> 20
NewRR(ttl) == [age |-> 0, ttl |-> ttl, life |-> "Created"]
\* attention_needed_on - now, in twentieths of a unit
AttentionIn(e) == e.ttl * next_ttl_fraction(e.life) - 20 * e.age
Due(e) == AttentionIn(e) <= 0

(* The lifecycle fraction is outside 0.0..1.0 at its end, and not a number    *)
(* for a TTL of 0; below 80% is the branch that should never be taken.        *)
Past(e, twentieths) == 20 * e.age >= twentieths * e.ttl
Gone(e) == e.age >= e.ttl \/ ~Past(e, 16)
ProbeOf(e) == IF Past(e, 19) THEN "Probed95"
              ELSE IF Past(e, 18) THEN "Probed90"
              ELSE IF Past(e, 17) THEN "Probed85"
              ELSE "Probed80"

-----------------------------------------------------------------------------
(* Store::snapshot: a service needs its PTR, its SRV and an address of the    *)
(* SRV's target; TXT is optional.                                             *)
AddrsOf(st, h) == {a \in Addrs : A(h, a) \in DOMAIN st}
Resolvable(st, s) == /\ {PTR(s), SRV(s)} \subseteq DOMAIN st
                     /\ AddrsOf(st, st[SRV(s)][1]) # {}
Details(st, s) == [host |-> st[SRV(s)][1], port |-> st[SRV(s)][2],
                   addrs |-> AddrsOf(st, st[SRV(s)][1]),
                   txt |-> IF TXT(s) \in DOMAIN st THEN {st[TXT(s)][1]} ELSE {}]
Snapshot(st) == [s \in {x \in Services : Resolvable(st, x)} |-> Details(st, s)]

(* create_diff_commands.                                                      *)
Created(old, new) == DOMAIN new \ DOMAIN old
Deleted(old, new) == DOMAIN old \ DOMAIN new
Updated(old, new) == {s \in DOMAIN old \cap DOMAIN new : old[s] # new[s]}
Diff(old, new) == {<<"Create", s>> : s \in Created(old, new)}
                    \cup {<<"Update", s>> : s \in Updated(old, new)}
                    \cup {<<"Delete", s>> : s \in Deleted(old, new)}

(* The receiver of the events: Create and Update carry the details.           *)
Receive(v, events, new) ==
  [s \in {x \in Services : \/ x \in DOMAIN v /\ <<"Delete", x>> \notin events
                           \/ {<<"Create", x>>, <<"Update", x>>} \cap events # {}}
     |-> IF {<<"Create", s>>, <<"Update", s>>} \cap events # {} THEN new[s] ELSE v[s]]

-----------------------------------------------------------------------------
None == [r \in {} |-> <<>>]

Init == /\ phase = "down"
        /\ store = None /\ attention = None /\ snapshot = None /\ view = None
        /\ query_in = [t \in Tracked |-> 0]
        /\ turn = 0

(* process_records: services of other types are passed over, addresses are    *)
(* always kept. add_rr enters each record in the queue and in the store.      *)
Accepts(r) == r[1] = "A" \/ TypeOf[r[2]] \in Tracked
Accepted(packet) == {r \in DOMAIN packet.records : Accepts(r)}
Over(f, g) == [x \in DOMAIN f \cup DOMAIN g |-> IF x \in DOMAIN f THEN f[x] ELSE g[x]]
Fresh(packet) == [r \in Accepted(packet) |-> NewRR(packet.records[r].ttl)]
Heard(packet) == [r \in Accepted(packet) |-> packet.records[r].data]

(* An age beyond the TTL is no different from the TTL.                        *)
Older(e, dt) == IF e.age + dt > e.ttl THEN e.ttl ELSE e.age + dt
Aged(q, dt) == [r \in DOMAIN q |-> [q[r] EXCEPT !.age = Older(q[r], dt)]]
Sooner(q, dt) == [t \in Tracked |-> IF q[t] > dt THEN q[t] - dt ELSE 0]

(* Defective forms: every probe is the first; a probed record is not queued again. *)
ProbedOnce(q) == [r \in DOMAIN q |-> IF Due(q[r]) THEN [q[r] EXCEPT !.life = "Probed80"]
                                     ELSE q[r]]
AfterAttentionOnce(q) == Restrict(q, {r \in DOMAIN q : ~Due(q[r])})

(* ZeroConfig::tick on the records: whatever is due is removed if it expired  *)
(* and otherwise asked for again and queued at its next fraction.             *)
Removed(q) == {r \in DOMAIN q : Due(q[r]) /\ Gone(q[r])}
Probed(q) == [r \in DOMAIN q |-> IF Due(q[r]) THEN [q[r] EXCEPT !.life = ProbeOf(q[r])]
                                 ELSE q[r]]
AfterAttention(q) == Restrict(Probed(q), DOMAIN q \ Removed(q))

(* tick_tracker_services: periodic refresh is on, run() turns it on.          *)
ToQuery(queries) == {t \in Tracked : queries[t] <= 0}

Requeried(queries) == [t \in Tracked |-> IF t \in ToQuery(queries) THEN Refresh ELSE queries[t]]

(* Defective form of TickWith: the snapshot is only taken over when services appear. *)
TickWithOldSnapshot(st, q, queries) ==
  LET kept == Restrict(st, DOMAIN st \ Removed(q))
      new  == Snapshot(kept)
  IN /\ store' = kept
     /\ attention' = AfterAttention(q)
     /\ snapshot' = IF Created(snapshot, new) # {} THEN new ELSE snapshot
     /\ view' = Receive(view, Diff(snapshot, new), new)
     /\ query_in' = Requeried(queries)

(* tick: attention, difference with the last snapshot, trackers, and the      *)
(* commands, which the driver carries out at once.                            *)
TickWith(st, q, queries) ==
  LET kept == Restrict(st, DOMAIN st \ Removed(q))
      new  == Snapshot(kept)
  IN /\ store' = kept
     /\ attention' = AfterAttention(q)
     /\ snapshot' = new
     /\ view' = Receive(view, Diff(snapshot, new), new)
     /\ query_in' = Requeried(queries)

(* calculate_next_attention_duration and the clamp of the poll timeout.       *)
NextAttention == IF DOMAIN attention = {} THEN Idle
                 ELSE Min({Max({(AttentionIn(attention[r]) + 19) \div 20, 0}) : r \in DOMAIN attention})
Timeout == Max({MinWait, Min({MaxWait, NextAttention} \cup {query_in[t] : t \in Tracked})})

(* ZeroConfigDriver::process_events: set_time, then every packet waiting on   *)
(* the sockets (process_queries puts off the query another host just made),   *)
(* then tick. Several packets amount to one with the last of each record.     *)
Iterate(dt, packet) ==
  /\ phase # "down"
  /\ phase' = "polling"
  /\ turn' = IF dt > 0 THEN 1 - turn ELSE turn
  /\ TickWith(Over(Heard(packet), store),
              Over(Fresh(packet), Aged(attention, dt)),
              [t \in Tracked |-> IF t \in packet.questions THEN Refresh
                              ELSE Sooner(query_in, dt)[t]])

(* run: on_start makes every tracked type due for a query.                    *)
Start(dt) ==
  /\ phase = "down"
  /\ phase' = "started"
  /\ attention' = Aged(attention, dt)
  /\ query_in' = [t \in Tracked |-> 0]
  /\ UNCHANGED <<store, snapshot, view, turn>>

(* The run that a Restart command ends flushes the cache: on_stop.            *)
Stop ==
  /\ phase # "down"
  /\ phase' = "down"
  /\ TickWith(None, None, query_in)
  /\ UNCHANGED turn

(* A run that ends with an error (poll, register) skips on_stop.              *)
RunError ==
  /\ phase # "down"
  /\ phase' = "down"
  /\ UNCHANGED <<store, attention, snapshot, query_in, view, turn>>

Waits == {0, Early, Timeout, Timeout + Late}

Next == \/ \E dt \in Waits, p \in Packets : Iterate(dt, p)
        \/ \E dt \in {Early, Late} : Start(dt)
        \/ Stop
        \/ RunError

(* Iterations that take time go on for ever: run_forever starts each run anew, *)
(* a run polls with a timeout of at least MinWait, and not all runs fail.      *)
Fairness == []<>(turn = 0) /\ []<>(turn = 1)
Spec == Init /\ [][Next]_vars /\ Fairness
-----------------------------------------------------------------------------
(* The receiver of the Create, Update and Delete events knows exactly the     *)
(* services that can be resolved from the records in the store, with their    *)
(* current details, through restarts and failed runs.  And every record of    *)
(* the store waits in the attention queue and the other way round: one        *)
(* outside the queue would never expire, one outside the store would be asked *)
(* for though nothing depends on it.                                          *)
ViewIsStore == view = Snapshot(store) /\ DOMAIN store = DOMAIN attention

(* After an iteration nothing is overdue: every record left has not reached   *)
(* its TTL and has its next deadline ahead, however late the iteration came,  *)
(* and every tracked type has a query ahead.                                  *)
NothingOverdue ==
  phase = "polling" =>
    /\ \A r \in DOMAIN attention : attention[r].age < attention[r].ttl /\ ~Due(attention[r])
    /\ \A t \in Tracked : query_in[t] > 0

(* No record stays without being heard again: infinitely often it is absent   *)
(* or was just heard, so a service whose device fell silent is deleted.       *)
Forgotten == \A r \in Records : []<>(r \in DOMAIN store => r \in DOMAIN attention /\ attention[r].age = 0)
=============================================================================
