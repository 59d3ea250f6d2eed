----------------------------- MODULE ServerMdns -----------------------------
(* The discovery manager of the server (server/adb_mdns.rs): a thread that    *)
(* asks for classic and for TLS services in turn, compares what answered with *)
(* its cache, calls the hooks and keeps registry entries; and the owner that  *)
(* starts and stops it.                                                       *)
EXTENDS Integers, FiniteSets, Functions

CONSTANTS Instances,  \* instance names
          TypeOf,     \* TypeOf[n] \in {"Classic", "TlsConnect"}
          Serial,     \* Serial[n]: {} or {serial} of the TXT record
          Addrs       \* addresses a service may resolve to

VARIABLES running,    \* the flag shared by the owner and the thread
          thread,     \* "none", "bind", "Classic", "TlsConnect", "sleep"
          joining,    \* stop_discovery waits for the thread
          cache,      \* the thread's cache: name |-> {} or {address}
          registry,   \* registry entries of discovered devices: key |-> address
          told        \* instances discovered and not lost, to the hooks

vars == <<running, thread, joining, cache, registry, told>>

None == [n \in {} |-> {}]

Init == /\ running = FALSE /\ thread = "none" /\ joining = FALSE
        /\ cache = None /\ registry = None /\ told = {}

-----------------------------------------------------------------------------
StartDiscovery ==
  /\ ~running /\ ~joining
  /\ running' = TRUE /\ thread' = "bind" /\ cache' = None
  /\ UNCHANGED <<joining, registry, told>>

(* stop_discovery: the flag, then the join.                                   *)
StopDiscovery ==
  /\ running
  /\ running' = FALSE /\ joining' = (thread # "none")
  /\ UNCHANGED <<thread, cache, registry, told>>

Bind(ok) ==
  /\ thread = "bind"
  /\ thread' = IF ok /\ running THEN "Classic" ELSE "none"
  /\ joining' = (joining /\ thread' # "none")
  /\ UNCHANGED <<running, cache, registry, told>>

(* update_registry_device: a service without an address is put off; one       *)
(* without a serial is entered under its address.                             *)
KeyOf(n, addr) == IF Serial[n] # {} THEN <<"serial", CHOOSE s \in Serial[n] : TRUE>> ELSE <<"addr", addr>>
Registered(reg, found, names) ==
  LET entries == {<<KeyOf(n, a), a>> : n \in {x \in names : found[x] # {}}, a \in Addrs}
      here == {e \in entries : \E n \in names : found[n] = {e[2]} /\ e[1] = KeyOf(n, e[2])}
      keys == {e[1] : e \in here}
  IN [k \in DOMAIN reg \cup keys |->
        IF k \in keys THEN {CHOOSE a \in Addrs : <<k, a>> \in here} ELSE reg[k]]

(* remove_registry_device: by serial, or by the instance name.                *)
LostKey(n) == IF Serial[n] # {} THEN <<"serial", CHOOSE s \in Serial[n] : TRUE>> ELSE <<"name", n>>

(* Defective form of Sync: what did not change counts as lost.                *)
SyncUnchangedLost(found) ==
  LET changed == {n \in DOMAIN found : n \notin DOMAIN cache \/ cache[n] # found[n]}
      lost == DOMAIN cache \ changed
  IN /\ cache' = found
     /\ told' = (told \cup changed) \ lost
     /\ registry' = Restrict(Registered(registry, found, changed),
                             DOMAIN Registered(registry, found, changed) \ {LostKey(n) : n \in lost})

(* sync_discovered_services: what is new or changed is cached, announced and  *)
(* registered, then whatever is cached and not among these results is lost.   *)
Sync(found) ==
  LET changed == {n \in DOMAIN found : n \notin DOMAIN cache \/ cache[n] # found[n]}
      lost == DOMAIN cache \ DOMAIN found
  IN /\ cache' = found
     /\ told' = (told \cup changed) \ lost
     /\ registry' = Restrict(Registered(registry, found, changed),
                             DOMAIN Registered(registry, found, changed) \ {LostKey(n) : n \in lost})

After(t) == IF t = "Classic" THEN "TlsConnect" ELSE "sleep"

(* One query of run_discovery_loop: the answers of the type, each resolved or *)
(* not, and the comparison with the cache; a query that cannot be sent is     *)
(* passed over. The flag is looked at after a round only.                     *)
Query(found) ==
  /\ thread \in {"Classic", "TlsConnect"}
  /\ \A n \in DOMAIN found : TypeOf[n] = thread
  /\ Sync(found)
  /\ thread' = After(thread)
  /\ UNCHANGED <<running, joining>>

QueryFails ==
  /\ thread \in {"Classic", "TlsConnect"}
  /\ thread' = After(thread)
  /\ UNCHANGED <<running, joining, cache, registry, told>>

Sleep ==
  /\ thread = "sleep"
  /\ thread' = IF running THEN "Classic" ELSE "none"
  /\ joining' = (joining /\ running)
  /\ UNCHANGED <<running, cache, registry, told>>

Results == UNION {[names -> {{}} \cup {{a} : a \in Addrs}] : names \in SUBSET Instances}
Threads == Bind(TRUE) \/ (\E found \in Results : Query(found)) \/ QueryFails \/ Sleep

Next == StartDiscovery \/ StopDiscovery \/ Bind(FALSE) \/ Threads

Spec == Init /\ [][Next]_vars

-----------------------------------------------------------------------------
(* The hooks were told of every service in the cache of the thread and not of *)
(* its loss, and a service with a serial and an address that is alone with    *)
(* that serial has its registry entry, at that address.                       *)
HooksFollowCache ==
  thread \notin {"none", "bind"} =>
    /\ DOMAIN cache \subseteq told
    /\ \A n \in DOMAIN cache :
         (cache[n] # {} /\ Serial[n] # {} /\ \A m \in Instances \ {n} : Serial[m] # Serial[n])
           => LostKey(n) \in DOMAIN registry /\ registry[LostKey(n)] = cache[n]

(* A started thread works while the flag is up, and stop_discovery returns.   *)
StopReturns == joining ~> ~joining

=============================================================================
