--------------------------- MODULE AdbServerProofs ---------------------------
(***************************************************************************)
(* Proofs, for every value of the constants, that AdbServer keeps its      *)
(* types, that transport ids are unique and never reused, that only the    *)
(* names of connect targets can be duplicated, and that nothing but the    *)
(* USB watcher and host:disconnect touches a USB entry.                    *)
(***************************************************************************)
EXTENDS AdbServer, TLAPS, FiniteSetTheorems, WellFoundedInduction

IdsOK(r) ==
    \A d, e \in r.devices :
        /\ d.transport_id < r.next_id
        /\ d.transport_id = e.transport_id => d = e

Renamed == Targets \ {AddrString[a] : a \in Addrs}

DupOK(r) ==
    \A d, e \in r.devices : d.serial = e.serial /\ d # e => d.serial \in Renamed

\* Only devices found on the bus have the USB origin.
UsbOK(r) == \A d \in r.devices : d.origin = Usb => d.serial \in UsbSerials

RegInv(r) == r \in Registry /\ IdsOK(r) /\ DupOK(r) /\ UsbOK(r)

\* From r to q ids only grow, and old ones are not handed out again.
Kept(r, q) ==
    /\ r.next_id =< q.next_id
    /\ \A d \in q.devices :
          \/ d.transport_id >= r.next_id
          \/ \E e \in r.devices : e.transport_id = d.transport_id

SameUsb(r, q) == {d \in q.devices : d.origin = Usb} = {d \in r.devices : d.origin = Usb}

-----------------------------------------------------------------------------
(* What each registry update preserves *)

\* remove_device, remove_all_tcp_devices and every other `retain`.
LEMMA Retain ==
    ASSUME NEW r, RegInv(r), NEW S \in SUBSET r.devices
    PROVE  RegInv([r EXCEPT !.devices = S]) /\ Kept(r, [r EXCEPT !.devices = S])
<1> DEFINE q == [r EXCEPT !.devices = S]
<1>1. q.devices = S /\ q.next_id = r.next_id /\ q \in Registry
  BY Zenon DEF RegInv, Registry
<1>2. IdsOK(q) /\ DupOK(q) /\ UsbOK(q)
  BY <1>1, Zenon DEF RegInv, IdsOK, DupOK, UsbOK
<1>3. Kept(r, q)
  BY <1>1 DEF RegInv, Registry, Kept
<1> QED
  BY <1>1, <1>2, <1>3 DEF RegInv

\* `devices.push` with the next id, of a serial that is not in the table.
LEMMA PushOK ==
    ASSUME NEW r, RegInv(r), NEW s \in Serials, NEW a \in Addrs, ~Listed(r, s)
    PROVE  RegInv(Push(r, s, a)) /\ Kept(r, Push(r, s, a)) /\ SameUsb(r, Push(r, s, a))
<1> DEFINE q == Push(r, s, a)
           new == [serial |-> s, transport_id |-> r.next_id, state |-> "Device", origin |-> a]
<1>1. r.devices \in SUBSET DeviceEntry /\ r.next_id \in Nat
  BY Zenon DEF RegInv, Registry
<1>2. q.devices = r.devices \cup {new} /\ q.next_id = r.next_id + 1
  BY Zenon DEF Push
<1>3. new \in DeviceEntry
  BY <1>1, Zenon DEF DeviceEntry, DeviceState, DeviceOrigin
<1>4. q \in Registry
  BY <1>1, <1>3 DEF Push, Registry
<1>5. IdsOK(q)
  BY <1>1, <1>2 DEF RegInv, IdsOK, DeviceEntry
<1>6. DupOK(q)
  BY <1>2 DEF RegInv, DupOK, Listed
<1>7. new.origin # Usb
  BY RegistryAssumption, Zenon
<1>8. UsbOK(q) /\ SameUsb(r, q)
  BY <1>2, <1>7, Zenon DEF RegInv, UsbOK, SameUsb
<1>9. Kept(r, q)
  BY <1>1, <1>2 DEF Kept
<1> QED
  BY <1>4, <1>5, <1>6, <1>8, <1>9, Zenon DEF RegInv

\* An update in place of the state and perhaps the origin of one entry.
LEMMA SetStateOK ==
    ASSUME NEW r, RegInv(r), NEW s, NEW st \in DeviceState
    PROVE  /\ RegInv(set_state(r, s, st)) /\ Kept(r, set_state(r, s, st))
           /\ s \notin UsbSerials => SameUsb(r, set_state(r, s, st))
<1> DEFINE q == set_state(r, s, st)
           F(d) == IF IsFirst(r, d, s) THEN [d EXCEPT !.state = st] ELSE d
<1>1. r.devices \in SUBSET DeviceEntry /\ r.next_id \in Nat
  BY Zenon DEF RegInv, Registry
<1>2. q.devices = {F(d) : d \in r.devices} /\ q.next_id = r.next_id
  BY Zenon DEF set_state, RegInv, Registry
<1>3. \A d \in r.devices :
        /\ F(d) \in DeviceEntry
        /\ F(d).serial = d.serial /\ F(d).transport_id = d.transport_id /\ F(d).origin = d.origin
        /\ d.serial # s => F(d) = d
  BY <1>1, Zenon DEF DeviceEntry, IsFirst
<1> HIDE DEF F
<1>4. q \in Registry
  BY <1>1, <1>2, <1>3, Zenon DEF set_state, Registry, RegInv
<1>5. IdsOK(q)
  BY <1>2, <1>3 DEF RegInv, IdsOK
<1>6. DupOK(q)
  BY <1>2, <1>3 DEF RegInv, DupOK
<1>7. UsbOK(q)
  BY <1>2, <1>3 DEF RegInv, UsbOK
<1>8. Kept(r, q)
  BY <1>1, <1>2, <1>3 DEF Kept
<1>9. s \notin UsbSerials => SameUsb(r, q)
  BY <1>2, <1>3 DEF RegInv, UsbOK, SameUsb
<1> QED
  BY <1>4, <1>5, <1>6, <1>7, <1>8, <1>9, Zenon DEF RegInv

\* What reconnecting an entry keeps.
LEMMA ReconnectedOK ==
    ASSUME NEW r, RegInv(r), NEW s, NEW a \in Addrs,
           \A d \in r.devices : IsFirst(r, d, s) => d.origin # Usb
    PROVE  RegInv(Reconnected(r, s, a)) /\ Kept(r, Reconnected(r, s, a))
           /\ SameUsb(r, Reconnected(r, s, a))
<1> DEFINE q == Reconnected(r, s, a)
           F(d) == IF IsFirst(r, d, s) THEN [d EXCEPT !.state = "Device", !.origin = a] ELSE d
<1>1. r.devices \in SUBSET DeviceEntry /\ r.next_id \in Nat
  BY Zenon DEF RegInv, Registry
<1>2. q.devices = {F(d) : d \in r.devices} /\ q.next_id = r.next_id
  BY Zenon DEF Reconnected, RegInv, Registry
<1>3. \A d \in r.devices :
        /\ F(d) \in DeviceEntry
        /\ F(d).serial = d.serial /\ F(d).transport_id = d.transport_id
        /\ F(d) = d \/ (d.origin # Usb /\ F(d).origin = a)
  BY <1>1, Zenon DEF DeviceEntry, DeviceOrigin, DeviceState
<1>10. a # Usb
  BY RegistryAssumption, Zenon
<1> HIDE DEF F
<1>4. q \in Registry
  BY <1>1, <1>2, <1>3, ZenonT(60) DEF Reconnected, Registry, RegInv
<1>5. IdsOK(q)
  BY <1>2, <1>3 DEF RegInv, IdsOK
<1>6. DupOK(q)
  BY <1>2, <1>3 DEF RegInv, DupOK
<1>7. UsbOK(q)
  BY <1>2, <1>3, <1>10, Zenon DEF RegInv, UsbOK
<1>8. Kept(r, q)
  BY <1>1, <1>2, <1>3 DEF Kept
<1>9. SameUsb(r, q)
  BY <1>2, <1>3, <1>10, Zenon DEF SameUsb
<1> QED
  BY <1>4, <1>5, <1>6, <1>7, <1>8, <1>9, Zenon DEF RegInv

\* No entry with a USB origin has a serial that is not a USB serial.
LEMMA NotUsb ==
    ASSUME NEW r, RegInv(r), NEW s, s \notin UsbSerials,
           NEW d \in r.devices, IsFirst(r, d, s)
    PROVE  d.origin # Usb
BY Zenon DEF RegInv, UsbOK, IsFirst

\* Entering a device, or updating the one of that serial.
LEMMA UpsertOK ==
    ASSUME NEW r, RegInv(r), NEW a \in Addrs
    PROVE  LET q == upsert_tcp_device(r, a)
           IN RegInv(q) /\ Kept(r, q) /\ SameUsb(r, q)
<1>1. AddrString[a] \in Serials /\ AddrString[a] \notin UsbSerials
  BY RegistryAssumption, Zenon DEF Serials
<1>2. CASE Listed(r, AddrString[a])
  BY <1>1, <1>2, NotUsb, ReconnectedOK, Zenon DEF upsert_tcp_device
<1>3. CASE ~Listed(r, AddrString[a])
  BY <1>1, <1>3, PushOK, Zenon DEF upsert_tcp_device
<1> QED
  BY <1>2, <1>3, Zenon

\* Renaming the entry of an address to the target that resolved to it.
LEMMA RenameOK ==
    ASSUME NEW r, RegInv(r), NEW t \in Targets, NEW i \in 1 .. Len(Resolve[t])
    PROVE  LET q == rename_device(r, AddrString[Resolve[t][i]], t)
           IN RegInv(q) /\ Kept(r, q) /\ SameUsb(r, q)
<1> DEFINE a == Resolve[t][i]
           ip == AddrString[a]
           q == rename_device(r, ip, t)
           F(d) == IF IsFirst(r, d, ip) THEN [d EXCEPT !.serial = t] ELSE d
<1>0. a \in Addrs
  BY RegistryAssumption
<1>1. r.devices \in SUBSET DeviceEntry /\ r.next_id \in Nat
  BY Zenon DEF RegInv, Registry
<1>2. q.devices = {F(d) : d \in r.devices} /\ q.next_id = r.next_id
  BY Zenon DEF rename_device, RegInv, Registry
<1>3. t \in Serials /\ t \notin UsbSerials /\ ip \notin UsbSerials
  BY <1>0, RegistryAssumption, Zenon DEF Serials
<1>4. \A d \in r.devices :
        /\ F(d) \in DeviceEntry
        /\ F(d).transport_id = d.transport_id /\ F(d).origin = d.origin
        /\ F(d) = d \/ (F(d).serial = t /\ d.origin # Usb)
  BY <1>1, <1>3, NotUsb, Zenon DEF DeviceEntry
<1>5. t \notin Renamed => \A d \in r.devices : F(d) = d
  <2> SUFFICES ASSUME t \notin Renamed PROVE \A d \in r.devices : F(d) = d
    BY Zenon
  <2>1. PICK b \in Addrs : AddrString[b] = t
    BY Zenon DEF Renamed
  <2>2. Resolve[t] = <<b>>
    BY <2>1, RegistryAssumption, Zenon
  <2>3. a = b /\ ip = t
    BY <2>1, <2>2
  <2> QED
    BY <1>1, <2>3, Zenon DEF IsFirst, DeviceEntry
<1> HIDE DEF F, ip, a
<1>6. q \in Registry
  BY <1>1, <1>2, <1>4, Zenon DEF rename_device, Registry, RegInv
<1>7. IdsOK(q)
  BY <1>2, <1>4 DEF RegInv, IdsOK
<1>8. DupOK(q)
  BY <1>2, <1>4, <1>5 DEF RegInv, DupOK
<1>9. UsbOK(q) /\ SameUsb(r, q)
  BY <1>2, <1>4 DEF RegInv, UsbOK, SameUsb
<1>10. Kept(r, q)
  BY <1>1, <1>2, <1>4 DEF Kept
<1> QED
  BY <1>6, <1>7, <1>8, <1>9, <1>10, Zenon DEF RegInv, ip, a

\* The enumeration of the bus: pulled devices leave, new ones get fresh ids.
LEMMA RefreshUsbOK ==
    ASSUME NEW r, RegInv(r), NEW found \in SUBSET UsbSerials,
           NEW ids \in Numberings(r, NewUsb(r, found))
    PROVE  LET q == refresh_usb_devices(r, found, ids) IN RegInv(q) /\ Kept(r, q)
<1> DEFINE q == refresh_usb_devices(r, found, ids)
           new == NewUsb(r, found)
           F(s) == [serial |-> s, transport_id |-> ids[s], state |-> "Device", origin |-> Usb]
           old == {d \in r.devices : d.origin = Usb => d.serial \in found}
<1>1. r.devices \in SUBSET DeviceEntry /\ r.next_id \in Nat
  BY Zenon DEF RegInv, Registry
<1>2. new \subseteq UsbSerials /\ \A s \in new : ~Listed(r, s)
  BY Zenon DEF NewUsb
<1>3. Cardinality(new) \in Nat
  BY <1>2, RegistryAssumption, FS_Subset, FS_CardinalityType, Zenon
<1>4. /\ \A s \in new : ids[s] \in r.next_id .. (r.next_id + Cardinality(new) - 1)
      /\ \A s, t \in new : ids[s] = ids[t] => s = t
  BY Zenon DEF Numberings
<1>5. q.devices = old \cup {F(s) : s \in new} /\ q.next_id = r.next_id + Cardinality(new)
  BY Zenon DEF refresh_usb_devices
<1>6. \A s \in new :
        /\ F(s) \in DeviceEntry
        /\ F(s).serial = s /\ F(s).transport_id = ids[s]
        /\ ids[s] >= r.next_id /\ ids[s] < q.next_id
  BY <1>1, <1>2, <1>3, <1>4, <1>5 DEF DeviceEntry, DeviceOrigin, DeviceState, Serials
<1>7. \A d \in old : d \in r.devices /\ d \in DeviceEntry /\ d.transport_id < r.next_id
  BY <1>1, Zenon DEF RegInv, IdsOK
<1> HIDE DEF F, new, old
<1>8. q \in Registry
  BY <1>1, <1>3, <1>5, <1>6, <1>7 DEF refresh_usb_devices, Registry, new
<1>9. IdsOK(q)
  <2> SUFFICES ASSUME NEW d \in q.devices, NEW e \in q.devices
               PROVE  /\ d.transport_id < q.next_id
                      /\ d.transport_id = e.transport_id => d = e
    BY Zenon DEF IdsOK
  <2>1. CASE d \in old /\ e \in old
    BY <2>1, <1>1, <1>3, <1>5, <1>7, SMTT(60) DEF RegInv, IdsOK, DeviceEntry
  <2>2. CASE d \in old /\ e \notin old
    BY <2>2, <1>1, <1>3, <1>4, <1>5, <1>6, <1>7, SMTT(60) DEF DeviceEntry
  <2>3. CASE d \notin old /\ e \in old
    BY <2>3, <1>1, <1>3, <1>4, <1>5, <1>6, <1>7, SMTT(60) DEF DeviceEntry
  <2>4. CASE d \notin old /\ e \notin old
    BY <2>4, <1>4, <1>5, <1>6
  <2> QED
    BY <2>1, <2>2, <2>3, <2>4, Zenon
<1>10. DupOK(q)
  BY <1>2, <1>5, <1>6, <1>7 DEF RegInv, DupOK, Listed
<1>11. UsbOK(q)
  BY <1>2, <1>5, <1>6, <1>7 DEF RegInv, UsbOK
<1>12. Kept(r, q)
  BY <1>1, <1>3, <1>5, <1>6, <1>7 DEF Kept
<1> QED
  BY <1>8, <1>9, <1>10, <1>11, <1>12, Zenon DEF RegInv

MdnsTable == [MdnsKeys -> MdnsService \cup {None}]

\* The candidates of a serial have a first one: the sort has a head.
LEMMA BestCandidate ==
    ASSUME NEW m, NEW s, Candidates(m, s) # {}
    PROVE  (CHOOSE k \in Candidates(m, s) : \A j \in Candidates(m, s) : k =< j)
              \in Candidates(m, s)
<1> DEFINE C == Candidates(m, s)
           Less == {p \in Nat \X Nat : p[1] < p[2]}
<1>1. C \subseteq Nat /\ C # {}
  BY RegistryAssumption, Zenon DEF Candidates
<1>2. IsWellFoundedOn(Less, Nat)
  BY NatLessThanWellFounded, Zenon DEF OpToRel
<1> HIDE DEF Less, C
<1>3. \E k \in C : \A j \in C : ~(<<j, k>> \in Less)
  BY <1>1, <1>2, WFMin, Zenon
<1>4. \A j, k \in Nat : ~(<<j, k>> \in Less) => k =< j
  BY DEF Less
<1>5. \E i \in C : \A j \in C : i =< j
  BY <1>1, <1>3, <1>4, Zenon
<1>6. (CHOOSE i \in C : \A j \in C : i =< j) \in C
  BY <1>5, Zenon
<1> QED
  BY <1>6, Zenon DEF C

\* The best candidate of a serial has an address.
LEMMA BestAddrType ==
    ASSUME NEW m \in MdnsTable, NEW s, Candidates(m, s) # {}
    PROVE  BestAddr(m, s) \in Addrs
<1> DEFINE b == CHOOSE k \in Candidates(m, s) : \A j \in Candidates(m, s) : k =< j
<1>1. b \in Candidates(m, s)
  BY BestCandidate, Zenon
<1>2. BestAddr(m, s) = m[b].addr
  BY Zenon DEF BestAddr
<1> HIDE DEF b
<1> QED
  BY <1>1, <1>2, Zenon DEF Candidates, MdnsTable, MdnsService

\* The re-evaluation of one serial after its services changed.
LEMMA RefreshDeviceOK ==
    ASSUME NEW r, RegInv(r), NEW m \in MdnsTable, NEW s \in Serials
    PROVE  LET q == refresh_device_for_serial(r, m, s)
           IN RegInv(q) /\ Kept(r, q) /\ SameUsb(r, q)
<1> DEFINE q == refresh_device_for_serial(r, m, s)
           S == {d \in r.devices : d.serial # s \/ d.origin = Usb}
<1>1. CASE Candidates(m, s) = {}
  <2>1. q = [r EXCEPT !.devices = S]
    BY <1>1, Zenon DEF refresh_device_for_serial
  <2>2. q.devices = S
    BY <2>1, Zenon DEF RegInv, Registry
  <2> QED
    BY <2>1, <2>2, Retain DEF SameUsb
<1>2. CASE Candidates(m, s) # {} /\ ~Listed(r, s)
  BY <1>2, BestAddrType, PushOK, Zenon DEF refresh_device_for_serial
<1>3. CASE Candidates(m, s) # {} /\ \E d \in r.devices : IsFirst(r, d, s) /\ d.origin = Usb
  <2>1. q = r
    BY <1>3, Zenon DEF refresh_device_for_serial, Listed, IsFirst
  <2> QED
    BY <2>1 DEF Kept, SameUsb, RegInv, Registry, DeviceEntry
<1>4. CASE /\ Candidates(m, s) # {} /\ Listed(r, s)
           /\ ~\E d \in r.devices : IsFirst(r, d, s) /\ d.origin = Usb
  BY <1>4, BestAddrType, ReconnectedOK, Zenon DEF refresh_device_for_serial
<1> QED
  BY <1>1, <1>2, <1>3, <1>4, Zenon

\* Keeping the ids is transitive.
LEMMA KeptTrans ==
    ASSUME NEW r, NEW q, NEW p, RegInv(r), RegInv(q), RegInv(p),
           Kept(r, q), Kept(q, p)
    PROVE  Kept(r, p)
<1>1. r.next_id \in Nat /\ q.next_id \in Nat /\ p.next_id \in Nat
  BY Zenon DEF RegInv, Registry
<1>2. \A d \in p.devices : d.transport_id \in Nat
  BY Zenon DEF RegInv, Registry, DeviceEntry
<1> QED
  BY <1>1, <1>2 DEF Kept

\* One event of discovery.
LEMMA DiscoveryOK ==
    ASSUME NEW r, RegInv(r), NEW m \in MdnsTable, NEW k \in MdnsKeys,
           NEW v \in MdnsService \cup {None}
    PROVE  LET q == apply_discovery_event(r, m, k, v)
           IN RegInv(q) /\ Kept(r, q) /\ SameUsb(r, q)
<1> DEFINE new == [m EXCEPT ![k] = v]
           cleaned == IF m[k] # None /\ (v = None \/ v.serial # m[k].serial)
                        THEN refresh_device_for_serial(r, new, m[k].serial)
                        ELSE r
<1>1. new \in MdnsTable
  BY Zenon DEF MdnsTable
<1>2. \A w \in MdnsService : w.serial \in Serials
  BY Zenon DEF MdnsService, Serials
<1>3. m[k] \in MdnsService \cup {None}
  BY Zenon DEF MdnsTable
<1>4. RegInv(cleaned) /\ Kept(r, cleaned) /\ SameUsb(r, cleaned)
  <2>1. CASE m[k] # None /\ (v = None \/ v.serial # m[k].serial)
    BY <2>1, <1>1, <1>2, <1>3, RefreshDeviceOK, Zenon
  <2>2. CASE ~(m[k] # None /\ (v = None \/ v.serial # m[k].serial))
    <3>1. cleaned = r
      BY <2>2, Zenon
    <3>2. Kept(r, r) /\ SameUsb(r, r)
      BY DEF Kept, SameUsb, RegInv, Registry, DeviceEntry
    <3> HIDE DEF cleaned
    <3> QED
      BY <3>1, <3>2, Zenon
  <2> QED
    BY <2>1, <2>2, Zenon
<1> HIDE DEF cleaned
<1>5. CASE v = None
  <2>1. apply_discovery_event(r, m, k, v) = cleaned
    BY <1>5, Zenon DEF apply_discovery_event, cleaned
  <2> QED
    BY <2>1, <1>4, Zenon
<1>6. CASE v # None
  <2> DEFINE q == refresh_device_for_serial(cleaned, new, v.serial)
  <2>1. apply_discovery_event(r, m, k, v) = q
    BY <1>6, Zenon DEF apply_discovery_event, cleaned
  <2>2. v.serial \in Serials
    BY <1>6, <1>2, Zenon
  <2>3. RegInv(q) /\ Kept(cleaned, q) /\ SameUsb(cleaned, q)
    BY <1>1, <1>4, <2>2, RefreshDeviceOK, Zenon
  <2> HIDE DEF q
  <2>4. Kept(r, q)
    BY <1>4, <2>3, KeptTrans, Zenon
  <2>5. SameUsb(r, q)
    BY <1>4, <2>3, Zenon DEF SameUsb
  <2> QED
    BY <2>1, <2>3, <2>4, <2>5, Zenon
<1> QED
  BY <1>5, <1>6, Zenon

\* Unique ids below next_id leave room for finitely many entries only.
LEMMA FiniteTable ==
    ASSUME NEW r, RegInv(r)
    PROVE  IsFiniteSet(r.devices)
<1> DEFINE f == [d \in r.devices |-> d.transport_id]
           ids == 0 .. (r.next_id - 1)
<1>1. r.next_id \in Nat /\ \A d \in r.devices : d.transport_id \in Nat
  BY Zenon DEF RegInv, Registry, DeviceEntry
<1>2. f \in [r.devices -> ids]
  BY <1>1 DEF RegInv, IdsOK
<1>3. \A d, e \in r.devices : f[d] = f[e] => d = e
  BY Zenon DEF RegInv, IdsOK
<1>4. f \in Injection(r.devices, ids)
  BY <1>2, <1>3, Zenon DEF Injection, IsInjective
<1>5. IsFiniteSet(ids)
  BY <1>1, FS_Interval
<1> QED
  BY <1>4, <1>5, FS_Injection, Zenon

-----------------------------------------------------------------------------
(* The inductive invariant *)

\* A connecting thread is at one of the addresses of its target.
IndexOK ==
    \A c \in Threads :
        thread[c].pc \in {"connecting", "connected"}
            => thread[c].i \in 1 .. Len(Resolve[thread[c].target])

IInv == TypeOK /\ RegInv(reg) /\ IndexOK

\* The server starts with an empty registry.
LEMMA InitOK == Init => IInv
<1> SUFFICES ASSUME Init PROVE IInv
  BY Zenon
<1> DEFINE empty == [devices |-> {}, next_id |-> 1]
<1>1. RegInv(empty)
  BY Zenon DEF RegInv, Registry, IdsOK, DupOK, UsbOK
<1>2. Attached \in SUBSET UsbSerials
  BY Zenon DEF Attached
<1>3. NewUsb(empty, Attached) = Attached
  BY Zenon DEF NewUsb, Listed
<1>4. RegInv(reg)
  <2>1. CASE reg = empty
    BY <1>1, <2>1, Zenon
  <2>2. CASE \E ids \in Numberings(empty, Attached) :
                reg = refresh_usb_devices(empty, Attached, ids)
    BY <1>1, <1>2, <1>3, <2>2, RefreshUsbOK, Zenon
  <2> QED
    BY <2>1, <2>2, Zenon DEF Init
<1>5. thread \in [Threads -> Thread] /\ IndexOK
  BY Zenon DEF Init, Idle, Thread, IndexOK
<1>6. bus \in [UsbSerials -> [attached : BOOLEAN, plugs : Nat]]
  <2> DEFINE plug == {[attached |-> FALSE, plugs |-> 0], [attached |-> TRUE, plugs |-> 1]}
  <2>1. plug \subseteq [attached : BOOLEAN, plugs : Nat]
    OBVIOUS
  <2>2. bus \in [UsbSerials -> plug]
    BY Zenon DEF Init
  <2> HIDE DEF plug
  <2> QED
    BY <2>1, <2>2, Zenon
<1>7. usbw \in [pc : {"sleep", "collect", "auth", "opened", "store"},
               todo : SUBSET UsbSerials, serial : UsbSerials \cup {None}, handle : Nat]
  BY Zenon DEF Init
<1>8. /\ mdns \in [MdnsKeys -> MdnsService \cup {None}]
      /\ usb_auth \in [UsbSerials -> Nat]
      /\ watchers \in [Targets -> Nat]
      /\ inotify \in BOOLEAN /\ running \in BOOLEAN
  BY Zenon DEF Init
<1> QED
  BY <1>4, <1>5, <1>6, <1>7, <1>8, Zenon DEF IInv, TypeOK, RegInv

\* What every step does to the registry.
LEMMA RegistryStep ==
    ASSUME IInv, Next
    PROVE  RegInv(reg') /\ Kept(reg, reg')
<1>0. RegInv(reg) /\ TypeOK /\ IndexOK /\ mdns \in MdnsTable
  BY Zenon DEF IInv, TypeOK, MdnsTable
<1>1. reg' = reg => RegInv(reg') /\ Kept(reg, reg')
  BY <1>0 DEF Kept, RegInv, Registry, DeviceEntry
<1>2. ASSUME NEW c \in Threads, ClientStep(c)
      PROVE  RegInv(reg') /\ Kept(reg, reg')
  <2>1. CASE ConnectToRemoteOk(c)
    <3>1. thread[c].target \in Targets /\ thread[c].i \in 1 .. Len(Resolve[thread[c].target])
      BY <1>0, <2>1, ZenonT(60) DEF ConnectToRemoteOk, At, TypeOK, Thread, IndexOK
    <3>2. Resolve[thread[c].target][thread[c].i] \in Addrs
      BY <3>1, RegistryAssumption
    <3> QED
      BY <1>0, <2>1, <3>2, UpsertOK, Zenon DEF ConnectToRemoteOk
  <2>2. CASE ConnectFinish(c)
    <3>1. thread[c].target \in Targets /\ thread[c].i \in 1 .. Len(Resolve[thread[c].target])
      BY <1>0, <2>2, Zenon DEF ConnectFinish, At, TypeOK, Thread, IndexOK
    <3> QED
      BY <1>0, <2>2, <3>1, RenameOK, Zenon DEF ConnectFinish
  <2> QED
    BY <1>1, <1>2, <2>1, <2>2, ZenonT(60)
       DEF ClientStep, ConnectBegin, EmulatorBegin, ConnectToRemoteErr, Select, ExtractSerial,
           BridgeToDevice, EnsureUsbAuth, Unbridge, TrackBegin, TrackPoll, WaitBegin, WaitPoll
<1>3. ASSUME NEW t \in Targets, ConnectionLost(t)
      PROVE  RegInv(reg') /\ Kept(reg, reg')
  BY <1>0, <1>3, SetStateOK, Zenon DEF ConnectionLost, DeviceState
<1>4. ASSUME NEW s \in Serials, Disconnect(s)
      PROVE  RegInv(reg') /\ Kept(reg, reg')
  <2>1. {d \in reg.devices : d.serial # s} \in SUBSET reg.devices
    BY Zenon
  <2> QED
    BY <1>0, <1>4, <2>1, Retain, Zenon DEF Disconnect, remove_device
<1>5. CASE DisconnectAll
  <2>1. {d \in reg.devices : d.origin = Usb} \in SUBSET reg.devices
    BY Zenon
  <2> QED
    BY <1>0, <1>5, <2>1, Retain, Zenon DEF DisconnectAll, remove_all_tcp_devices
<1>6. CASE WatcherStep
  <2>1. CASE RefreshUsb
    BY <1>0, <2>1, RefreshUsbOK, Zenon DEF RefreshUsb, Attached
  <2>2. CASE PreauthConnect
    BY <1>0, <2>2, SetStateOK, Zenon DEF PreauthConnect, DeviceState
  <2> QED
    BY <1>1, <1>6, <2>1, <2>2, Zenon
       DEF WatcherStep, WatcherLoop, RefreshUsbErr, PreauthCollect, PreauthOpen, PreauthStore,
           PreauthFail
<1>7. CASE MdnsStep
  BY <1>0, <1>7, DiscoveryOK, SMTT(60) DEF MdnsStep, MdnsEvent
<1> QED
  BY <1>1, <1>2, <1>3, <1>4, <1>5, <1>6, <1>7, SMTT(60) DEF Next, Kill, Attach, Detach

\* The threads and the other variables keep their types.
LEMMA ThreadStep ==
    ASSUME IInv, Next
    PROVE  thread' \in [Threads -> Thread] /\ IndexOK'
<1>0. TypeOK /\ IndexOK
  BY Zenon DEF IInv
<1>1. UNCHANGED thread => thread' \in [Threads -> Thread] /\ IndexOK'
  BY <1>0, Zenon DEF TypeOK, IndexOK
<1>2. ASSUME NEW c \in Threads, NEW th \in Thread, Goto(c, th),
             th.pc \in {"connecting", "connected"} => th.i \in 1 .. Len(Resolve[th.target])
      PROVE  thread' \in [Threads -> Thread] /\ IndexOK'
  BY <1>0, <1>2, Zenon DEF Goto, TypeOK, IndexOK
<1>3. Idle \in Thread /\ Idle.pc = "idle"
  BY Zenon DEF Idle, Thread
<1>4. ASSUME NEW c \in Threads, ClientStep(c)
      PROVE  thread' \in [Threads -> Thread] /\ IndexOK'
  <2>0. thread[c] \in Thread
    BY <1>0, Zenon DEF TypeOK
  <2>1. ASSUME NEW t \in Targets, ConnectBegin(c, t) \/ EmulatorBegin(c, t)
        PROVE  thread' \in [Threads -> Thread] /\ IndexOK'
    <3> DEFINE th == [pc |-> "connecting", target |-> t, i |-> 1]
    <3>1. th \in Thread /\ 1 \in 1 .. Len(Resolve[t])
      BY RegistryAssumption DEF Thread
    <3> QED
      BY <1>2, <2>1, <3>1, ZenonT(60) DEF ConnectBegin, EmulatorBegin
  <2>2. CASE ConnectToRemoteOk(c)
    <3> DEFINE th == [thread[c] EXCEPT !.pc = "connected"]
    <3>1. th \in Thread /\ th.target = thread[c].target /\ th.i = thread[c].i
      BY <2>0, <2>2, Zenon DEF ConnectToRemoteOk, At, Thread
    <3>2. th.i \in 1 .. Len(Resolve[th.target])
      BY <1>0, <2>2, <3>1, Zenon DEF ConnectToRemoteOk, At, IndexOK
    <3> QED
      BY <1>2, <2>2, <3>1, <3>2, ZenonT(60) DEF ConnectToRemoteOk
  <2>3. CASE ConnectToRemoteErr(c)
    <3>1. CASE thread[c].i < Len(Resolve[thread[c].target])
      <4> DEFINE th == [thread[c] EXCEPT !.i = @ + 1]
      <4>1. th \in Thread /\ th.target = thread[c].target /\ th.i = thread[c].i + 1
        BY <2>0, <2>3 DEF ConnectToRemoteErr, At, Thread
      <4>2. th.i \in 1 .. Len(Resolve[th.target])
        BY <1>0, <2>3, <3>1, <4>1 DEF ConnectToRemoteErr, At, IndexOK
      <4>3. Goto(c, th)
        BY <2>3, <3>1, Zenon DEF ConnectToRemoteErr
      <4> QED
        BY <1>2, <4>1, <4>2, <4>3, Zenon
    <3>2. CASE ~(thread[c].i < Len(Resolve[thread[c].target]))
      BY <1>2, <1>3, <2>3, <3>2, Zenon DEF ConnectToRemoteErr
    <3> QED
      BY <3>1, <3>2, Zenon
  <2>4. CASE ConnectFinish(c) \/ Unbridge(c) \/ WaitPoll(c)
    BY <1>2, <1>3, <2>4, Zenon DEF ConnectFinish, Unbridge, WaitPoll
  <2>5. ASSUME NEW cmd \in Selection, Select(c, cmd)
        PROVE  thread' \in [Threads -> Thread] /\ IndexOK'
    <3>1. ASSUME NEW n \in Nat
          PROVE  [pc |-> "selected", cmd |-> cmd, chosen |-> n] \in Thread
      BY Zenon DEF Thread
    <3>2. \A d \in Acknowledged(cmd) : d.transport_id \in Nat
      BY <1>0, Zenon DEF TypeOK, Registry, DeviceEntry, Acknowledged, Usable
    <3> QED
      BY <1>2, <2>5, <3>1, <3>2, ZenonT(60) DEF Select
  <2>6. CASE ExtractSerial(c)
    <3>1. thread[c].cmd \in Selection /\ thread[c].chosen \in Nat
      BY <2>0, <2>6, Zenon DEF ExtractSerial, At, Thread
    <3>2. ASSUME NEW s \in Serials
          PROVE  [pc |-> "bridging", cmd |-> thread[c].cmd, chosen |-> thread[c].chosen,
                  serial |-> s] \in Thread
      BY <3>1, Zenon DEF Thread
    <3>3. ExtractedSerials(thread[c].cmd) \subseteq Serials
      BY Zenon DEF ExtractedSerials
    <3> QED
      BY <1>2, <1>3, <2>6, <3>2, <3>3, ZenonT(60) DEF ExtractSerial
  <2>7. CASE BridgeToDevice(c)
    <3>1. /\ thread[c].cmd \in Selection /\ thread[c].chosen \in Nat
          /\ thread[c].serial \in Serials
      BY <2>0, <2>7, Zenon DEF BridgeToDevice, At, Thread
    <3>2. ASSUME NEW d \in reg.devices
          PROVE  [pc |-> IF d.origin = Usb THEN "usbauth" ELSE "bridged",
                  cmd |-> thread[c].cmd, chosen |-> thread[c].chosen,
                  serial |-> thread[c].serial, id |-> d.transport_id] \in Thread
      <4>1. d.transport_id \in Nat
        BY <1>0, Zenon DEF TypeOK, Registry, DeviceEntry
      <4> QED
        BY <3>1, <4>1, Zenon DEF Thread
    <3> QED
      BY <1>2, <1>3, <2>7, <3>2, ZenonT(60) DEF BridgeToDevice
  <2>8. CASE EnsureUsbAuth(c)
    <3> DEFINE th == [thread[c] EXCEPT !.pc = "bridged"]
    <3>1. th \in Thread /\ th.pc = "bridged"
      BY <2>0, <2>8, Zenon DEF EnsureUsbAuth, At, Thread
    <3> QED
      BY <1>2, <1>3, <2>8, <3>1, ZenonT(60) DEF EnsureUsbAuth
  <2>9. CASE TrackBegin(c) \/ TrackPoll(c)
    <3>1. [pc |-> "tracking", last |-> None] \in Thread
      BY Zenon DEF Thread
    <3>2. list_devices(reg) \in SUBSET (Nat \X Serials \X DeviceState)
      <4>1. \A d \in reg.devices : d.serial \in Serials /\ d.state \in DeviceState
        BY <1>0, Zenon DEF TypeOK, Registry, DeviceEntry
      <4>2. \A S \in SUBSET reg.devices : Cardinality(S) \in Nat
        BY FiniteTable, FS_Subset, FS_CardinalityType, Zenon DEF IInv
      <4> DEFINE n(d) == Cardinality({e \in reg.devices : e.transport_id =< d.transport_id})
      <4>3. \A d \in reg.devices : n(d) \in Nat
        BY <4>2, Zenon
      <4>4. list_devices(reg) = {<<n(d), d.serial, d.state>> : d \in reg.devices}
        BY Zenon DEF list_devices
      <4> HIDE DEF n
      <4> QED
        BY <4>1, <4>3, <4>4
    <3>3. TrackPoll(c) => /\ [thread[c] EXCEPT !.last = list_devices(reg)] \in Thread
                          /\ [thread[c] EXCEPT !.last = list_devices(reg)].pc = "tracking"
      BY <2>0, <3>2, Zenon DEF TrackPoll, At, Thread
    <3> QED
      BY <1>2, <1>3, <2>9, <3>1, <3>3, ZenonT(60) DEF TrackBegin, TrackPoll
  <2>10. CASE WaitBegin(c)
    BY <1>2, <2>10, Zenon DEF WaitBegin, Thread
  <2>11. /\ \A s \in Serials : [kind |-> "transport", serial |-> s] \in Selection
         /\ [kind |-> "transport-any"] \in Selection
         /\ \A n \in 1 .. MaxId : [kind |-> "transport-id", id |-> n] \in Selection
    BY ServerAssumption DEF Selection
  <2> QED
    BY <1>4, <2>1, <2>2, <2>3, <2>4, <2>5, <2>6, <2>7, <2>8, <2>9, <2>10, <2>11, ZenonT(60) DEF ClientStep
<1>5. CASE UNCHANGED thread
  BY <1>1, <1>5, Zenon
<1> QED
  BY <1>4, <1>5, Zenon
     DEF Next, ConnectionLost, Disconnect, DisconnectAll, Kill, Attach, Detach, WatcherStep,
         WatcherLoop, RefreshUsb, RefreshUsbErr, PreauthCollect, PreauthOpen, PreauthConnect,
         PreauthFail, PreauthStore, MdnsStep, MdnsEvent

\* The types of what is neither the registry nor a client thread.
OthersOK ==
    /\ mdns \in [MdnsKeys -> MdnsService \cup {None}]
    /\ usb_auth \in [UsbSerials -> Nat]
    /\ watchers \in [Targets -> Nat]
    /\ usbw \in [pc : {"sleep", "collect", "auth", "opened", "store"},
                 todo : SUBSET UsbSerials, serial : UsbSerials \cup {None}, handle : Nat]
    /\ bus \in [UsbSerials -> [attached : BOOLEAN, plugs : Nat]]
    /\ inotify \in BOOLEAN
    /\ running \in BOOLEAN

\* Every step keeps the types of everything but the registry.
LEMMA OthersStep ==
    ASSUME IInv, Next
    PROVE  OthersOK'
<1> DEFINE Plug == [attached : BOOLEAN, plugs : Nat]
<1>0. OthersOK /\ thread \in [Threads -> Thread]
  BY Zenon DEF IInv, TypeOK, OthersOK
<1>1. UNCHANGED <<mdns, usb_auth, watchers, usbw, bus, inotify, running>> => OthersOK'
  BY <1>0, Zenon DEF OthersOK
<1>2. ASSUME NEW c \in Threads, ClientStep(c)
      PROVE  OthersOK'
  <2>1. CASE ConnectFinish(c)
    <3>1. thread[c].target \in Targets
      BY <1>0, <2>1, Zenon DEF ConnectFinish, At, Thread
    <3>2. /\ watchers' = [watchers EXCEPT ![thread[c].target] = @ + 1]
          /\ UNCHANGED <<mdns, usb_auth, usbw, bus, inotify, running>>
      BY <2>1, Zenon DEF ConnectFinish
    <3>3. watchers \in [Targets -> Nat]
      BY <1>0, Zenon DEF OthersOK
    <3>4. watchers' \in [Targets -> Nat]
      BY <3>1, <3>2, <3>3
    <3>5. /\ mdns' = mdns /\ usb_auth' = usb_auth /\ usbw' = usbw
          /\ bus' = bus /\ inotify' = inotify /\ running' = running
      BY <3>2, Zenon
    <3> QED
      BY <1>0, <3>4, <3>5, Zenon DEF OthersOK
  <2>2. CASE EnsureUsbAuth(c)
    <3>1. \A s \in UsbSerials : bus[s].plugs \in Nat
      BY <1>0, Zenon DEF OthersOK
    <3>2. usb_auth' \in [UsbSerials -> Nat]
      BY <1>0, <2>2, <3>1, SMTT(60) DEF EnsureUsbAuth, OthersOK
    <3> QED
      BY <1>0, <2>2, <3>2, Zenon DEF EnsureUsbAuth, OthersOK
  <2> QED
    BY <1>1, <1>2, <2>1, <2>2, ZenonT(60)
       DEF ClientStep, ConnectBegin, EmulatorBegin, ConnectToRemoteOk, ConnectToRemoteErr, Select,
           ExtractSerial, BridgeToDevice, Unbridge, TrackBegin, TrackPoll, WaitBegin, WaitPoll
<1>3. ASSUME NEW t \in Targets, ConnectionLost(t)
      PROVE  OthersOK'
  BY <1>0, <1>3 DEF ConnectionLost, OthersOK
<1>4. CASE Kill
  BY <1>0, <1>4, Zenon DEF Kill, OthersOK
<1>5. ASSUME NEW s \in UsbSerials, NEW dir \in DirEvents, Attach(s, dir) \/ Detach(s, dir)
      PROVE  OthersOK'
  <2>1. inotify' \in BOOLEAN
    BY <1>0, <1>5, Zenon DEF Attach, Detach, OthersOK, DirEvents
  <2>2. bus[s] \in Plug /\ bus[s].plugs + 1 \in Nat
    BY <1>0 DEF OthersOK
  <2>3. /\ [attached |-> TRUE, plugs |-> bus[s].plugs + 1] \in Plug
        /\ [bus[s] EXCEPT !.attached = FALSE] \in Plug
    BY <2>2, Zenon
  <2> HIDE DEF Plug
  <2>4. bus' \in [UsbSerials -> Plug]
    BY <1>0, <1>5, <2>3, ZenonT(60) DEF Attach, Detach, OthersOK, Plug
  <2> QED
    BY <1>0, <1>5, <2>1, <2>4, Zenon DEF Attach, Detach, OthersOK, Plug
<1>6. CASE WatcherStep
  <2>1. CASE RefreshUsb \/ RefreshUsbErr
    BY <1>0, <2>1, Zenon DEF RefreshUsb, RefreshUsbErr, WatcherWakes, OthersOK
  <2>2. CASE PreauthCollect
    BY <1>0, <2>2, Zenon DEF PreauthCollect, OthersOK
  <2>3. CASE PreauthStore
    BY <1>0, <2>3, Zenon DEF PreauthStore, OthersOK
  <2>4. ASSUME NEW s \in UsbSerials, PreauthOpen(s) \/ PreauthFail(s)
        PROVE  OthersOK'
    BY <1>0, <2>4 DEF PreauthOpen, PreauthFail, OthersOK
  <2>5. CASE WatcherLoop \/ PreauthConnect
    BY <1>0, <2>5, Zenon DEF WatcherLoop, PreauthConnect, OthersOK
  <2> QED
    BY <1>6, <2>1, <2>2, <2>3, <2>4, <2>5, Zenon DEF WatcherStep
<1>7. CASE MdnsStep
  BY <1>0, <1>7 DEF MdnsStep, MdnsEvent, OthersOK
<1> QED
  BY <1>1, <1>2, <1>3, <1>4, <1>5, <1>6, <1>7, SMTT(60) DEF Next, Disconnect, DisconnectAll

\* Every step keeps the invariant.
LEMMA InvStep == IInv /\ [Next]_vars => IInv'
<1> SUFFICES ASSUME IInv, [Next]_vars PROVE IInv'
  BY Zenon
<1>0. TypeOK /\ IndexOK /\ RegInv(reg)
  BY Zenon DEF IInv
<1>1. CASE UNCHANGED vars
  BY <1>0, <1>1, Zenon DEF vars, IInv, TypeOK, IndexOK, RegInv, IdsOK, DupOK, UsbOK, Registry
<1>2. CASE Next
  <2>1. RegInv(reg')
    BY <1>2, RegistryStep, Zenon
  <2>2. thread' \in [Threads -> Thread] /\ IndexOK'
    BY <1>2, ThreadStep, Zenon
  <2>3. OthersOK'
    BY <1>0, <1>2, OthersStep, Zenon
  <2> QED
    BY <2>1, <2>2, <2>3, Zenon DEF IInv, TypeOK, OthersOK, RegInv
<1> QED
  BY <1>1, <1>2, Zenon

\* The state of the server keeps its shape.
THEOREM TypeCorrect == Spec => []TypeOK
<1>1. Spec => []IInv
  BY InitOK, InvStep, PTL DEF Spec
<1> QED
  BY <1>1, PTL DEF IInv

\* Transport ids are unique for any number of clients, devices and services.
THEOREM UniqueIds == Spec => []UniqueTransportIds
<1>1. Spec => []IInv
  BY InitOK, InvStep, PTL DEF Spec
<1>2. IInv => UniqueTransportIds
  BY SMTT(60) DEF IInv, RegInv, IdsOK, UniqueTransportIds
<1> QED
  BY <1>1, <1>2, PTL

\* Only connect targets can appear twice in the table.
THEOREM Duplicates == Spec => []DuplicatesAreRenamed
<1>1. Spec => []IInv
  BY InitOK, InvStep, PTL DEF Spec
<1>2. IInv => DuplicatesAreRenamed
  BY Zenon DEF IInv, RegInv, DupOK, Renamed, DuplicatesAreRenamed
<1> QED
  BY <1>1, <1>2, PTL

\* No step hands out an id again.
THEOREM NoReuse == Spec => IdsNeverReused
<1> DEFINE A == /\ reg.next_id =< reg'.next_id
                /\ \A d \in reg'.devices :
                      \/ d.transport_id >= reg.next_id
                      \/ \E e \in reg.devices : e.transport_id = d.transport_id
<1>1. Spec => []IInv
  BY InitOK, InvStep, PTL DEF Spec
<1>2. IInv /\ [Next]_vars => [A]_vars
  BY RegistryStep, Zenon DEF Kept
<1> QED
  BY <1>1, <1>2, PTL DEF Spec, IdsNeverReused

\* The part of a step that touches USB entries is the watcher's or a
\* host:disconnect's.
LEMMA UsbStep ==
    ASSUME IInv, Next
    PROVE  \/ usbw' # usbw
           \/ UsbEntries' = UsbEntries
           \/ \E s \in UsbSerials : reg' = remove_device(reg, s)
<1>0. RegInv(reg) /\ TypeOK /\ IndexOK /\ mdns \in MdnsTable
  BY Zenon DEF IInv, TypeOK, MdnsTable
<1>1. SameUsb(reg, reg') => UsbEntries' = UsbEntries
  BY Zenon DEF SameUsb, UsbEntries
<1>2. reg' = reg => UsbEntries' = UsbEntries
  BY Zenon DEF UsbEntries
<1>3. ASSUME NEW c \in Threads, ClientStep(c)
      PROVE  UsbEntries' = UsbEntries
  <2>1. CASE ConnectToRemoteOk(c)
    <3>1. thread[c].target \in Targets /\ thread[c].i \in 1 .. Len(Resolve[thread[c].target])
      BY <1>0, <2>1, Zenon DEF ConnectToRemoteOk, At, TypeOK, Thread, IndexOK
    <3>2. Resolve[thread[c].target][thread[c].i] \in Addrs
      BY <3>1, RegistryAssumption
    <3> QED
      BY <1>0, <1>1, <2>1, <3>2, UpsertOK, SMTT(60) DEF ConnectToRemoteOk
  <2>2. CASE ConnectFinish(c)
    <3>1. thread[c].target \in Targets /\ thread[c].i \in 1 .. Len(Resolve[thread[c].target])
      BY <1>0, <2>2, Zenon DEF ConnectFinish, At, TypeOK, Thread, IndexOK
    <3> QED
      BY <1>0, <1>1, <2>2, <3>1, RenameOK, ZenonT(60) DEF ConnectFinish
  <2> QED
    BY <1>2, <1>3, <2>1, <2>2, ZenonT(60)
       DEF ClientStep, ConnectBegin, EmulatorBegin, ConnectToRemoteErr, Select, ExtractSerial,
           BridgeToDevice, EnsureUsbAuth, Unbridge, TrackBegin, TrackPoll, WaitBegin, WaitPoll
<1>4. ASSUME NEW t \in Targets, ConnectionLost(t)
      PROVE  UsbEntries' = UsbEntries
  <2>1. t \notin UsbSerials /\ "Offline" \in DeviceState
    BY RegistryAssumption, Zenon DEF DeviceState
  <2> QED
    BY <1>0, <1>1, <1>4, <2>1, SetStateOK, Zenon DEF ConnectionLost
<1>5. ASSUME NEW s \in Serials, Disconnect(s)
      PROVE  UsbEntries' = UsbEntries \/ \E u \in UsbSerials : reg' = remove_device(reg, u)
  <2>1. CASE s \in UsbSerials
    BY <1>5, <2>1, Zenon DEF Disconnect
  <2>2. CASE s \notin UsbSerials
    BY <1>0, <1>5, <2>2, Zenon DEF Disconnect, remove_device, UsbEntries, RegInv, UsbOK, Registry
  <2> QED
    BY <2>1, <2>2, Zenon
<1>6. CASE DisconnectAll
  BY <1>0, <1>6, Zenon DEF DisconnectAll, remove_all_tcp_devices, UsbEntries, RegInv, Registry
<1>7. CASE WatcherStep
  <2>1. CASE RefreshUsb
    BY <2>1, <1>0, Zenon DEF RefreshUsb, WatcherWakes, TypeOK
  <2>2. CASE PreauthConnect
    BY <1>0, <2>2, Zenon DEF PreauthConnect, TypeOK
  <2> QED
    BY <1>2, <1>7, <2>1, <2>2, Zenon
       DEF WatcherStep, WatcherLoop, RefreshUsbErr, PreauthCollect, PreauthOpen, PreauthStore,
           PreauthFail
<1>8. CASE MdnsStep
  BY <1>0, <1>1, <1>8, DiscoveryOK DEF MdnsStep, MdnsEvent
<1> QED
  BY <1>2, <1>3, <1>4, <1>5, <1>6, <1>7, <1>8, SMTT(60) DEF Next, Kill, Attach, Detach

\* Whatever serials and addresses targets, devices and services have: outside
\* the watcher thread only host:disconnect of a USB serial changes USB entries.
THEOREM UsbOwned == Spec => UsbOwnedByWatcher
<1> DEFINE A == \/ usbw' # usbw
                \/ UsbEntries' = UsbEntries
                \/ \E s \in UsbSerials : reg' = remove_device(reg, s)
<1>1. Spec => []IInv
  BY InitOK, InvStep, PTL DEF Spec
<1>2. IInv /\ [Next]_vars => [A]_vars
  BY UsbStep, Zenon
<1> QED
  BY <1>1, <1>2, PTL DEF Spec, UsbOwnedByWatcher

(***************************************************************************)
(* Discovered devices and selection, on top of the same invariant: entries *)
(* of discovered devices are never stale, and selection by transport id    *)
(* reaches the transport that was acknowledged unless it was replaced.     *)
(***************************************************************************)

\* Serials that only discovery gives to an entry.
Pure == MdnsSerials \ (Targets \cup UsbSerials \cup {AddrString[a] : a \in Addrs})

Current(d, m) ==
    /\ Candidates(m, d.serial) # {}
    /\ d.origin = BestAddr(m, d.serial)
    /\ d.state = "Device"

\* The entries are current, those with a serial of X perhaps excepted.
CurrentBut(r, m, X) == \A d \in r.devices : d.serial \in Pure \ X => Current(d, m)

-----------------------------------------------------------------------------
(* Registry updates that discovery does not make *)

\* Updates that leave the discovered entries as they are, or drop some.
LEMMA StillCurrent ==
    ASSUME NEW r, NEW q, NEW m, CurrentBut(r, m, {}),
           \A d \in q.devices : d.serial \in Pure => d \in r.devices
    PROVE  CurrentBut(q, m, {})
BY Zenon DEF CurrentBut

\* Entering a device under a serial that discovery does not give.
LEMMA UpsertCurrent ==
    ASSUME NEW r, RegInv(r), NEW m, CurrentBut(r, m, {}), NEW a \in Addrs
    PROVE  CurrentBut(upsert_tcp_device(r, a), m, {})
<1> DEFINE q == upsert_tcp_device(r, a)
           ip == AddrString[a]
<1>1. ip \notin Pure
  BY Zenon DEF Pure
<1>2. r.devices \in SUBSET DeviceEntry
  BY Zenon DEF RegInv, Registry
<1>3. CASE Listed(r, ip)
  <2> DEFINE F(d) == IF IsFirst(r, d, ip) THEN [d EXCEPT !.state = "Device", !.origin = a] ELSE d
  <2>1. q.devices = {F(d) : d \in r.devices}
    BY <1>3, Zenon DEF upsert_tcp_device, Reconnected, RegInv, Registry
  <2>2. \A d \in r.devices : F(d) = d \/ F(d).serial = ip
    BY <1>2, Zenon DEF IsFirst, DeviceEntry
  <2> HIDE DEF F, ip
  <2> QED
    BY <1>1, <2>1, <2>2, StillCurrent, Zenon
<1>4. CASE ~Listed(r, ip)
  <2>1. q.devices = r.devices \cup {[serial |-> ip, transport_id |-> r.next_id,
                                    state |-> "Device", origin |-> a]}
    BY <1>4, Zenon DEF upsert_tcp_device, Push
  <2> HIDE DEF ip
  <2>2. \A d \in q.devices : d.serial \in Pure => d \in r.devices
    BY <1>1, <2>1
  <2> QED
    BY <2>2, StillCurrent, Zenon
<1> QED
  BY <1>3, <1>4, Zenon

\* Renaming gives an entry the name of a connect target.
LEMMA RenameCurrent ==
    ASSUME NEW r, RegInv(r), NEW m, CurrentBut(r, m, {}), NEW ip, NEW t \in Targets
    PROVE  CurrentBut(rename_device(r, ip, t), m, {})
<1> DEFINE q == rename_device(r, ip, t)
           F(d) == IF IsFirst(r, d, ip) THEN [d EXCEPT !.serial = t] ELSE d
<1>1. q.devices = {F(d) : d \in r.devices} /\ r.devices \in SUBSET DeviceEntry
  BY Zenon DEF rename_device, RegInv, Registry
<1>2. \A d \in r.devices : F(d) = d \/ F(d).serial = t
  BY <1>1, Zenon DEF DeviceEntry
<1>3. t \notin Pure
  BY Zenon DEF Pure
<1> HIDE DEF F
<1> QED
  BY <1>1, <1>2, <1>3, StillCurrent, Zenon

\* A reader thread marks an entry that host:connect named; the watcher sets
\* the state that discovered entries have anyway.
LEMMA SetStateCurrent ==
    ASSUME NEW r, RegInv(r), NEW m, CurrentBut(r, m, {}), NEW s, NEW st,
           s \notin Pure \/ st = "Device"
    PROVE  CurrentBut(set_state(r, s, st), m, {})
<1> DEFINE q == set_state(r, s, st)
           F(d) == IF IsFirst(r, d, s) THEN [d EXCEPT !.state = st] ELSE d
<1>1. q.devices = {F(d) : d \in r.devices} /\ r.devices \in SUBSET DeviceEntry
  BY Zenon DEF set_state, RegInv, Registry
<1>2. \A d \in r.devices :
        /\ F(d).serial = d.serial /\ F(d).origin = d.origin
        /\ F(d).state = d.state \/ (d.serial = s /\ F(d).state = st)
  BY <1>1, Zenon DEF DeviceEntry, IsFirst
<1> HIDE DEF F
<1> QED
  BY <1>1, <1>2 DEF CurrentBut, Current

\* The watcher only touches USB entries.
LEMMA RefreshUsbCurrent ==
    ASSUME NEW r, RegInv(r), NEW m, CurrentBut(r, m, {}), NEW found \in SUBSET UsbSerials, NEW ids
    PROVE  CurrentBut(refresh_usb_devices(r, found, ids), m, {})
<1> DEFINE q == refresh_usb_devices(r, found, ids)
<1>1. \A d \in q.devices : d \in r.devices \/ d.serial \in UsbSerials
  BY DEF refresh_usb_devices, NewUsb
<1>2. \A s \in UsbSerials : s \notin Pure
  BY Zenon DEF Pure
<1> QED
  BY <1>1, <1>2, StillCurrent, Zenon

-----------------------------------------------------------------------------
(* Discovery *)

\* Re-evaluating a serial makes its entry current and leaves the others alone.
LEMMA RefreshDeviceCurrent ==
    ASSUME NEW r, RegInv(r), NEW m, NEW s, NEW X, CurrentBut(r, m, X)
    PROVE  CurrentBut(refresh_device_for_serial(r, m, s), m, X \ {s})
<1> DEFINE q == refresh_device_for_serial(r, m, s)
           best == BestAddr(m, s)
<1>0. r.devices \in SUBSET DeviceEntry
  BY Zenon DEF RegInv, Registry
<1>1. CASE Candidates(m, s) = {}
  <2>1. q.devices = {d \in r.devices : d.serial # s \/ d.origin = Usb}
    BY <1>1, Zenon DEF refresh_device_for_serial, RegInv, Registry
  <2>2. \A d \in q.devices : d.serial \in Pure => d \in r.devices /\ d.serial # s
    BY <2>1, Zenon DEF RegInv, UsbOK, Pure
  <2> QED
    BY <2>2, Zenon DEF CurrentBut
<1>2. CASE Candidates(m, s) # {} /\ ~Listed(r, s)
  <2> DEFINE new == [serial |-> s, transport_id |-> r.next_id, state |-> "Device", origin |-> best]
  <2>1. q.devices = r.devices \cup {new}
    BY <1>2, Zenon DEF refresh_device_for_serial, Push
  <2>2. Current(new, m)
    BY <1>2, Zenon DEF Current
  <2> HIDE DEF new
  <2>3. \A d \in r.devices : d.serial # s
    BY <1>2, Zenon DEF Listed
  <2> QED
    BY <2>1, <2>2, <2>3, Zenon DEF CurrentBut
<1>3. CASE Candidates(m, s) # {} /\ \E d \in r.devices : IsFirst(r, d, s) /\ d.origin = Usb
  <2>1. q = r
    BY <1>3, Zenon DEF refresh_device_for_serial, Listed, IsFirst
  <2>2. s \notin Pure
    BY <1>3, Zenon DEF RegInv, UsbOK, IsFirst, Pure
  <2> QED
    BY <2>1, <2>2, Zenon DEF CurrentBut
<1>4. CASE /\ Candidates(m, s) # {} /\ Listed(r, s)
           /\ ~\E d \in r.devices : IsFirst(r, d, s) /\ d.origin = Usb
  <2> DEFINE F(d) == IF IsFirst(r, d, s) THEN [d EXCEPT !.state = "Device", !.origin = best] ELSE d
  <2>1. q.devices = {F(d) : d \in r.devices}
    BY <1>4, Zenon DEF refresh_device_for_serial, Reconnected, RegInv, Registry
  <2>2. \A d \in r.devices : d.serial # s => F(d) = d
    BY Zenon DEF IsFirst
  <2>3. ASSUME NEW d \in r.devices, d.serial = s, s \in Pure
        PROVE  Current(F(d), m)
    <3>1. s \notin Renamed
      BY <2>3, Zenon DEF Pure, Renamed
    <3>2. \A e \in r.devices : e.serial = s => e = d
      BY <2>3, <3>1, Zenon DEF RegInv, DupOK
    <3>3. d.transport_id \in Nat
      BY <1>0, Zenon DEF DeviceEntry
    <3>4. IsFirst(r, d, s)
      <4>1. d.transport_id =< d.transport_id
        BY <3>3
      <4> QED
        BY <2>3, <3>2, <4>1, Zenon DEF IsFirst
    <3>5. F(d).serial = s /\ F(d).state = "Device" /\ F(d).origin = best
      BY <1>0, <2>3, <3>4, Zenon DEF DeviceEntry
    <3> HIDE DEF F
    <3> QED
      BY <1>4, <3>5, Zenon DEF Current
  <2>4. \A d \in r.devices : F(d).serial = d.serial
    BY <1>0, Zenon DEF DeviceEntry
  <2> HIDE DEF F
  <2> QED
    BY <2>1, <2>2, <2>3, <2>4, SMTT(60) DEF CurrentBut
<1> QED
  BY <1>1, <1>2, <1>3, <1>4, Zenon

\* An event changes what is current for the two serials it names only.
LEMMA OtherCandidates ==
    ASSUME NEW m \in MdnsTable, NEW k \in MdnsKeys, NEW v \in MdnsService \cup {None},
           NEW s, m[k] = None \/ m[k].serial # s, v = None \/ v.serial # s
    PROVE  LET n == [m EXCEPT ![k] = v]
           IN Candidates(n, s) = Candidates(m, s)
              /\ (Candidates(m, s) # {} => BestAddr(n, s) = BestAddr(m, s))
<1> DEFINE n == [m EXCEPT ![k] = v]
           C == Candidates(m, s)
           b == CHOOSE i \in C : \A j \in C : i =< j
<1>1. n[k] = v /\ \A j \in MdnsKeys \ {k} : n[j] = m[j]
  BY Zenon DEF MdnsTable
<1>2. k \notin Candidates(m, s) /\ k \notin Candidates(n, s)
  BY <1>1, Zenon DEF Candidates
<1>3. Candidates(n, s) = C
  BY <1>1, <1>2, Zenon DEF Candidates
<1>4. C # {} => b \in C
  BY BestCandidate, Zenon
<1>5. C # {} => n[b] = m[b]
  BY <1>1, <1>2, <1>4, Zenon DEF Candidates
<1>6. BestAddr(m, s) = m[b].addr /\ BestAddr(n, s) = n[b].addr
  BY <1>3, Zenon DEF BestAddr
<1> HIDE DEF n, b, C
<1> QED
  BY <1>3, <1>5, <1>6, Zenon DEF n, C

\* Discovery brings the entries of its serial up to date.
LEMMA DiscoveryCurrent ==
    ASSUME NEW r, RegInv(r), NEW m \in MdnsTable, NEW k \in MdnsKeys,
           NEW v \in MdnsService \cup {None}, CurrentBut(r, m, {})
    PROVE  CurrentBut(apply_discovery_event(r, m, k, v), [m EXCEPT ![k] = v], {})
<1> DEFINE new == [m EXCEPT ![k] = v]
           Old == IF m[k] = None THEN {} ELSE {m[k].serial}
           New == IF v = None THEN {} ELSE {v.serial}
           moved == m[k] # None /\ (v = None \/ v.serial # m[k].serial)
           cleaned == IF moved THEN refresh_device_for_serial(r, new, m[k].serial) ELSE r
<1>1. CurrentBut(r, new, Old \cup New)
  <2> SUFFICES ASSUME NEW d \in r.devices, d.serial \in Pure, d.serial \notin Old \cup New
               PROVE  Current(d, new)
    BY Zenon DEF CurrentBut
  <2>1. Current(d, m)
    BY Zenon DEF CurrentBut
  <2>2. /\ Candidates(new, d.serial) = Candidates(m, d.serial)
        /\ Candidates(m, d.serial) # {} => BestAddr(new, d.serial) = BestAddr(m, d.serial)
    BY OtherCandidates
  <2> QED
    BY <2>1, <2>2, Zenon DEF Current
<1>2. /\ new \in MdnsTable /\ m[k] \in MdnsService \cup {None}
      /\ \A w \in MdnsService : w.serial \in Serials
  BY Zenon DEF MdnsTable, MdnsService, Serials
<1>3. RegInv(cleaned) /\ CurrentBut(cleaned, new, New)
  <2>1. CASE moved
    <3>1. RegInv(cleaned)
      BY <1>2, <2>1, RefreshDeviceOK, Zenon
    <3>2. CurrentBut(cleaned, new, (Old \cup New) \ {m[k].serial})
      BY <1>1, <2>1, RefreshDeviceCurrent, Zenon
    <3>3. (Old \cup New) \ {m[k].serial} = New
      BY <2>1, Zenon
    <3> HIDE DEF cleaned, new, Old, New
    <3> QED
      BY <3>1, <3>2, <3>3, Zenon
  <2>2. CASE ~moved
    <3>1. cleaned = r /\ Old \cup New = New
      BY <2>2, Zenon
    <3> HIDE DEF cleaned, new, Old, New
    <3> QED
      BY <1>1, <3>1, Zenon
  <2> QED
    BY <2>1, <2>2, Zenon
<1> HIDE DEF cleaned
<1>4. CASE v = None
  <2>1. apply_discovery_event(r, m, k, v) = cleaned /\ New = {}
    BY <1>4, Zenon DEF apply_discovery_event, cleaned
  <2> HIDE DEF new, New
  <2> QED
    BY <1>3, <2>1, Zenon DEF new
<1>5. CASE v # None
  <2>1. apply_discovery_event(r, m, k, v) = refresh_device_for_serial(cleaned, new, v.serial)
    BY <1>5, Zenon DEF apply_discovery_event, cleaned
  <2>2. New \ {v.serial} = {}
    BY Zenon
  <2> HIDE DEF New
  <2>3. CurrentBut(refresh_device_for_serial(cleaned, new, v.serial), new, New \ {v.serial})
    BY <1>3, RefreshDeviceCurrent, Zenon
  <2> QED
    BY <2>1, <2>2, <2>3, Zenon
<1> QED
  BY <1>4, <1>5, Zenon

-----------------------------------------------------------------------------
(* Discovered entries are current *)

\* No entry, nothing stale.
LEMMA CurrentInit == Init => CurrentBut(reg, mdns, {})
<1> SUFFICES ASSUME Init PROVE CurrentBut(reg, mdns, {})
  BY Zenon
<1> DEFINE empty == [devices |-> {}, next_id |-> 1]
<1>1. RegInv(empty) /\ CurrentBut(empty, mdns, {})
  BY Zenon DEF RegInv, Registry, IdsOK, DupOK, UsbOK, CurrentBut
<1>2. Attached \in SUBSET UsbSerials
  BY Zenon DEF Attached
<1>3. reg = empty \/ \E ids : reg = refresh_usb_devices(empty, Attached, ids)
  BY Zenon DEF Init
<1> HIDE DEF empty
<1> QED
  BY <1>1, <1>2, <1>3, RefreshUsbCurrent, Zenon

\* Every step keeps the discovered entries current.
LEMMA CurrentStep ==
    ASSUME IInv, CurrentBut(reg, mdns, {}), Next
    PROVE  CurrentBut(reg', mdns', {})
<1>0. RegInv(reg) /\ TypeOK /\ IndexOK /\ mdns \in MdnsTable
  BY Zenon DEF IInv, TypeOK, MdnsTable
<1>1. reg' = reg /\ mdns' = mdns => CurrentBut(reg', mdns', {})
  BY Zenon
<1>2. ASSUME NEW c \in Threads, ClientStep(c)
      PROVE  CurrentBut(reg', mdns', {})
  <2>1. CASE ConnectToRemoteOk(c)
    <3>1. thread[c].target \in Targets /\ thread[c].i \in 1 .. Len(Resolve[thread[c].target])
      BY <1>0, <2>1, ZenonT(60) DEF ConnectToRemoteOk, At, TypeOK, Thread, IndexOK
    <3>2. Resolve[thread[c].target][thread[c].i] \in Addrs
      BY <3>1, RegistryAssumption, SMTT(60)
    <3> QED
      BY <1>0, <2>1, <3>2, UpsertCurrent, Zenon DEF ConnectToRemoteOk
  <2>2. CASE ConnectFinish(c)
    <3>1. thread[c].target \in Targets
      BY <1>0, <2>2, Zenon DEF ConnectFinish, At, TypeOK, Thread
    <3>2. /\ reg' = rename_device(reg, AddrString[Resolve[thread[c].target][thread[c].i]], thread[c].target)
          /\ mdns' = mdns
      BY <2>2, Zenon DEF ConnectFinish
    <3> QED
      BY <1>0, <3>1, <3>2, RenameCurrent, ZenonT(60)
  <2> QED
    BY <1>1, <1>2, <2>1, <2>2, ZenonT(60)
       DEF ClientStep, ConnectBegin, EmulatorBegin, ConnectToRemoteErr, Select, ExtractSerial,
           BridgeToDevice, EnsureUsbAuth, Unbridge, TrackBegin, TrackPoll, WaitBegin, WaitPoll
<1>3. ASSUME NEW t \in Targets, ConnectionLost(t)
      PROVE  CurrentBut(reg', mdns', {})
  <2>1. t \notin Pure
    BY Zenon DEF Pure
  <2> QED
    BY <1>0, <1>3, <2>1, SetStateCurrent, Zenon DEF ConnectionLost
<1>4. CASE \E s \in Serials : Disconnect(s)
  <2>1. reg'.devices \subseteq reg.devices /\ mdns' = mdns
    BY <1>0, <1>4 DEF Disconnect, remove_device, RegInv, Registry
  <2> QED
    BY <2>1, StillCurrent, Zenon
<1>5. CASE DisconnectAll
  <2>1. reg'.devices \subseteq reg.devices /\ mdns' = mdns
    BY <1>0, <1>5, Zenon DEF DisconnectAll, remove_all_tcp_devices, RegInv, Registry
  <2> QED
    BY <2>1, StillCurrent, Zenon
<1>6. CASE WatcherStep
  <2>1. CASE RefreshUsb
    BY <1>0, <2>1, RefreshUsbCurrent, Zenon DEF RefreshUsb, Attached
  <2>2. CASE PreauthConnect
    BY <1>0, <2>2, SetStateCurrent, Zenon DEF PreauthConnect
  <2> QED
    BY <1>1, <1>6, <2>1, <2>2, Zenon
       DEF WatcherStep, WatcherLoop, RefreshUsbErr, PreauthCollect, PreauthOpen, PreauthStore,
           PreauthFail
<1>7. CASE MdnsStep
  <2>1. PICK k \in MdnsKeys, v \in MdnsService \cup {None} : MdnsEvent(k, v)
    BY <1>7, Zenon DEF MdnsStep
  <2>2. reg' = apply_discovery_event(reg, mdns, k, v) /\ mdns' = [mdns EXCEPT ![k] = v]
    BY <2>1, Zenon DEF MdnsEvent
  <2> QED
    BY <1>0, <2>2, DiscoveryCurrent, Zenon
<1> QED
  BY <1>1, <1>2, <1>3, <1>4, <1>5, <1>6, <1>7, SMTT(60) DEF Next, Kill, Attach, Detach

\* No ghost and no stale address, for any number of services, serials,
\* addresses and clients.
THEOREM NoGhosts == Spec => []DiscoveredIsCurrent
<1> DEFINE Inv == IInv /\ CurrentBut(reg, mdns, {})
<1>1. Init => Inv
  BY InitOK, CurrentInit, Zenon
<1>2. Inv /\ [Next]_vars => Inv'
  <2> SUFFICES ASSUME Inv, [Next]_vars PROVE Inv'
    BY Zenon
  <2>1. IInv'
    BY InvStep, Zenon
  <2>2. CurrentBut(reg', mdns', {})
    BY CurrentStep, Zenon DEF vars
  <2> QED
    BY <2>1, <2>2, Zenon DEF CurrentBut, Current, Pure
<1>3. Inv => DiscoveredIsCurrent
  BY Zenon DEF CurrentBut, Current, Pure, DiscoveredIsCurrent
<1> QED
  BY <1>1, <1>2, <1>3, PTL DEF Spec

-----------------------------------------------------------------------------
(* Selection by id *)

\* A thread that leaves "bridging" for a bridge does so in BridgeToDevice.
LEMMA BridgingStep ==
    ASSUME IInv, Next, NEW c \in Threads, At(c, "bridging"),
           thread'[c].pc \in {"usbauth", "bridged"}
    PROVE  BridgeToDevice(c)
<1>0. thread \in [Threads -> Thread]
  BY Zenon DEF IInv, TypeOK
<1>1. thread' # thread
  BY Zenon DEF At
<1>2. PICK b \in Threads : ClientStep(b)
  BY <1>1, Zenon
     DEF Next, ConnectionLost, Disconnect, DisconnectAll, Kill, Attach, Detach, WatcherStep,
         WatcherLoop, RefreshUsb, RefreshUsbErr, PreauthCollect, PreauthOpen, PreauthConnect,
         PreauthFail, PreauthStore, MdnsStep, MdnsEvent
<1>3. \E th : Goto(b, th)
  BY <1>2, Zenon
     DEF ClientStep, ConnectBegin, EmulatorBegin, ConnectToRemoteOk, ConnectToRemoteErr,
         ConnectFinish, Select, ExtractSerial, BridgeToDevice, EnsureUsbAuth, Unbridge,
         TrackBegin, TrackPoll, WaitBegin, WaitPoll
<1>4. b = c
  BY <1>0, <1>3, Zenon DEF Goto, At
<1> QED
  BY <1>2, <1>4, ZenonT(60)
     DEF ClientStep, ConnectBegin, EmulatorBegin, ConnectToRemoteOk, ConnectToRemoteErr,
         ConnectFinish, Select, ExtractSerial, EnsureUsbAuth, Unbridge,
         TrackBegin, TrackPoll, WaitBegin, WaitPoll, Asked, At

\* The serial that the id was turned into leads back to the entry of that id
\* while the entry has it, because no other entry does.
LEMMA SelectionStep ==
    ASSUME IInv, Next, NEW c \in Threads, At(c, "bridging"),
           thread'[c].pc \in {"usbauth", "bridged"},
           thread[c].serial \notin Renamed,
           NEW d \in reg.devices, d.transport_id = thread[c].chosen, d.serial = thread[c].serial
    PROVE  thread'[c].id = thread[c].chosen
<1>0. thread \in [Threads -> Thread] /\ RegInv(reg)
  BY Zenon DEF IInv, TypeOK
<1>1. thread'[c].pc # "idle"
  BY Zenon
<1>2. BridgeToDevice(c)
  BY BridgingStep, Zenon
<1>3. \A th : Goto(c, th) => thread'[c] = th
  BY <1>0, Zenon DEF Goto
<1>4. PICK e \in reg.devices :
        IsFirst(reg, e, thread[c].serial) /\ thread'[c].id = e.transport_id
  <2>1. ~Goto(c, Idle)
    BY <1>1, <1>3, SMTT(60) DEF Idle
  <2>2. PICK e \in reg.devices :
          /\ IsFirst(reg, e, thread[c].serial)
          /\ Goto(c, [pc |-> IF e.origin = Usb THEN "usbauth" ELSE "bridged",
                      cmd |-> thread[c].cmd, chosen |-> thread[c].chosen,
                      serial |-> thread[c].serial, id |-> e.transport_id])
    BY <1>2, <2>1, Zenon DEF BridgeToDevice
  <2> DEFINE th == [pc |-> IF e.origin = Usb THEN "usbauth" ELSE "bridged",
                    cmd |-> thread[c].cmd, chosen |-> thread[c].chosen,
                    serial |-> thread[c].serial, id |-> e.transport_id]
  <2>3. thread'[c] = th
    BY <1>3, <2>2, Zenon
  <2>4. thread'[c].id = e.transport_id
    BY <2>3
  <2> QED
    BY <2>2, <2>4, Zenon
<1>5. e = d
  BY <1>0, <1>4, Zenon DEF IsFirst, RegInv, DupOK
<1> QED
  BY <1>4, <1>5, Zenon

\* An acknowledged selection by id reaches that transport for any number of
\* clients and devices, unless the transport has left or its name is shared.
THEOREM Chosen == Spec => ChosenUnlessReplaced
<1> DEFINE A == \A c \in Threads :
                  /\ At(c, "bridging") /\ thread'[c].pc \in {"usbauth", "bridged"}
                  /\ thread[c].cmd.kind = "transport-id" /\ thread[c].chosen # 0
                  => \/ thread'[c].id = thread[c].chosen
                     \/ thread[c].serial \in Targets \ {AddrString[a] : a \in Addrs}
                     \/ ~\E d \in reg.devices :
                            d.transport_id = thread[c].chosen /\ d.serial = thread[c].serial
<1>1. Spec => []IInv
  BY InitOK, InvStep, PTL DEF Spec
<1>2. IInv /\ [Next]_vars => [A]_vars
  BY SelectionStep, Zenon DEF Renamed
<1> QED
  BY <1>1, <1>2, PTL DEF Spec, ChosenUnlessReplaced
=============================================================================
