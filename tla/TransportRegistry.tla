-------------------------- MODULE TransportRegistry --------------------------
(***************************************************************************)
(* The device table of the ADB host server (server/models.rs) and every    *)
(* update that the server makes to it while it holds the registry mutex.   *)
(* Each operator maps a registry to the registry after one such update;    *)
(* AdbServer interleaves them.                                             *)
(*                                                                         *)
(* `devices` is a Vec in the code.  Every push takes the next transport    *)
(* id, `retain` keeps the order and the other updates are in place, so the *)
(* order of the Vec is the order of the ids.  The model keeps the entries  *)
(* in a set and reads "the first entry such that" as "the one of least     *)
(* id such that".                                                          *)
(***************************************************************************)
EXTENDS Integers, FiniteSets, Sequences

CONSTANTS
    Addrs,        \* socket addresses
    AddrString,   \* addr.to_string(), the serial connect_to_remote registers
    Targets,      \* what clients write after host:connect: and host:emulator:
    Emulators,    \* the targets of the form emulator-<port>
    Resolve,      \* the socket addresses of a target, in resolution order
    UsbSerials,   \* serial numbers of the devices that may be plugged in
    MdnsSerials,  \* serials that discovered services resolve to
    MdnsKeys,     \* instance + service type, numbered in the order of the sort
    Usb,          \* the origin of a USB device
    None

\* The canonical text of an address identifies it and resolves to it alone; no
\* USB serial has that form or is used as a connect target.
ASSUME RegistryAssumption ==
    /\ AddrString \in [Addrs -> {AddrString[a] : a \in Addrs}]
    /\ \A a, b \in Addrs : AddrString[a] = AddrString[b] => a = b
    /\ Emulators \subseteq Targets
    /\ Resolve \in [Targets -> Seq(Addrs)]
    /\ \A t \in Targets : Len(Resolve[t]) > 0
    /\ \A t \in Targets, a \in Addrs : AddrString[a] = t => Resolve[t] = <<a>>
    /\ IsFiniteSet(UsbSerials)
    /\ UsbSerials \cap (Targets \cup {AddrString[a] : a \in Addrs}) = {}
    /\ IsFiniteSet(MdnsKeys) /\ MdnsKeys \subseteq Nat
    /\ Usb \notin Addrs /\ None \notin Addrs

Serials == Targets \cup UsbSerials \cup MdnsSerials \cup {AddrString[a] : a \in Addrs}

DeviceState ==
    {"Offline", "Device", "Recovery", "Sideload", "Bootloader",
     "Authorizing", "Connecting", "NoPerm", "Unknown"}

is_usable_state(state) == state \in {"Device", "Recovery", "Sideload", "Bootloader"}

DeviceOrigin == Addrs \cup {Usb}

DeviceEntry ==
    [serial : Serials, transport_id : Nat, state : DeviceState, origin : DeviceOrigin]

Registry == [devices : SUBSET DeviceEntry, next_id : Nat]

MdnsService == [serial : MdnsSerials, addr : Addrs \cup {None}]

-----------------------------------------------------------------------------
(* Look-ups *)

Listed(reg, serial) == \E d \in reg.devices : d.serial = serial

\* find_by_serial: d is the entry the linear search stops at.
IsFirst(reg, d, serial) ==
    /\ d.serial = serial
    /\ \A e \in reg.devices : e.serial = serial => d.transport_id =< e.transport_id

Usable(reg) == {d \in reg.devices : is_usable_state(d.state)}

find_any_device(reg) ==
    {d \in Usable(reg) : \A e \in Usable(reg) : d.transport_id =< e.transport_id}

\* The sole usable entry, as a set: empty stands for both errors.
find_unique_device(reg) ==
    {d \in Usable(reg) : \A e \in Usable(reg) : e = d}

\* The text of host:devices: one line per entry, in the order of the table.
list_devices(reg) ==
    {<<Cardinality({e \in reg.devices : e.transport_id =< d.transport_id}),
       d.serial, d.state>> : d \in reg.devices}

-----------------------------------------------------------------------------
(* Updates *)

\* Defective form: next_id is not incremented.
PushKeepsNextId(reg, serial, origin) ==
    [reg EXCEPT !.devices = @ \cup
        {[serial |-> serial, transport_id |-> reg.next_id,
          state |-> "Device", origin |-> origin]}]

Push(reg, serial, origin) ==
    [devices |-> reg.devices \cup
        {[serial |-> serial, transport_id |-> reg.next_id,
          state |-> "Device", origin |-> origin]},
     next_id |-> reg.next_id + 1]

\* The first entry with this serial becomes a connected TCP device at addr.
Reconnected(reg, serial, addr) ==
    [reg EXCEPT !.devices =
        {IF IsFirst(reg, d, serial)
           THEN [d EXCEPT !.state = "Device", !.origin = addr]
           ELSE d : d \in @}]

upsert_tcp_device(reg, addr) ==
    IF Listed(reg, AddrString[addr])
      THEN Reconnected(reg, AddrString[addr], addr)
      ELSE Push(reg, AddrString[addr], addr)

\* host:connect and host:emulator register the entry under the user's name.
rename_device(reg, ip_serial, serial) ==
    [reg EXCEPT !.devices =
        {IF IsFirst(reg, d, ip_serial) THEN [d EXCEPT !.serial = serial] ELSE d : d \in @}]

set_state(reg, serial, state) ==
    [reg EXCEPT !.devices =
        {IF IsFirst(reg, d, serial) THEN [d EXCEPT !.state = state] ELSE d : d \in @}]

\* Defective form: the id is given back.
RemoveAndFreeId(reg, serial) ==
    [devices |-> {d \in reg.devices : d.serial # serial}, next_id |-> reg.next_id - 1]

remove_device(reg, serial) ==
    [reg EXCEPT !.devices = {d \in @ : d.serial # serial}]

remove_all_tcp_devices(reg) ==
    [reg EXCEPT !.devices = {d \in @ : d.origin = Usb}]

\* Defective form: looks among the USB entries only.
NewUsbIgnoringTcp(reg, found) ==
    {s \in found : ~\E d \in reg.devices : d.serial = s /\ d.origin = Usb}

\* The enumerated serials that the table does not hold under any origin.
NewUsb(reg, found) == {s \in found : ~Listed(reg, s)}

\* The ways to hand the next ids to a set of new devices, one per bus order.
Numberings(reg, new) ==
    {ids \in [new -> reg.next_id .. (reg.next_id + Cardinality(new) - 1)] :
        \A s, t \in new : ids[s] = ids[t] => s = t}

\* Defective form: pulled devices stay.
RefreshOnlyAdds(reg, found, ids) ==
    [devices |-> reg.devices \cup
        {[serial |-> s, transport_id |-> ids[s],
          state |-> "Device", origin |-> Usb] : s \in NewUsb(reg, found)},
     next_id |-> reg.next_id + Cardinality(NewUsb(reg, found))]

refresh_usb_devices(reg, found, ids) ==
    [devices |->
        {d \in reg.devices : d.origin = Usb => d.serial \in found} \cup
        {[serial |-> s, transport_id |-> ids[s],
          state |-> "Device", origin |-> Usb] : s \in NewUsb(reg, found)},
     next_id |-> reg.next_id + Cardinality(NewUsb(reg, found))]

\* The services that resolve to this serial and have an address.
Candidates(mdns, serial) ==
    {k \in MdnsKeys : mdns[k] # None /\ mdns[k].serial = serial /\ mdns[k].addr # None}

\* The address of the first candidate by service type, then instance name.
BestAddr(mdns, serial) ==
    mdns[CHOOSE k \in Candidates(mdns, serial) :
            \A j \in Candidates(mdns, serial) : k =< j].addr

\* Defective form: does not ask whether the entry is a USB device.
RefreshOverUsb(reg, mdns, serial) ==
    IF Candidates(mdns, serial) = {}
      THEN remove_device(reg, serial)
      ELSE IF Listed(reg, serial)
        THEN Reconnected(reg, serial, BestAddr(mdns, serial))
        ELSE Push(reg, serial, BestAddr(mdns, serial))

refresh_device_for_serial(reg, mdns, serial) ==
    IF Candidates(mdns, serial) = {}
      THEN [reg EXCEPT !.devices = {d \in @ : d.serial # serial \/ d.origin = Usb}]
      ELSE IF ~Listed(reg, serial)
        THEN Push(reg, serial, BestAddr(mdns, serial))
        ELSE IF \E d \in reg.devices : IsFirst(reg, d, serial) /\ d.origin = Usb
          THEN reg
          ELSE Reconnected(reg, serial, BestAddr(mdns, serial))

\* Defective form: the serial a service had before is not looked at again.
ApplyNewSerialOnly(reg, mdns, key, service) ==
    LET new == [mdns EXCEPT ![key] = service]
    IN  refresh_device_for_serial(reg, new, IF service = None THEN mdns[key].serial
                                                               ELSE service.serial)

\* Create and Update store the service; Delete (service = None) drops it.
apply_discovery_event(reg, mdns, key, service) ==
    LET new == [mdns EXCEPT ![key] = service]
        cleaned == IF mdns[key] # None /\ (service = None \/ service.serial # mdns[key].serial)
                     THEN refresh_device_for_serial(reg, new, mdns[key].serial)
                     ELSE reg
    IN  IF service = None
          THEN cleaned
          ELSE refresh_device_for_serial(cleaned, new, service.serial)
=============================================================================
