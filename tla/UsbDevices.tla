----------------------------- MODULE UsbDevices -----------------------------
(***************************************************************************)
(* How the tools find and open a USB device: directly through usbfs        *)
(* (usb_android.rs of both protocol crates) or through libusb (usb.rs and  *)
(* usb_rusb.rs), for adb and for fastboot.  A device node is a sequence of *)
(* descriptors; while a usbfs call is between its list of candidates and   *)
(* the open, devices come and go.                                          *)
(***************************************************************************)
EXTENDS Naturals, Sequences, SequencesExt, FiniteSets

CONSTANTS
    Nodes,        \* bus addresses, numbers
    Single,       \* descriptor sequences tried as the only device of the bus
    Devices,      \* devices tried together: records [serial, config]
    NoSerial,     \* the serial of a device that has none
    MaxChanges    \* devices exchanged during a call

VARIABLES
    usb_call,     \* [proto, lib, by, arg]
    usb_bus,      \* node -> {} or {device}
    usb_pc,       \* "enumerate", "open" or "done"
    candidates,   \* nodes found, with the serials read
    opened,       \* {} or {the interface that was claimed}
    excused,      \* something outside the program went wrong
    usb_changes, stale

vars == <<usb_call, usb_bus, usb_pc, candidates, opened, excused, usb_changes, stale>>

(***************************************************************************)
(* Descriptors: [t |-> "interface", proto, num, alt], [t |-> "endpoint",   *)
(* bulk, dir, addr, size], and [t |-> "other"] or [t |-> "malformed"].     *)
(***************************************************************************)
is_adb_interface(d) == d.proto = "adb" /\ d.alt = 0
is_fastboot_interface(d) == d.proto = "fastboot"

NoCandidate == [on |-> FALSE, num |-> 0, alt |-> 0, in |-> {}, out |-> {}, size |-> {}]
Candidate(d) == [NoCandidate EXCEPT !.on = TRUE, !.num = d.num, !.alt = d.alt]

complete_endpoint_info(c) == c.on /\ c.in # {} /\ c.out # {}

(* The scan stops with an error ("failed") or with the first complete          *)
(* candidate, noticed when the next interface begins.                          *)
OnInterface(st, d, wanted) ==
    IF complete_endpoint_info(st.c) THEN [st EXCEPT !.end = "found"]
    ELSE [st EXCEPT !.c = IF wanted THEN Candidate(d) ELSE NoCandidate]

(* Mutant: the endpoints' packet sizes are not compared. *)
OnEndpointAnySize(st, d) ==
    IF ~st.c.on \/ ~d.bulk THEN st
    ELSE [st EXCEPT !.c = IF d.dir = "in" THEN [@ EXCEPT !.in = IF @ = {} THEN {d.addr} ELSE @, !.size = {d.size}]
                          ELSE [@ EXCEPT !.out = IF @ = {} THEN {d.addr} ELSE @, !.size = {d.size}]]

OnEndpoint(st, d) ==
    CASE ~st.c.on \/ ~d.bulk -> st
      [] st.c.on /\ d.bulk /\ (d.size = 0 \/ ~(st.c.size \subseteq {d.size})) -> [st EXCEPT !.end = "failed"]
      [] OTHER -> [st EXCEPT !.c = IF d.dir = "in" THEN [@ EXCEPT !.in = IF @ = {} THEN {d.addr} ELSE @, !.size = {d.size}]
                                   ELSE [@ EXCEPT !.out = IF @ = {} THEN {d.addr} ELSE @, !.size = {d.size}]]

Scan(ds, proto) ==
    LET Wanted(d) == IF proto = "adb" THEN is_adb_interface(d) ELSE is_fastboot_interface(d)
        Step(st, d) ==
          CASE st.end # "no" -> st
            [] st.end = "no" /\ d.t = "malformed" -> [st EXCEPT !.end = "failed"]
            [] st.end = "no" /\ d.t = "interface" -> OnInterface(st, d, Wanted(d))
            [] st.end = "no" /\ d.t = "endpoint" -> OnEndpoint(st, d)
            [] OTHER -> st
        st == FoldLeft(Step, [c |-> NoCandidate, end |-> "no"], ds)
    IN  IF st.end # "failed" /\ complete_endpoint_info(st.c) THEN {st.c} ELSE {}

(* {} for any error, else the interface found. *)
parse_adb_interface_descriptors(ds) == Scan(ds, "adb")
parse_fastboot_interface_descriptors(ds) == Scan(ds, "fastboot")

Parse(proto, ds) ==
    IF proto = "adb" THEN parse_adb_interface_descriptors(ds) ELSE parse_fastboot_interface_descriptors(ds)

(***************************************************************************)
(* libusb has grouped the descriptors already, and shows no configuration  *)
(* it cannot read.                                                         *)
(***************************************************************************)
Readable(ds) == \A i \in DOMAIN ds : ds[i].t # "malformed"
Interfaces(ds) == {i \in DOMAIN ds : ds[i].t = "interface"}
Bulk(ds, i, dir) ==
    {j \in i + 1 .. Len(ds) : /\ ds[j].t = "endpoint" /\ ds[j].bulk /\ ds[j].dir = dir
                              /\ \A k \in i + 1 .. j : k \notin Interfaces(ds)}
First(S) == CHOOSE i \in S : \A j \in S : i <= j
Final(S) == CHOOSE i \in S : \A j \in S : j <= i

Claimed(ds, i, in, out) ==
    [on |-> TRUE, num |-> ds[i].num, alt |-> ds[i].alt, in |-> {ds[in].addr}, out |-> {ds[out].addr}, size |-> {ds[out].size}]

(* The first interface that looks like adb, complete or not, and the last      *)
(* endpoints of it.                                                            *)
descriptor_info(ds) ==
    LET i == First({j \in Interfaces(ds) : is_adb_interface(ds[j])})
        in == Bulk(ds, i, "in")
        out == Bulk(ds, i, "out")
    IN  IF in = {} \/ out = {} THEN {}
        ELSE LET a == ds[Final(in)].size
                 b == ds[Final(out)].size
             IN  IF a = 0 \/ b = 0 \/ a # b THEN {} ELSE {Claimed(ds, i, Final(in), Final(out))}

validate(ds, i) ==
    /\ Bulk(ds, i, "in") # {} /\ Bulk(ds, i, "out") # {}
    /\ ds[First(Bulk(ds, i, "in"))].size # 0 /\ ds[First(Bulk(ds, i, "out"))].size # 0

(* The first fastboot interface that is complete. *)
find_descriptor(ds) ==
    LET is == {i \in Interfaces(ds) : is_fastboot_interface(ds[i]) /\ validate(ds, i)}
    IN  IF is = {} THEN {}
        ELSE {Claimed(ds, First(is), First(Bulk(ds, First(is), "in")), First(Bulk(ds, First(is), "out")))}

LooksLikeAdb(ds) == Readable(ds) /\ \E i \in Interfaces(ds) : is_adb_interface(ds[i])

(***************************************************************************)
(* The calls.                                                              *)
(***************************************************************************)
Serials == {d.serial : d \in Devices} \ {NoSerial}
Asks == {<<"first", 0>>} \cup ({"serial"} \X Serials) \cup ({"address"} \X Nodes)

Init ==
    /\ \E proto \in {"adb", "fastboot"}, lib \in {"usbfs", "rusb"} :
         \/ \E ds \in Single :
              /\ usb_call = [proto |-> proto, lib |-> lib, by |-> "first", arg |-> 0]
              /\ usb_bus = [n \in Nodes |-> IF n = First(Nodes) THEN {[serial |-> NoSerial, config |-> ds]} ELSE {}]
              /\ usb_changes = MaxChanges
         \/ \E a \in Asks :
              /\ usb_call = [proto |-> proto, lib |-> lib, by |-> a[1], arg |-> a[2]]
              /\ usb_bus \in [Nodes -> {{}} \cup {{d} : d \in Devices}]
              /\ usb_changes = 0
    /\ usb_pc = IF usb_call.lib = "usbfs" /\ usb_call.by # "address" THEN "enumerate" ELSE "open"
    /\ candidates = {} /\ opened = {} /\ excused = FALSE /\ stale = FALSE

(* A device is pulled out, another one gets its address. *)
Change ==
    /\ usb_pc = "open" /\ usb_call.lib = "usbfs" /\ usb_changes < MaxChanges
    /\ \E n \in Nodes, d \in {{}} \cup {{x} : x \in Devices} :
         d # usb_bus[n] /\ usb_bus' = [usb_bus EXCEPT ![n] = d]
    /\ usb_changes' = usb_changes + 1 /\ stale' = TRUE
    /\ UNCHANGED <<usb_call, usb_pc, candidates, opened, excused>>

Present == {n \in Nodes : usb_bus[n] # {}}
On(n) == CHOOSE d \in usb_bus[n] : TRUE

Done == usb_pc' = "done" /\ UNCHANGED <<usb_call, usb_bus, candidates, usb_changes, stale>>
NoDevice == Done /\ UNCHANGED <<opened, excused>>
Broken == Done /\ excused' = TRUE /\ UNCHANGED opened

(* The serial in sysfs, which may be missing or unreadable. *)
read_serial_from_sysfs(n) == {On(n).serial, NoSerial}

Matches(c) == CASE usb_call.by = "serial" -> c.serial = usb_call.arg [] OTHER -> TRUE

(* Every node that can be opened, read and parsed.  open_first takes whichever *)
(* the directory lists first, open_by_serial one with that serial.             *)
enumerate ==
    /\ usb_pc = "enumerate"
    /\ \E able \in SUBSET Present :
         LET found == {n \in able : Parse(usb_call.proto, On(n).config) # {}}
         IN  /\ \E read \in [found -> Serials \cup {NoSerial}] :
                  /\ \A n \in found : read[n] \in read_serial_from_sysfs(n)
                  /\ candidates' = {[node |-> n, serial |-> read[n]] : n \in found}
                  /\ excused' = (able # Present \/ \E n \in found : read[n] # On(n).serial)
             /\ usb_pc' = IF \E c \in candidates' : Matches(c) THEN "open" ELSE "done"
    /\ UNCHANGED <<usb_call, usb_bus, opened, usb_changes, stale>>

(* The node is opened and its descriptors are read again; the interface is     *)
(* claimed, by detaching its driver or as it is; a fastboot interface is       *)
(* switched to its alternate setting.                                          *)
open_device_node(n) ==
    \/ Broken
    \/ usb_bus[n] = {} /\ NoDevice
    \/ /\ usb_bus[n] # {}
       /\ LET found == Parse(usb_call.proto, On(n).config)
          IN  \/ found = {} /\ NoDevice
              \/ \E c \in found : opened' = {[node |-> n, device |-> On(n), c |-> c, active |-> c.alt]}
                                  /\ Done /\ UNCHANGED excused

UsbfsOpens ==
    /\ usb_call.lib = "usbfs" /\ usb_pc = "open"
    /\ IF usb_call.by = "address" THEN open_device_node(usb_call.arg)
       ELSE \E c \in candidates : Matches(c) /\ open_device_node(c.node)

(* libusb lists the devices in any order: the first that matches and can be    *)
(* claimed is taken.  For adb, one that matches and is incomplete ends the     *)
(* search; for fastboot, one that cannot be opened does.                       *)
Selected(n) ==
    CASE usb_call.by = "serial" -> On(n).serial = usb_call.arg
      [] usb_call.by = "address" -> n = usb_call.arg
      [] OTHER -> TRUE

Looks(n) == IF usb_call.proto = "adb" THEN LooksLikeAdb(On(n).config)
            ELSE Readable(On(n).config) /\ find_descriptor(On(n).config) # {}
Info(n) == IF usb_call.proto = "adb" THEN descriptor_info(On(n).config) ELSE find_descriptor(On(n).config)

open_with_selector ==
    /\ usb_call.lib = "rusb" /\ usb_pc = "open"
    /\ LET found == {n \in Present : Looks(n) /\ Selected(n)}
       IN  \/ found = {} /\ NoDevice
           \/ Broken
           \/ \E n \in found : Info(n) = {} /\ NoDevice
           \/ \E n \in found : \E c \in Info(n) :
                opened' = {[node |-> n, device |-> On(n), c |-> c, active |-> c.alt]} /\ Done /\ UNCHANGED excused

Next == Change \/ enumerate \/ UsbfsOpens \/ open_with_selector

Spec == Init /\ [][Next]_vars

(***************************************************************************)
(* Properties.                                                             *)
(***************************************************************************)
(* An interface of the kind asked for, with a pair of usable endpoints. *)
IsInterface(ds, c) ==
    \E i \in Interfaces(ds) :
       /\ ds[i].proto = usb_call.proto /\ ds[i].num = c.num /\ ds[i].alt = c.alt
       /\ \E a \in Bulk(ds, i, "in"), b \in Bulk(ds, i, "out") :
            /\ c.in = {ds[a].addr} /\ c.out = {ds[b].addr}
            /\ ds[a].size # 0 /\ ds[b].size # 0
            /\ (usb_call.lib = "usbfs" \/ usb_call.proto = "adb") => ds[a].size = ds[b].size

(* A device nobody could object to: readable, and each interface of the kind   *)
(* has one endpoint each way, of one size.                                     *)
Plain(ds) ==
    /\ Readable(ds)
    /\ \A i \in Interfaces(ds) : ds[i].proto = usb_call.proto =>
         /\ Cardinality(Bulk(ds, i, "in")) = 1 /\ Cardinality(Bulk(ds, i, "out")) = 1
         /\ \A j \in Bulk(ds, i, "in") \cup Bulk(ds, i, "out") :
              ds[j].size # 0 /\ \A k \in Bulk(ds, i, "in") \cup Bulk(ds, i, "out") : ds[k].size = ds[j].size

Asked(n) ==
    /\ \E i \in Interfaces(On(n).config) : LET d == On(n).config[i] IN d.proto = usb_call.proto /\ (d.proto = "adb" => d.alt = 0)
    /\ Selected(n)

(* What is opened is an interface of the kind asked for, with endpoints of its  *)
(* own and in its active alternate setting, on the device asked for, unless     *)
(* another one took its address after the candidates were listed.  And a call   *)
(* fails only for a reason: on plain devices it finds the one that was asked    *)
(* for unless the bus changes, or a node or serial cannot be read.              *)
UsbOpensAsAsked ==
    /\ \A o \in opened :
         /\ IsInterface(o.device.config, o.c) /\ o.active = o.c.alt /\ (usb_call.proto = "adb" => o.active = 0)
         /\ usb_call.by = "address" => o.node = usb_call.arg
         /\ usb_call.by = "serial" /\ ~stale => o.device.serial = usb_call.arg
    /\ usb_pc = "done" /\ opened = {} /\ ~excused /\ ~stale /\ (\A n \in Present : Plain(On(n).config)) =>
         ~\E n \in Present : Asked(n)
=============================================================================
