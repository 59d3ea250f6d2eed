------------------------------ MODULE AdbServer ------------------------------
(***************************************************************************)
(* The ADB host server: one thread per client connection (handler.rs,      *)
(* smart_socket.rs), one reader thread per device connection that          *)
(* host:connect or host:emulator made, the USB watcher thread (watcher.rs) *)
(* and the mDNS callback (mdns_backend.rs), all sharing the registry.      *)
(* A step is what one thread does in one hold of the registry mutex; the   *)
(* threads interleave wherever the code releases it.                       *)
(***************************************************************************)
EXTENDS TransportRegistry

CONSTANTS
    Threads,     \* client threads (and the threads host:emulator spawns)
    Commands,    \* the host services that clients ask for
    WatchMode,   \* "poll" or "inotify": how the USB watcher learns of a change
    MaxId,       \* bound: transport ids handed out
    MaxConns,    \* bound: device connections per target
    MaxPlugs     \* bound: times one USB device is plugged in

ASSUME ServerAssumption ==
    /\ WatchMode \in {"poll", "inotify"}
    /\ MaxId \in Nat /\ MaxConns \in Nat /\ MaxPlugs \in Nat

VARIABLES
    reg,       \* TransportRegistry: devices and next_id
    mdns,      \* TransportRegistry.mdns_services
    usb_auth,  \* TransportRegistry.usb_auth: the attachment a handle was opened on, 0 if none
    thread,    \* where each client thread is
    watchers,  \* per target, the reader threads of its device connections
    usbw,      \* the USB watcher thread
    bus,       \* the devices on the bus and how often each was plugged in
    inotify,   \* an event for /dev/bus/usb waits to be read
    running    \* the server's shutdown flag

vars == <<reg, mdns, usb_auth, thread, watchers, usbw, bus, inotify, running>>

-----------------------------------------------------------------------------
(* State *)

\* host:transport:<serial>, host:transport-any and host:transport-id:<id>; the
\* host:tport: forms select in the same way.
Selection == [kind : {"transport"}, serial : Serials]
             \cup [kind : {"transport-any"}]
             \cup [kind : {"transport-id"}, id : Nat]

\* `chosen` is the id of the transport that the dispatch acknowledged, 0 if it
\* answered FAIL.
Thread == [pc : {"idle", "waiting"}]
    \cup [pc : {"connecting"}, target : Targets, i : Nat \ {0}]
    \cup [pc : {"connected"}, target : Targets, i : Nat \ {0}]
    \cup [pc : {"selected"}, cmd : Selection, chosen : Nat]
    \cup [pc : {"bridging"}, cmd : Selection, chosen : Nat, serial : Serials]
    \cup [pc : {"usbauth", "bridged"}, cmd : Selection, chosen : Nat, serial : Serials,
          id : Nat]
    \cup [pc : {"tracking"}, last : {None} \cup SUBSET (Nat \X Serials \X DeviceState)]

Idle == [pc |-> "idle"]

\* The one type invariant of the module: every variable keeps its shape, the
\* registry stays a table of well-formed entries and every thread is at one of
\* the program points between two holds of the mutex.
TypeOK ==
    /\ reg \in Registry
    /\ mdns \in [MdnsKeys -> MdnsService \cup {None}]
    /\ usb_auth \in [UsbSerials -> Nat]
    /\ thread \in [Threads -> Thread]
    /\ watchers \in [Targets -> Nat]
    /\ usbw \in [pc : {"sleep", "collect", "auth", "opened", "store"},
                 todo : SUBSET UsbSerials, serial : UsbSerials \cup {None}, handle : Nat]
    /\ bus \in [UsbSerials -> [attached : BOOLEAN, plugs : Nat]]
    /\ inotify \in BOOLEAN
    /\ running \in BOOLEAN

Attached == {s \in UsbSerials : bus[s].attached}

\* TransportRegistry::new enumerates the bus once, before any thread starts.
Init ==
    /\ bus \in [UsbSerials -> {[attached |-> FALSE, plugs |-> 0],
                               [attached |-> TRUE, plugs |-> 1]}]
    /\ LET empty == [devices |-> {}, next_id |-> 1]
       IN \/ \E ids \in Numberings(empty, Attached) :
                reg = refresh_usb_devices(empty, Attached, ids)
          \/ reg = empty
    /\ mdns = [k \in MdnsKeys |-> None]
    /\ usb_auth = [s \in UsbSerials |-> 0]
    /\ thread = [c \in Threads |-> Idle]
    /\ watchers = [t \in Targets |-> 0]
    /\ usbw = [pc |-> "auth", todo |-> {}, serial |-> None, handle |-> 0]
    /\ inotify = FALSE
    /\ running = TRUE

At(c, pc) == thread[c].pc = pc

Goto(c, t) == thread' = [thread EXCEPT ![c] = t]

\* The bound on the steps that hand out ids (next_id is a u64 in the code).  The
\* watcher is not held back by it: what it adds is bounded by MaxPlugs and by
\* the bound on Disconnect.
IdsBounded == reg'.next_id =< MaxId + 1

\* A client thread reads its next command.  It does not look at the shutdown
\* flag: threads serve their clients until the process exits.
Asked(c, command) == At(c, "idle") /\ command \in Commands

-----------------------------------------------------------------------------
(* host:connect and host:emulator *)

\* Defective form: starts before the first address.
ConnectBeforeFirst(c, t) ==
    /\ Asked(c, "connect") /\ t \notin Emulators
    /\ ~Listed(reg, t)
    /\ watchers[t] < MaxConns
    /\ Goto(c, [pc |-> "connecting", target |-> t, i |-> 0])
    /\ UNCHANGED <<reg, mdns, usb_auth, watchers, usbw, bus, inotify, running>>

\* A target that is listed already, in any state, is answered "already
\* connected" and nothing changes.
ConnectBegin(c, t) ==
    /\ Asked(c, "connect") /\ t \notin Emulators
    /\ ~Listed(reg, t)
    /\ watchers[t] < MaxConns
    /\ Goto(c, [pc |-> "connecting", target |-> t, i |-> 1])
    /\ UNCHANGED <<reg, mdns, usb_auth, watchers, usbw, bus, inotify, running>>

EmulatorBegin(c, t) ==
    /\ Asked(c, "emulator") /\ t \in Emulators
    /\ watchers[t] < MaxConns
    /\ Goto(c, [pc |-> "connecting", target |-> t, i |-> 1])
    /\ UNCHANGED <<reg, mdns, usb_auth, watchers, usbw, bus, inotify, running>>

\* connect_to_remote: the TCP connection and the handshake need no lock; on
\* success the device is registered under the text of its address.
ConnectToRemoteOk(c) ==
    /\ At(c, "connecting")
    /\ reg' = upsert_tcp_device(reg, Resolve[thread[c].target][thread[c].i])
    /\ IdsBounded
    /\ Goto(c, [thread[c] EXCEPT !.pc = "connected"])
    /\ UNCHANGED <<mdns, usb_auth, watchers, usbw, bus, inotify, running>>

ConnectToRemoteErr(c) ==
    /\ At(c, "connecting")
    /\ Goto(c, IF thread[c].i < Len(Resolve[thread[c].target])
                 THEN [thread[c] EXCEPT !.i = @ + 1]
                 ELSE Idle)
    /\ UNCHANGED <<reg, mdns, usb_auth, watchers, usbw, bus, inotify, running>>

\* The entry is renamed in a second hold of the mutex, the reader thread is
\* spawned and the client is told "connected to <target>".
ConnectFinish(c) ==
    /\ At(c, "connected")
    /\ LET t == thread[c].target
       IN /\ reg' = rename_device(reg, AddrString[Resolve[t][thread[c].i]], t)
          /\ watchers' = [watchers EXCEPT ![t] = @ + 1]
    /\ Goto(c, Idle)
    /\ UNCHANGED <<mdns, usb_auth, usbw, bus, inotify, running>>

\* A reader thread sees its connection fail and marks the first entry that
\* has the serial it was started for.
ConnectionLost(t) ==
    /\ watchers[t] > 0
    /\ reg' = set_state(reg, t, "Offline")
    /\ watchers' = [watchers EXCEPT ![t] = @ - 1]
    /\ UNCHANGED <<mdns, usb_auth, thread, usbw, bus, inotify, running>>

\* Disconnecting changes the table only: the connection and its reader stay.
Disconnect(s) ==
    /\ "disconnect" \in Commands
    /\ Listed(reg, s) /\ reg.next_id =< MaxId
    /\ reg' = remove_device(reg, s)
    /\ UNCHANGED <<mdns, usb_auth, thread, watchers, usbw, bus, inotify, running>>

DisconnectAll ==
    /\ "disconnect" \in Commands
    /\ reg' = remove_all_tcp_devices(reg)
    /\ UNCHANGED <<mdns, usb_auth, thread, watchers, usbw, bus, inotify, running>>

-----------------------------------------------------------------------------
(* Transport selection: dispatch, second look-up, bridge *)

\* The entries for which dispatch_host_service answers OKAY (at most one).
Acknowledged(cmd) ==
    {d \in Usable(reg) :
        \/ cmd.kind = "transport" /\ IsFirst(reg, d, cmd.serial)
        \/ cmd.kind = "transport-any" /\ d \in find_unique_device(reg)
        \/ cmd.kind = "transport-id" /\ d.transport_id = cmd.id}

\* run_smart_socket_loop does not look at the answer: it goes on to the bridge
\* after FAIL as well.
Select(c, cmd) ==
    /\ Asked(c, cmd.kind)
    /\ \/ \E d \in Acknowledged(cmd) :
            Goto(c, [pc |-> "selected", cmd |-> cmd, chosen |-> d.transport_id])
       \/ /\ Acknowledged(cmd) = {}
          /\ Goto(c, [pc |-> "selected", cmd |-> cmd, chosen |-> 0])
    /\ UNCHANGED <<reg, mdns, usb_auth, watchers, usbw, bus, inotify, running>>

\* extract_serial_from_transport_cmd looks the transport up once more, by id
\* without regard to its state; an error closes the client's connection.
ExtractedSerials(cmd) ==
    {s \in Serials :
        \/ cmd.kind = "transport" /\ s = cmd.serial
        \/ cmd.kind = "transport-any" /\ \E d \in find_unique_device(reg) : s = d.serial
        \/ cmd.kind = "transport-id" /\ \E d \in reg.devices :
                                           d.transport_id = cmd.id /\ s = d.serial}

ExtractSerial(c) ==
    /\ At(c, "selected")
    /\ LET th == thread[c]
       IN \/ \E s \in ExtractedSerials(th.cmd) :
                Goto(c, [pc |-> "bridging", cmd |-> th.cmd, chosen |-> th.chosen, serial |-> s])
          \/ ExtractedSerials(th.cmd) = {} /\ Goto(c, Idle)
    /\ UNCHANGED <<reg, mdns, usb_auth, watchers, usbw, bus, inotify, running>>

\* Defective form: takes the first usable device, whatever its serial.
BridgeToAnyDevice(c) ==
    /\ At(c, "bridging")
    /\ LET th == thread[c]
       IN \E d \in find_any_device(reg) :
             Goto(c, [pc |-> "bridged", cmd |-> th.cmd, chosen |-> th.chosen,
                      serial |-> th.serial, id |-> d.transport_id])
    /\ UNCHANGED <<reg, mdns, usb_auth, watchers, usbw, bus, inotify, running>>

\* bridge_to_device_with_smart finds the first entry with the serial and opens
\* a transport to its origin, which may fail; a USB transport comes from the
\* cache, in a second hold of the mutex.
BridgeToDevice(c) ==
    /\ At(c, "bridging")
    /\ LET th == thread[c]
       IN \/ \E d \in reg.devices :
                /\ IsFirst(reg, d, th.serial)
                /\ Goto(c, [pc |-> IF d.origin = Usb THEN "usbauth" ELSE "bridged",
                            cmd |-> th.cmd, chosen |-> th.chosen, serial |-> th.serial,
                            id |-> d.transport_id])
          \/ /\ \A d \in reg.devices : IsFirst(reg, d, th.serial) => d.origin # Usb
             /\ Goto(c, Idle)
    /\ UNCHANGED <<reg, mdns, usb_auth, watchers, usbw, bus, inotify, running>>

\* ensure_usb_auth: the cached handle, or one opened on the attached device and
\* cached, or an error.
EnsureUsbAuth(c) ==
    /\ At(c, "usbauth")
    /\ LET s == thread[c].serial
       IN \/ /\ usb_auth[s] # 0 \/ bus[s].attached
             /\ usb_auth' = [usb_auth EXCEPT ![s] = IF @ # 0 THEN @ ELSE bus[s].plugs]
             /\ Goto(c, [thread[c] EXCEPT !.pc = "bridged"])
          \/ /\ usb_auth[s] = 0
             /\ Goto(c, Idle)
             /\ UNCHANGED usb_auth
    /\ UNCHANGED <<reg, mdns, watchers, usbw, bus, inotify, running>>

\* The bridge ends when either side closes.
Unbridge(c) ==
    /\ At(c, "bridged")
    /\ Goto(c, Idle)
    /\ UNCHANGED <<reg, mdns, usb_auth, watchers, usbw, bus, inotify, running>>

-----------------------------------------------------------------------------
(* host:track-devices, host:wait-for-device, host:kill *)

TrackBegin(c) ==
    /\ Asked(c, "track-devices")
    /\ Goto(c, [pc |-> "tracking", last |-> None])
    /\ UNCHANGED <<reg, mdns, usb_auth, watchers, usbw, bus, inotify, running>>

\* Defective form: publishes when a device came or left, not when one changed.
TrackLength(c) ==
    /\ At(c, "tracking")
    /\ LET last == thread[c].last
       IN \/ /\ running
             /\ last # None => Cardinality(last) # Cardinality(reg.devices)
             /\ Goto(c, [thread[c] EXCEPT !.last = list_devices(reg)])
          \/ ~running /\ Goto(c, Idle)
    /\ UNCHANGED <<reg, mdns, usb_auth, watchers, usbw, bus, inotify, running>>

\* One round of the loop: publish the list if it differs from the last one.
TrackPoll(c) ==
    /\ At(c, "tracking")
    /\ \/ running /\ Goto(c, [thread[c] EXCEPT !.last = list_devices(reg)])
       \/ ~running /\ Goto(c, Idle)
    /\ UNCHANGED <<reg, mdns, usb_auth, watchers, usbw, bus, inotify, running>>

WaitBegin(c) ==
    /\ Asked(c, "wait-for-device")
    /\ Goto(c, [pc |-> "waiting"])
    /\ UNCHANGED <<reg, mdns, usb_auth, watchers, usbw, bus, inotify, running>>

\* OKAY once some device is usable, FAIL once the server shuts down.
WaitPoll(c) ==
    /\ At(c, "waiting")
    /\ ~running \/ find_any_device(reg) # {}
    /\ Goto(c, Idle)
    /\ UNCHANGED <<reg, mdns, usb_auth, watchers, usbw, bus, inotify, running>>

Kill ==
    /\ running /\ "kill" \in Commands
    /\ running' = FALSE
    /\ UNCHANGED <<reg, mdns, usb_auth, thread, watchers, usbw, bus, inotify>>

-----------------------------------------------------------------------------
(* The USB bus, the USB watcher thread and the mDNS callback *)

\* A device is plugged in or pulled.  The inotify watch is on the directory
\* /dev/bus/usb alone: it reports a new or removed bus directory (dir), not
\* the device nodes inside one.
Attach(s, dir) ==
    /\ ~bus[s].attached /\ bus[s].plugs < MaxPlugs
    /\ bus' = [bus EXCEPT ![s] = [attached |-> TRUE, plugs |-> @.plugs + 1]]
    /\ inotify' = (inotify \/ dir)
    /\ UNCHANGED <<reg, mdns, usb_auth, thread, watchers, usbw, running>>

Detach(s, dir) ==
    /\ bus[s].attached
    /\ bus' = [bus EXCEPT ![s].attached = FALSE]
    /\ inotify' = (inotify \/ dir)
    /\ UNCHANGED <<reg, mdns, usb_auth, thread, watchers, usbw, running>>

\* The watcher has finished a round, looks at the shutdown flag and waits ...
WatcherLoop ==
    /\ running
    /\ usbw.pc = "auth" /\ usbw.todo = {}
    /\ usbw' = [usbw EXCEPT !.pc = "sleep"]
    /\ UNCHANGED <<reg, mdns, usb_auth, thread, watchers, bus, inotify, running>>

\* ... until POLL_INTERVAL has passed or an event has come.
WatcherWakes ==
    /\ usbw.pc = "sleep"
    /\ WatchMode = "inotify" => inotify
    /\ usbw' = [usbw EXCEPT !.pc = "collect"]
    /\ inotify' = FALSE

RefreshUsb ==
    /\ WatcherWakes
    /\ \E ids \in Numberings(reg, NewUsb(reg, Attached)) :
         reg' = refresh_usb_devices(reg, Attached, ids)
    /\ UNCHANGED <<mdns, usb_auth, thread, watchers, bus, running>>

\* enumerate() fails: the table stays as it is.
RefreshUsbErr ==
    /\ WatcherWakes
    /\ UNCHANGED <<reg, mdns, usb_auth, thread, watchers, bus, running>>

\* preauth_new_usb_devices: the serials still without a handle ...
PreauthCollect ==
    /\ usbw.pc = "collect"
    /\ usbw' = [usbw EXCEPT
            !.pc = "auth",
            !.todo = {s \in UsbSerials :
                        /\ usb_auth[s] = 0
                        /\ \E d \in reg.devices : d.serial = s /\ d.origin = Usb}]
    /\ UNCHANGED <<reg, mdns, usb_auth, thread, watchers, bus, inotify, running>>

\* ... are each opened and authenticated by connect_usb_device without the lock,
PreauthOpen(s) ==
    /\ usbw.pc = "auth" /\ s \in usbw.todo
    /\ bus[s].attached
    /\ usbw' = [pc |-> "opened", todo |-> usbw.todo \ {s}, serial |-> s,
                handle |-> bus[s].plugs]
    /\ UNCHANGED <<reg, mdns, usb_auth, thread, watchers, bus, inotify, running>>

\* which then updates the first entry that has the serial ...
PreauthConnect ==
    /\ usbw.pc = "opened"
    /\ reg' = set_state(reg, usbw.serial, "Device")
    /\ usbw' = [usbw EXCEPT !.pc = "store"]
    /\ UNCHANGED <<mdns, usb_auth, thread, watchers, bus, inotify, running>>

PreauthFail(s) ==
    /\ usbw.pc = "auth" /\ s \in usbw.todo
    /\ usbw' = [usbw EXCEPT !.todo = @ \ {s}]
    /\ UNCHANGED <<reg, mdns, usb_auth, thread, watchers, bus, inotify, running>>

\* ... and cached in a later hold of the mutex, over whatever is there by then.
PreauthStore ==
    /\ usbw.pc = "store"
    /\ usb_auth' = [usb_auth EXCEPT ![usbw.serial] = usbw.handle]
    /\ usbw' = [usbw EXCEPT !.pc = "auth", !.serial = None, !.handle = 0]
    /\ UNCHANGED <<reg, mdns, thread, watchers, bus, inotify, running>>

\* One Create, Update or Delete (service = None) of the discovery engine; a
\* Delete of an unknown service changes nothing.
MdnsEvent(k, service) ==
    /\ service # None \/ mdns[k] # None
    /\ reg' = apply_discovery_event(reg, mdns, k, service)
    /\ IdsBounded
    /\ mdns' = [mdns EXCEPT ![k] = service]
    /\ UNCHANGED <<usb_auth, thread, watchers, usbw, bus, inotify, running>>

-----------------------------------------------------------------------------

DirEvents == IF WatchMode = "inotify" THEN BOOLEAN ELSE {FALSE}

ClientStep(c) ==
    \/ \E t \in Targets : ConnectBegin(c, t) \/ EmulatorBegin(c, t)
    \/ ConnectToRemoteOk(c) \/ ConnectToRemoteErr(c) \/ ConnectFinish(c)
    \/ \E s \in Serials : Select(c, [kind |-> "transport", serial |-> s])
    \/ Select(c, [kind |-> "transport-any"])
    \/ \E n \in 1 .. MaxId : Select(c, [kind |-> "transport-id", id |-> n])
    \/ ExtractSerial(c) \/ BridgeToDevice(c) \/ EnsureUsbAuth(c) \/ Unbridge(c)
    \/ TrackBegin(c) \/ TrackPoll(c) \/ WaitBegin(c) \/ WaitPoll(c)

MdnsStep == \E k \in MdnsKeys, service \in MdnsService \cup {None} : MdnsEvent(k, service)

WatcherStep ==
    \/ WatcherLoop \/ RefreshUsb \/ RefreshUsbErr
    \/ PreauthCollect \/ PreauthConnect \/ PreauthStore
    \/ \E s \in UsbSerials : PreauthOpen(s) \/ PreauthFail(s)

Next ==
    \/ \E c \in Threads : ClientStep(c)
    \/ \E t \in Targets : ConnectionLost(t)
    \/ \E s \in Serials : Disconnect(s)
    \/ DisconnectAll
    \/ Kill
    \/ \E s \in UsbSerials, dir \in DirEvents : Attach(s, dir) \/ Detach(s, dir)
    \/ WatcherStep
    \/ MdnsStep

Spec == Init /\ [][Next]_vars

\* The polling loops of the server run for as long as they are asked to (sleep,
\* lock, look), the watcher finishes its rounds, and neither the enumeration of
\* the bus nor the authentication of an attached device fails for ever.
Fairness ==
    /\ \A c \in Threads : WF_vars(TrackPoll(c)) /\ WF_vars(WaitPoll(c))
    /\ WF_vars(WatcherLoop) /\ SF_vars(RefreshUsb)
    /\ WF_vars(PreauthCollect) /\ WF_vars(PreauthConnect) /\ WF_vars(PreauthStore)
    /\ \A s \in UsbSerials : WF_vars(PreauthFail(s)) /\ SF_vars(PreauthOpen(s))

FairSpec == Spec /\ Fairness

-----------------------------------------------------------------------------
(* Safety *)

UsbEntries == {d \in reg.devices : d.origin = Usb}

\* A transport id names at most one device, and every id in the table was
\* handed out: push is always paired with the increment of next_id, in every
\* one of the four places of the code that push.
UniqueTransportIds ==
    \A d, e \in reg.devices :
        /\ d.transport_id < reg.next_id
        /\ d.transport_id = e.transport_id => d = e

\* Two entries share a serial only if it is a name that some connect target
\* was renamed to; the serials of USB devices, of discovered services and of
\* plain addresses stay unique, although five code paths add or rename
\* entries after look-ups under separate holds of the mutex.
DuplicatesAreRenamed ==
    \A d, e \in reg.devices :
        d.serial = e.serial /\ d # e
            => d.serial \in Targets \ {AddrString[a] : a \in Addrs}

\* An id never comes back: next_id only grows, and an entry that appears has an
\* id that was never handed out before, so a client that remembers the id of a
\* device that left (host:tport:) is not served another one under it.
IdsNeverReused ==
    [][/\ reg.next_id =< reg'.next_id
       /\ \A d \in reg'.devices :
             \/ d.transport_id >= reg.next_id
             \/ \E e \in reg.devices : e.transport_id = d.transport_id]_vars

\* USB entries belong to the watcher thread: no discovery event, connection,
\* rename or lost connection adds, changes or removes one, whatever serials
\* the services and targets have; beside the watcher only a host:disconnect
\* of that very serial does.
UsbOwnedByWatcher ==
    [][\/ usbw' # usbw
       \/ UsbEntries' = UsbEntries
       \/ \E s \in UsbSerials : reg' = remove_device(reg, s)]_vars

\* "Keep one TCP device per resolved serial": the entry of a discovered device
\* is backed by a service that is still advertised, is usable and points at the
\* address of the best of its services; a service that is withdrawn, moves or
\* changes its serial leaves no ghost behind.
DiscoveredIsCurrent ==
    \A d \in reg.devices :
        d.serial \in MdnsSerials \ (Targets \cup UsbSerials \cup {AddrString[a] : a \in Addrs})
            => /\ Candidates(mdns, d.serial) # {}
               /\ d.origin = BestAddr(mdns, d.serial)
               /\ d.state = "Device"

\* A client whose host:transport-id request was acknowledged is bridged to that
\* transport, although the id is turned into a serial and looked up again, as
\* long as the transport has not left the table and its serial is not one of
\* the connect names that can be duplicated.
ChosenUnlessReplaced ==
    [][\A c \in Threads :
          /\ At(c, "bridging") /\ thread'[c].pc \in {"usbauth", "bridged"}
          /\ thread[c].cmd.kind = "transport-id" /\ thread[c].chosen # 0
          => \/ thread'[c].id = thread[c].chosen
             \/ thread[c].serial \in Targets \ {AddrString[a] : a \in Addrs}
             \/ ~\E d \in reg.devices :
                    d.transport_id = thread[c].chosen /\ d.serial = thread[c].serial]_vars

\* "... offline transports must not be selected for a device-level host
\* service": a client whose selection was answered FAIL, because the device is
\* offline or unknown, is not bridged to it.
RefusedNotBridged ==
    \A c \in Threads : At(c, "bridged") => thread[c].chosen # 0

-----------------------------------------------------------------------------
(* Liveness *)

\* A USB device that stays plugged in is listed again and again, and one that
\* stays unplugged leaves the table for good.
UsbFollowsBus ==
    \A s \in UsbSerials :
        /\ <>[](running /\ bus[s].attached) => []<>Listed(reg, s)
        /\ <>[](running /\ ~bus[s].attached)
              => <>[](~\E d \in reg.devices : d.serial = s /\ d.origin = Usb)

\* Nobody who watches the table is forgotten.  "publish a new length-prefixed
\* device list whenever the registry changes": once the table is quiet, every
\* tracker has been sent its final contents.  And a client of
\* host:wait-for-device does not stay blocked once some device stays usable or
\* the server shuts down.
WatchersHear ==
    \A c \in Threads :
        /\ <>[][running' /\ reg' = reg]_<<reg, running>>
              => []<>(At(c, "tracking") /\ running => thread[c].last = list_devices(reg))
        /\ <>[](find_any_device(reg) # {} \/ ~running) => []<>~At(c, "waiting")
=============================================================================
