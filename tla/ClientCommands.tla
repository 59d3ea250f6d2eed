--------------------------- MODULE ClientCommands ---------------------------
(***************************************************************************)
(* One run of the adb client (main_adb.rs, client/file_sync.rs,            *)
(* client/abb.rs, client/transport.rs): which device a command's service   *)
(* is opened on, and how often.  A command may go through the adb server,  *)
(* directly to the device, or through the server first and directly when   *)
(* there is none; meanwhile the server may come and go and devices may be  *)
(* plugged and unplugged.  The text of commands and their output are left  *)
(* out.                                                                    *)
(***************************************************************************)
EXTENDS Naturals, Sequences, FiniteSets

CONSTANTS
    UsbDevices,   \* USB serials
    TcpDevices,   \* serials with a ':' in them
    Local,        \* 127.0.0.1:5555, the daemon an unnamed target stands for
    NoSerial,     \* no -s option
    MaxChanges    \* bound on plugging, connecting, starting and stopping

VARIABLES
    cmd,          \* the command, see below
    serial,       \* -s
    d,            \* -d
    named,        \* -P or -L was given
    bus,          \* the USB devices plugged in
    daemons,      \* the TCP daemons that accept a connection
    joined,       \* the TCP devices the server is connected to
    up,           \* the adb server accepts connections
    changes,      \* changes of the surroundings so far
    pc,           \* where the client is
    target,       \* the device selected or opened: {} or {device}
    among,        \* the devices it was selected from
    retried,      \* the handshake was retried
    ran           \* the devices the service was opened on, in order

vars == <<cmd, serial, d, named, bus, daemons, joined, up, changes, pc,
          target, among, retried, ran>>
run == <<cmd, serial, d, named>>
world == <<bus, daemons, joined, up, changes>>

\* What a command is to this model: the way it takes (via), and on that way
\* whether it checks its arguments first, asks for the device's features,
\* leaves -d without a serial to the server, takes a refused selection as
\* final, stays with a server that was named, tries a handshake again, passes
\* -d on, opens a service at the end, starts a server that is not there, and
\* asks again until it likes the answer.
ServerCommand ==
    [via |-> "server", checks |-> FALSE, features |-> FALSE, unique |-> FALSE,
     final |-> TRUE, stays |-> FALSE, retries |-> FALSE, passes |-> TRUE,
     opens |-> TRUE, starts |-> FALSE, polls |-> FALSE]
DeviceCommand == [ServerCommand EXCEPT !.via = "device"]
TcpCommand == [ServerCommand EXCEPT !.via = "tcp"]
ServerFirst == [ServerCommand EXCEPT !.via = "first", !.final = FALSE]
HostQuery == [ServerCommand EXCEPT !.via = "host", !.opens = FALSE, !.starts = TRUE]
Checked(command) == [command EXCEPT !.checks = TRUE]

Shell == [ServerFirst EXCEPT !.unique = TRUE, !.retries = TRUE]
Exec == Shell
Abb == [ServerFirst EXCEPT !.features = TRUE, !.retries = TRUE]
Push == [Checked(ServerFirst) EXCEPT !.unique = TRUE, !.final = TRUE, !.stays = TRUE,
                                     !.passes = FALSE]
Pull == Push

Reboot == DeviceCommand
Sideload == Checked(DeviceCommand)

Install == Checked(TcpCommand)
InstallMultiple == Checked(TcpCommand)
InstallMultiPackage == Checked(TcpCommand)
Uninstall == TcpCommand
Logcat == TcpCommand
Bugreport == TcpCommand
Sync == Checked(TcpCommand)

Root == ServerCommand
Unroot == ServerCommand
Tcpip == Checked(ServerCommand)
Usb == ServerCommand
Attach == ServerCommand
DisableVerity == ServerCommand
EnableVerity == ServerCommand
Remount == ServerCommand
ReconnectDevice == ServerCommand
Reconnect == [HostQuery EXCEPT !.starts = FALSE]

\* host:jdwp is the one question that is asked of a selected device.
Jdwp == [ServerCommand EXCEPT !.starts = TRUE]
Detach == [Checked(HostQuery) EXCEPT !.starts = FALSE]
ListDevices == HostQuery
ListDevicesLong == [HostQuery EXCEPT !.final = FALSE]
Forward == Checked(HostQuery)
Reverse == Checked(HostQuery)
MdnsCheck == HostQuery
MdnsServices == HostQuery
GetState == HostQuery
GetSerialno == HostQuery
GetDevpath == HostQuery
Connect == HostQuery
Disconnect == HostQuery
WaitForDevice == [HostQuery EXCEPT !.polls = TRUE]
WaitForRecovery == WaitForDevice
WaitForBootloader == WaitForDevice
WaitForDisconnect == WaitForDevice
WaitFor == Checked(WaitForDevice)

AllCommands ==
    {Shell, Exec, Abb, Push, Pull, Reboot, Sideload, Install, InstallMultiple,
     InstallMultiPackage, Uninstall, Logcat, Bugreport, Sync, Root, Unroot, Tcpip,
     Usb, Attach, DisableVerity, EnableVerity, Remount, ReconnectDevice, Reconnect,
     Jdwp, Detach, ListDevices, ListDevicesLong, Forward, Reverse, MdnsCheck,
     MdnsServices, GetState, GetSerialno, GetDevpath, Connect, Disconnect,
     WaitForDevice, WaitForRecovery, WaitForBootloader, WaitForDisconnect, WaitFor}

\* A serial with a ':' in it, or the local daemon, is no USB serial.
DevicesAssumption == UsbDevices \cap (TcpDevices \cup {Local}) = {}

Devices == UsbDevices \cup TcpDevices \cup {Local}
Ends == {"done", "failed"}

Init ==
    /\ cmd \in AllCommands
    /\ serial \in {NoSerial} \cup UsbDevices \cup TcpDevices
    /\ d \in BOOLEAN /\ named \in BOOLEAN
    /\ bus \in SUBSET UsbDevices
    /\ daemons \in SUBSET (TcpDevices \cup {Local})
    /\ up \in BOOLEAN
    /\ joined \in SUBSET (IF up THEN daemons ELSE {})
    /\ changes = 0
    /\ pc = "start" /\ target = {} /\ among = {} /\ retried = FALSE /\ ran = <<>>

Fail == pc' = "failed" /\ UNCHANGED <<target, among, retried, ran>>
Go(p) == pc' = p /\ UNCHANGED <<target, among, retried, ran>>
Take(t, S, p) ==
    pc' = p /\ target' = {t} /\ among' = S /\ UNCHANGED <<retried, ran>>
Runs == /\ ran' = ran \o <<CHOOSE t \in target : TRUE>>
        /\ UNCHANGED <<target, among, retried>>

\* What the server knows, and the candidates of a selector: by serial, any USB
\* device (host:transport-usb) or any device (host:transport-any).  The server
\* accepts a selector with exactly one candidate.
Known == bus \cup joined
transport_usb == Known \cap UsbDevices
switch_transport == IF serial = NoSerial THEN Known ELSE Known \cap {serial}

\* -d without a serial is answered by the server alone.
UniqueUsb == d /\ serial = NoSerial /\ cmd.unique

\* direct_tcp_only_target: -d and a USB serial are refused before connecting.
direct_tcp_only_target ==
    CASE d -> {}
      [] ~d /\ serial = NoSerial -> {Local}
      [] ~d /\ serial # NoSerial -> {serial} \cap TcpDevices

\* What the arguments do not rule out begins with a connection to the server,
\* with a short timeout, or with one to the device.
Start ==
    /\ pc = "start"
    /\ \/ cmd.checks /\ Fail
       \/ cmd.via = "device" /\ Go("open")
       \/ /\ cmd.via = "tcp"
          /\ IF direct_tcp_only_target = {} THEN Fail ELSE Go("tcp")
       \/ /\ cmd.via \in {"server", "first", "host"} /\ up
          /\ Go(CASE cmd.via = "host" -> "ask" [] cmd.features -> "features" [] OTHER -> "select")
       \/ /\ cmd.via \in {"server", "first", "host"} /\ ~up
          /\ Go("noserver")

\* host_command_at runs ensure_server_running and connects once more.
StartServer ==
    /\ pc = "noserver" /\ cmd.starts
    /\ up' = TRUE /\ Go(IF cmd.via = "host" THEN "ask" ELSE "select")
    /\ UNCHANGED <<run, bus, daemons, joined, changes>>

\* One question to the server.  A wait-for command asks up to 60 times: any
\* time may be the last.  devices -l tries a device when the server fails.
Asked ==
    /\ pc = "ask"
    /\ \/ up /\ Go("done")
       \/ cmd.polls /\ Go("start")
       \/ IF cmd.final THEN Fail ELSE Go("open")

\* query_server_features uses a connection of its own; a failed query and a
\* device without abb end the command.
Features ==
    /\ pc = "features"
    /\ \/ up /\ switch_transport # {} /\ Go("select")
       \/ Fail

Select ==
    /\ pc = "select"
    /\ LET candidates == IF UniqueUsb THEN transport_usb ELSE switch_transport
       IN  \/ /\ up /\ Cardinality(candidates) = 1
              /\ \E t \in candidates : Take(t, candidates, "service")
           \/ /\ ~up \/ Cardinality(candidates) # 1 \/ UniqueUsb
              /\ IF UniqueUsb \/ cmd.final THEN Fail ELSE Go("noserver")

\* The service request: the device may have started the service whether or
\* not the answer reaches the client, and a lost or negative answer ends it.
Service ==
    /\ pc = "service"
    /\ \/ up /\ target \subseteq Known /\ Runs /\ pc' \in Ends
       \/ Fail

\* Only these commands go on without a server.
GoesOn == cmd.via = "first" \/ (cmd.via = "host" /\ ~cmd.final)

\* Mutant: -d without a serial opens the first USB device.
NoServerFirst ==
    /\ pc = "noserver"
    /\ IF ~GoesOn \/ (cmd.stays /\ named) THEN Fail ELSE Go("open")

\* Without a server (or refused by it) shell and abb go on directly, except an
\* abb without arguments; push only if no server was named.
NoServer ==
    /\ pc = "noserver"
    /\ \/ IF ~GoesOn \/ UniqueUsb \/ (cmd.stays /\ named) THEN Fail ELSE Go("open")
       \/ cmd.features /\ Fail

\* open_adb_transport: a TCP serial is dialled; otherwise USB, by serial or
\* whichever device is found first; the local daemon only when no device was
\* named and -d was not given (push passes no -d on).
open_adb_transport ==
    LET usb == IF serial = NoSerial THEN bus ELSE bus \cap {serial}
        tcp == IF serial \in TcpDevices THEN {serial}
               ELSE IF serial = NoSerial /\ usb = {} /\ (~d \/ ~cmd.passes) THEN {Local}
               ELSE {}
    IN  /\ pc = "open"
        /\ \/ \E u \in usb : Take(u, usb, "handshake")
           \/ \E t \in tcp \cap daemons : Take(t, tcp, "handshake")
           \/ usb \cup (tcp \cap daemons) = {} /\ Fail

DialTcp ==
    /\ pc = "tcp"
    /\ \/ \E t \in direct_tcp_only_target \cap daemons :
             Take(t, direct_tcp_only_target, "handshake")
       \/ direct_tcp_only_target \cap daemons = {} /\ Fail

\* The handshake with the device.  One that the device closes (CLSE) is tried
\* once more by shell and abb after a pause, on a transport opened again.
Handshake ==
    /\ pc = "handshake"
    /\ \/ target \subseteq bus \cup daemons /\ Go(IF cmd.opens THEN "run" ELSE "done")
       \/ /\ cmd.retries /\ ~retried
          /\ retried' = TRUE /\ pc' = "open" /\ UNCHANGED <<target, among, ran>>
       \/ Fail

\* open_service on the device, and the command's own work.
RunDirect ==
    /\ pc = "run"
    /\ \/ target \subseteq bus \cup daemons /\ Runs /\ pc' \in Ends
       \/ Fail

Client ==
    /\ \/ Start \/ Asked \/ Features \/ Select \/ Service \/ NoServer
       \/ open_adb_transport \/ DialTcp \/ Handshake \/ RunDirect
    /\ UNCHANGED <<run, world>>

\* The surroundings: USB devices come and go, daemons too, the server gains
\* and loses connections, starts and is killed.
World ==
    /\ changes < MaxChanges /\ changes' = changes + 1
    /\ \/ /\ \E u \in UsbDevices : bus' = (bus \ {u}) \cup ({u} \ bus)
          /\ UNCHANGED <<daemons, joined, up>>
       \/ /\ \E t \in TcpDevices \cup {Local} :
                daemons' = (daemons \ {t}) \cup ({t} \ daemons)
          /\ joined' = joined \cap daemons' /\ UNCHANGED <<bus, up>>
       \/ /\ up /\ \E t \in daemons : joined' = joined \cup {t}
          /\ UNCHANGED <<bus, daemons, up>>
       \/ /\ up' = ~up /\ joined' = {} /\ UNCHANGED <<bus, daemons>>
    /\ UNCHANGED <<run, pc, target, among, retried, ran>>

Next == Client \/ StartServer \/ World
Spec == Init /\ [][Next]_vars
-----------------------------------------------------------------------------
\* A command runs once, where it was told.  Whatever fails on the way (a
\* server that dies, an answer that is lost, a handshake tried again), no
\* command opens its service twice: the fall back to the device happens only
\* before the service was requested.  A serial names the device; -d without a
\* serial gives shell and push the only USB device there was when it was
\* selected; and the commands that only know a TCP daemon never reach a USB
\* device.
RunsWhereTold ==
    /\ Len(ran) <= 1
    /\ \A i \in DOMAIN ran :
          /\ serial # NoSerial => ran[i] = serial
          /\ UniqueUsb => ran[i] \in UsbDevices /\ Cardinality(among) = 1
          /\ cmd.via = "tcp" => ran[i] \notin UsbDevices
=============================================================================
