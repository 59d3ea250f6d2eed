---------------------------- MODULE ClientProofs ----------------------------
(***************************************************************************)
(* RunsWhereTold of ClientCommands for any devices and any number of       *)
(* changes of the surroundings.  The invariant follows the command from    *)
(* place to place: up to the moment its service is opened nothing ran, and *)
(* a device that was taken is already the one the command was told, so     *)
(* that opening the service, which ends the command, can only run it       *)
(* there, once.                                                            *)
(***************************************************************************)
EXTENDS ClientCommands, TLAPS

\* A device that a command may run on.
Told(t) ==
    /\ serial # NoSerial => t = serial
    /\ UniqueUsb => t \in UsbDevices /\ Cardinality(among) = 1
    /\ cmd.via = "tcp" => t \notin UsbDevices

\* The ways of the commands: only a TCP command dials directly, only a
\* question to the server asks, and no way leads past the server for -d
\* without a serial.
OnItsWay ==
    /\ pc = "tcp" => cmd.via = "tcp"
    /\ pc \in {"features", "select", "noserver", "ask", "service", "open"} => cmd.via # "tcp"
    /\ pc = "ask" => cmd.via = "host"
    /\ pc \in {"open", "handshake", "run"} => ~UniqueUsb
    /\ cmd.unique \/ cmd.retries => cmd.via = "first"

Places == {"start", "features", "select", "service", "noserver", "ask", "open", "tcp",
           "handshake", "run", "done", "failed"}

IInv ==
    /\ pc \in Places
    /\ OnItsWay
    /\ pc \notin Ends => ran = <<>>
    /\ pc \in {"service", "handshake", "run"} => \E t : target = {t} /\ Told(t)
    /\ RunsWhereTold
-----------------------------------------------------------------------------
\* Only shell, exec, push and pull leave -d without a serial to the server,
\* only shell, exec and abb try a handshake again, and each of them asks the
\* server first.
LEMMA UniqueIsServerFirst ==
    ASSUME NEW c \in AllCommands
    PROVE  c.unique \/ c.retries => c.via = "first"
<1> DEFINE Ways == {"server", "device", "tcp", "first", "host"}
           Command == [via : Ways, checks : BOOLEAN, features : BOOLEAN, unique : BOOLEAN,
                       final : BOOLEAN, stays : BOOLEAN, retries : BOOLEAN, passes : BOOLEAN,
                       opens : BOOLEAN, starts : BOOLEAN, polls : BOOLEAN]
           Plain == {x \in Command : ~x.unique /\ ~x.retries}
           First == {x \in Command : x.via = "first"}
<1>1. ServerCommand \in Plain
  BY Zenon DEF ServerCommand
<1>2. DeviceCommand \in Plain /\ TcpCommand \in Plain /\ ServerFirst \in Plain \cap First /\ HostQuery \in Plain
  BY <1>1, Zenon DEF DeviceCommand, TcpCommand, ServerFirst, HostQuery
<1>3. \A x \in Plain : Checked(x) \in Plain
  BY Zenon DEF Checked
<1>4. \A x \in First : Checked(x) \in First
  BY Zenon DEF Checked
<1>5. Shell \in First /\ Exec \in First /\ Abb \in First
  BY <1>2, Zenon DEF Shell, Exec, Abb
<1>6. Push \in First /\ Pull \in First
  BY <1>2, <1>4, ZenonT(60) DEF Push, Pull
<1>7. /\ Reconnect \in Plain /\ Jdwp \in Plain /\ ListDevicesLong \in Plain /\ WaitForDevice \in Plain
      /\ WaitFor \in Plain /\ Detach \in Plain
  <2>1. Reconnect \in Plain /\ Jdwp \in Plain /\ ListDevicesLong \in Plain /\ WaitForDevice \in Plain
    BY <1>1, <1>2, ZenonT(60) DEF Reconnect, Jdwp, ListDevicesLong, WaitForDevice
  <2>2. WaitFor \in Plain
    BY <1>3, <2>1, Zenon DEF WaitFor
  <2>3. Detach \in Plain
    <3>1. Checked(HostQuery) \in Plain
      BY <1>2, <1>3, Zenon
    <3> QED
      BY <3>1, Zenon DEF Detach
  <2> QED
    BY <2>1, <2>2, <2>3, Zenon
<1>8. Checked(ServerCommand) \in Plain /\ Checked(DeviceCommand) \in Plain /\ Checked(TcpCommand) \in Plain
      /\ Checked(HostQuery) \in Plain
  BY <1>1, <1>2, <1>3, Zenon
<1>9. c \in Plain \cup First
  <2> HIDE DEF Plain, First
  <2> QED
    BY <1>1, <1>2, <1>5, <1>6, <1>7, <1>8, Zenon
    DEF AllCommands, Reboot, Sideload, Install, InstallMultiple,
     InstallMultiPackage, Uninstall, Logcat, Bugreport, Sync, Root, Unroot, Tcpip,
     Usb, Attach, DisableVerity, EnableVerity, Remount, ReconnectDevice,
     ListDevices, Forward, Reverse, MdnsCheck, MdnsServices, GetState, GetSerialno,
     GetDevpath, Connect, Disconnect, WaitForRecovery, WaitForBootloader, WaitForDisconnect
<1> QED
  BY <1>9, Zenon

\* A step that opens no service keeps what ran, and has to show only what it
\* promises about the place it goes to.
LEMMA Moves ==
    ASSUME IInv, pc \notin Ends, UNCHANGED <<run, ran>>, pc' \in Places,
           pc' = "tcp" => cmd.via = "tcp",
           pc' \in {"features", "select", "noserver", "ask", "service", "open"} => cmd.via # "tcp",
           pc' = "ask" => cmd.via = "host",
           pc' \in {"open", "handshake", "run"} => ~UniqueUsb,
           pc' \in {"service", "handshake", "run"} => \E t : target' = {t} /\ Told(t)'
    PROVE  IInv'
<1>1. ran = <<>> /\ (cmd.unique \/ cmd.retries => cmd.via = "first")
  BY Zenon DEF IInv, OnItsWay
<1>2. UNCHANGED <<cmd, serial, d, named>> /\ UniqueUsb' = UniqueUsb
  BY Zenon DEF run, UniqueUsb
<1>3. OnItsWay'
  BY <1>1, <1>2, Zenon DEF OnItsWay
<1>4. RunsWhereTold'
  BY <1>1 DEF RunsWhereTold
<1> QED
  BY <1>1, <1>3, <1>4, Zenon DEF IInv

\* Opening the service ends the command, on the device that was taken.
LEMMA RunOnce ==
    ASSUME IInv, pc \in {"service", "run"}, Runs, pc' \in Ends, UNCHANGED run
    PROVE  IInv'
<1>1. PICK t : target = {t} /\ Told(t)
  BY Zenon DEF IInv
<1>2. ran = <<>> /\ OnItsWay
  BY Zenon DEF IInv, Ends
<1>3. ran' = <<t>>
  <2>1. (CHOOSE u \in target : TRUE) = t
    BY <1>1, Zenon
  <2> QED
    BY <1>2, <2>1 DEF Runs
<1>4. UNCHANGED <<cmd, serial, d, named, among>> /\ UniqueUsb' = UniqueUsb
  BY Zenon DEF run, UniqueUsb, Runs
<1>5. RunsWhereTold'
  <2>1. Len(ran') = 1 /\ DOMAIN ran' = {1} /\ ran'[1] = t
    BY <1>3
  <2> QED
    BY <1>1, <1>4, <2>1 DEF RunsWhereTold, Told
<1>6. OnItsWay'
  BY <1>2, <1>4, Zenon DEF OnItsWay, Ends
<1> QED
  BY <1>5, <1>6, Zenon DEF IInv, Ends, Places

\* The surroundings do not move the client.
LEMMA WorldOK ==
    ASSUME IInv, UNCHANGED <<run, pc, target, among, retried, ran>>
    PROVE  IInv'
BY Zenon DEF IInv, OnItsWay, Told, UniqueUsb, RunsWhereTold, run

\* What the client opens on its own it was told to open.
LEMMA OpenOK ==
    ASSUME IInv, open_adb_transport, UNCHANGED run
    PROVE  IInv'
<1> DEFINE usb == IF serial = NoSerial THEN bus ELSE bus \cap {serial}
           tcp == IF serial \in TcpDevices THEN {serial}
                  ELSE IF serial = NoSerial /\ usb = {} /\ (~d \/ ~cmd.passes) THEN {Local}
                  ELSE {}
<1>1. pc = "open" /\ ~UniqueUsb /\ cmd.via # "tcp"
  BY Zenon DEF IInv, OnItsWay, open_adb_transport
<1>2. UniqueUsb' = UniqueUsb /\ cmd' = cmd /\ serial' = serial
  BY Zenon DEF run, UniqueUsb
<1>3. CASE \E t \in usb \cup tcp : \E S : Take(t, S, "handshake")
  <2>1. PICK t \in usb \cup tcp : \E S : Take(t, S, "handshake")
    BY <1>3, Zenon
  <2>2. serial # NoSerial => t = serial
    BY <2>1, Zenon
  <2> QED
    BY <1>1, <1>2, <2>1, <2>2, Moves, Zenon DEF Take, Told, Ends, Places
<1>4. CASE Fail
  BY <1>1, <1>4, Moves, Zenon DEF Fail, Ends, Places
<1> QED
  BY <1>3, <1>4, Zenon DEF open_adb_transport

\* A TCP command dials no USB device.
LEMMA DialOK ==
    ASSUME DevicesAssumption, IInv, DialTcp, UNCHANGED run
    PROVE  IInv'
<1>1. pc = "tcp" /\ cmd.via = "tcp" /\ ~UniqueUsb
  BY Zenon DEF IInv, OnItsWay, DialTcp, UniqueUsb
<1>2. UniqueUsb' = UniqueUsb /\ cmd' = cmd /\ serial' = serial
  BY Zenon DEF run, UniqueUsb
<1>3. CASE \E t \in direct_tcp_only_target : Take(t, direct_tcp_only_target, "handshake")
  <2>1. PICK t \in direct_tcp_only_target : Take(t, direct_tcp_only_target, "handshake")
    BY <1>3, Zenon
  <2>2. t \notin UsbDevices /\ (serial # NoSerial => t = serial)
    BY <2>1, Zenon DEF direct_tcp_only_target, DevicesAssumption
  <2> QED
    BY <1>1, <1>2, <2>1, <2>2, Moves, Zenon DEF Take, Told, Ends, Places
<1>4. CASE Fail
  BY <1>1, <1>4, Moves, Zenon DEF Fail, Ends, Places
<1> QED
  BY <1>3, <1>4, Zenon DEF DialTcp

\* The server gives out one device, the one that was asked for.
LEMMA SelectOK ==
    ASSUME IInv, Select, UNCHANGED run
    PROVE  IInv'
<1> DEFINE candidates == IF UniqueUsb THEN transport_usb ELSE switch_transport
<1>1. pc = "select" /\ cmd.via # "tcp"
  BY Zenon DEF IInv, OnItsWay, Select
<1>2. UniqueUsb' = UniqueUsb /\ cmd' = cmd /\ serial' = serial
  BY Zenon DEF run, UniqueUsb
<1>3. CASE Cardinality(candidates) = 1 /\ \E t \in candidates : Take(t, candidates, "service")
  <2>1. PICK t \in candidates : Take(t, candidates, "service")
    BY <1>3, Zenon
  <2>2. /\ serial # NoSerial => t = serial
        /\ UniqueUsb => t \in UsbDevices
    BY <2>1, Zenon DEF transport_usb, switch_transport, UniqueUsb
  <2>3. Cardinality(among') = 1
    BY <1>3, <2>1, Zenon DEF Take
  <2>4. Told(t)'
    BY <1>1, <1>2, <2>2, <2>3, Zenon DEF Told
  <2> QED
    BY <1>1, <2>1, <2>4, Moves, Zenon DEF Take, Ends, Places
<1>4. CASE Fail \/ Go("noserver")
  BY <1>1, <1>4, Moves, Zenon DEF Fail, Go, Ends, Places
<1> QED
  BY <1>3, <1>4, Zenon DEF Select

\* The steps that only go somewhere else.
LEMMA StepsOK ==
    ASSUME IInv, Start \/ Asked \/ Features \/ NoServer \/ Handshake, UNCHANGED run
    PROVE  IInv'
<1> USE DEF Ends, Places
<1>1. OnItsWay
  BY Zenon DEF IInv
<1>2. CASE Start
  BY <1>1, <1>2, Moves, Zenon DEF Start, Go, Fail, OnItsWay, UniqueUsb
<1>3. CASE Asked
  BY <1>1, <1>3, Moves, Zenon DEF Asked, Go, Fail, OnItsWay, UniqueUsb
<1>4. CASE Features
  BY <1>1, <1>4, Moves, Zenon DEF Features, Go, Fail, OnItsWay
<1>5. CASE NoServer
  BY <1>1, <1>5, Moves, Zenon DEF NoServer, Go, Fail, OnItsWay
<1>6. CASE Handshake
  <2>1. PICK t : target = {t} /\ Told(t) /\ pc = "handshake"
    BY <1>6, Zenon DEF Handshake, IInv
  <2>2. UNCHANGED <<target, among, ran>> /\ pc' \in {"run", "done", "failed", "open"}
    BY <1>6, Zenon DEF Handshake, Go, Fail
  <2>3. Told(t)' /\ (pc' = "open" => cmd.retries)
    BY <1>6, <2>1, <2>2, Zenon DEF Handshake, Go, Fail, Told, UniqueUsb, run
  <2> QED
    BY <1>1, <1>6, <2>1, <2>2, <2>3, Moves, Zenon DEF Handshake, OnItsWay
<1> QED
  BY <1>2, <1>3, <1>4, <1>5, <1>6, Zenon

\* The invariant is inductive.
LEMMA Inductive ==
    ASSUME DevicesAssumption, IInv, [Next]_vars
    PROVE  IInv'
<1>1. CASE UNCHANGED vars
  BY <1>1, WorldOK, Zenon DEF vars, run
<1>2. CASE World
  BY <1>2, WorldOK, Zenon DEF World
<1>3. CASE StartServer
  <2>1. UNCHANGED <<run, target, among, ran>> /\ pc = "noserver" /\ pc' \in {"ask", "select"}
        /\ (pc' = "ask" => cmd.via = "host")
    BY <1>3, Zenon DEF StartServer, Go, run
  <2>2. cmd.via # "tcp"
    BY <2>1, Zenon DEF IInv, OnItsWay
  <2> QED
    BY <2>1, <2>2, Moves, Zenon DEF Places, Ends
<1>4. CASE Client
  <2>1. UNCHANGED run
    BY <1>4, Zenon DEF Client
  <2>2. CASE Start \/ Asked \/ Features \/ NoServer \/ Handshake
    BY <2>1, <2>2, StepsOK, Zenon
  <2>3. CASE Select
    BY <2>1, <2>3, SelectOK, Zenon
  <2>4. CASE open_adb_transport
    BY <2>1, <2>4, OpenOK, Zenon
  <2>5. CASE DialTcp
    BY <2>1, <2>5, DialOK, Zenon
  <2>6. CASE Service \/ RunDirect
    <3>1. CASE Fail
      BY <2>1, <2>6, <3>1, Moves, Zenon DEF Service, RunDirect, Fail, Places, Ends
    <3>2. CASE Runs /\ pc' \in Ends
      BY <2>1, <2>6, <3>2, RunOnce, Zenon DEF Service, RunDirect
    <3> QED
      BY <2>6, <3>1, <3>2, Zenon DEF Service, RunDirect
  <2> QED
    BY <1>4, <2>2, <2>3, <2>4, <2>5, <2>6, Zenon DEF Client
<1> QED
  BY <1>1, <1>2, <1>3, <1>4, Zenon DEF Next

\* Whatever devices there are and however the surroundings change, a command
\* of the adb client (main_adb.rs) opens its service at most once, on the
\* device it was told, whether it goes through the server, directly, or
\* directly after the server failed it.
THEOREM OnceWhereTold ==
    ASSUME DevicesAssumption
    PROVE  Spec => []RunsWhereTold
<1>1. Init => IInv
  BY UniqueIsServerFirst DEF Init, IInv, OnItsWay, Places, RunsWhereTold
<1>2. IInv /\ [Next]_vars => IInv'
  BY Inductive, Zenon
<1>3. IInv => RunsWhereTold
  BY Zenon DEF IInv
<1> QED
  BY <1>1, <1>2, <1>3, PTL DEF Spec

=============================================================================
