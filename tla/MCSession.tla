------------------------------ MODULE MCSession ------------------------------
(* What happens around one session of the command line tool, as eight machines   *)
(* of which one runs in each behaviour: the server keeps forwards, a USB device  *)
(* is found and opened, clients start and stop the server, hosts shake hands     *)
(* with adbd, share their keys on disk and pair, bytes are relayed both ways,    *)
(* and packets are put on a stream and taken off.  The machines that do not run  *)
(* stay in one initial state, or are Off.                                        *)
EXTENDS Links, Session

CONSTANTS c1, c2, c3, nobody,           \* processes
          u1, u2, t1,                   \* devices
          none                          \* no serial

VARIABLES which,
          killers, start_pc, daemon, pipe, owner, running, conn,
          stream_kind, pkts, junk, out, eof, zlps, taken, buf, packet_, stream_got,
          exit_code, end, late, vec, drained, mangled,
          usb_call, usb_bus, usb_pc, candidates, opened, excused, usb_changes, stale

relays    == <<kind, answers, input, hung, wire, line, relays_got, shown, dev, rd, wr,
               lock, queue, inflight>>
forward   == vars
handshake == <<host, devices, handshake_at, handshake_pc, sent_signature,
               sent_public_key, handshake_up, handshake_down, secure, device, machine>>
start     == <<killers, start_pc, daemon, pipe, owner, running, conn>>
keys      == <<role, writable, priv, pub, keys_at, dir, keys_got, trusted, crashes,
               quiet>>
pairing   == <<code, export, pairing_up, pairing_down, open, client, server, saved>>
streams   == <<stream_kind, pkts, junk, out, eof, zlps, taken, buf, packet_, stream_got,
               exit_code, end, late, vec, drained, mangled>>
usb       == <<usb_call, usb_bus, usb_pc, candidates, opened, excused, usb_changes, stale>>
all       == <<which, relays, forward, handshake, start, keys, pairing, streams, usb>>

S == INSTANCE ServerStart WITH Clients <- {c1, c2, c3}, NoOne <- nobody,
       pc <- start_pc
W == INSTANCE PacketStreams WITH Header <- 2, MaxPayload <- 3, PacketSize <- 3, Lengths <- {0, 1, 3, 4}, Count <- 2,
       kind <- stream_kind, got <- stream_got, code <- exit_code

(* Every sequence of four descriptors that begins with an interface, alone on     *)
(* the bus; and an adb device, one with both interfaces, one with an adb          *)
(* interface that lacks an endpoint before a complete one, and one without serial. *)
Iface(proto, num, alt) == [t |-> "interface", proto |-> proto, num |-> num, alt |-> alt]
Bulk(way, addr, size) == [t |-> "endpoint", bulk |-> TRUE, dir |-> way, addr |-> addr, size |-> size]
Interrupt == [t |-> "endpoint", bulk |-> FALSE, dir |-> "in", addr |-> 9, size |-> 8]
Ifaces == {Iface("adb", 1, 0), Iface("adb", 2, 1), Iface("fastboot", 3, 1), Iface("other", 4, 0)}
Descriptors == Ifaces \cup {Bulk("in", 5, 64), Bulk("out", 6, 64), Bulk("out", 7, 32), Bulk("in", 8, 0), Interrupt,
                            [t |-> "malformed"]}
Sequences4 == {<<i>> \o ds : i \in Ifaces, ds \in [1 .. 3 -> Descriptors]}
Adb == <<Iface("other", 4, 0), Iface("adb", 1, 0), Bulk("in", 5, 64), Bulk("out", 6, 64)>>
Both == <<Iface("adb", 1, 0), Bulk("in", 5, 64), Bulk("out", 6, 64),
          Iface("fastboot", 3, 1), Bulk("out", 7, 32), Bulk("in", 8, 32)>>
Half == <<Iface("adb", 1, 0), Bulk("in", 5, 64), Iface("adb", 2, 0), Bulk("in", 8, 64), Bulk("out", 7, 64)>>
U == INSTANCE UsbDevices WITH Nodes <- {1, 2}, Single <- Sequences4, NoSerial <- none, MaxChanges <- 1,
       Devices <- {[serial |-> u1, config |-> Adb], [serial |-> u2, config |-> Both],
                   [serial |-> t1, config |-> Half], [serial |-> none, config |-> Adb]}

Off == "off"
StreamsOff == stream_kind = Off /\ pkts = Off /\ junk = Off /\ out = Off /\ eof = Off /\ zlps = Off
    /\ taken = Off /\ buf = Off /\ packet_ = Off /\ stream_got = Off /\ exit_code = Off /\ end = Off
    /\ late = Off /\ vec = Off /\ drained = Off /\ mangled = Off
UsbOff == usb_call = Off /\ usb_bus = Off /\ usb_pc = Off /\ candidates = Off /\ opened = Off
    /\ excused = Off /\ usb_changes = Off /\ stale = Off

-----------------------------------------------------------------------------
MCInit == /\ which \in {"relays", "forward", "handshake", "start", "keys", "pairing",
                       "streams", "usb"}
          /\ R!Init /\ (which # "relays" => kind = "tcp" /\ ~answers)
          /\ Init
          /\ H!Init /\ (which # "handshake" => devices = <<>>)
          /\ S!Init /\ (which # "start" => killers = {})
          /\ P!Init /\ (which # "pairing" => /\ code = [client |-> 0, server |-> 0]
                                           /\ export = [client |-> "one", server |-> "one"])
          /\ K!Init /\ (which # "keys" => /\ role = [p \in Procs |-> "client"] /\ writable = {}
                                         /\ priv["home"] = Absent /\ pub["home"] = Absent)
          /\ IF which = "streams" THEN W!Init ELSE StreamsOff
          /\ IF which = "usb" THEN U!Init ELSE UsbOff
MCNext == /\ UNCHANGED which
          /\ \/ which = "relays" /\ R!Next
                /\ UNCHANGED <<forward, handshake, start, keys, pairing, streams, usb>>
             \/ which = "forward" /\ Next
                /\ UNCHANGED <<relays, handshake, start, keys, pairing, streams, usb>>
             \/ which = "handshake" /\ H!Next
                /\ UNCHANGED <<relays, forward, start, keys, pairing, streams, usb>>
             \/ which = "start" /\ S!Next
                /\ UNCHANGED <<relays, forward, handshake, keys, pairing, streams, usb>>
             \/ which = "keys" /\ K!Next
                /\ UNCHANGED <<relays, forward, handshake, start, pairing, streams, usb>>
             \/ which = "pairing" /\ P!Next
                /\ UNCHANGED <<relays, forward, handshake, start, keys, streams, usb>>
             \/ which = "streams" /\ W!Next
                /\ UNCHANGED <<relays, forward, handshake, start, keys, pairing, usb>>
             \/ which = "usb" /\ U!Next
                /\ UNCHANGED <<relays, forward, handshake, start, keys, pairing, streams>>

(* The fairness of each machine, while it is the one that runs. *)
MCFairness ==
    /\ WF_relays(which = "relays" /\ R!DevWrites) /\ WF_relays(which = "relays" /\ R!DevReads)
    /\ WF_relays(which = "relays" /\ R!Reader) /\ WF_relays(which = "relays" /\ R!Writer)
    /\ WF_relays(which = "relays" /\ R!ForwardOpens)
    /\ WF_relays(which = "relays" /\ R!ForwardUp) /\ WF_relays(which = "relays" /\ R!ForwardDown)
    /\ WF_relays(which = "relays" /\ R!PumpTurn) /\ WF_relays(which = "relays" /\ R!Client)
    /\ \A i \in 1..3 : WF_forward(which = "forward" /\ Listener(i))
    /\ WF_handshake(which = "handshake" /\ H!Host)
    /\ WF_handshake(which = "handshake" /\ H!DeviceStep)
    /\ \A c \in {c1, c2, c3} : /\ WF_start(which = "start" /\ S!Client(c) /\ UNCHANGED killers)
                               /\ WF_start(which = "start" /\ S!Daemon(c) /\ UNCHANGED killers)
    /\ WF_pairing(which = "pairing" /\ P!Sides)
MCSpec == MCInit /\ [][MCNext]_all /\ MCFairness

(* Packet streams: packets come out of apacket_reader.rs, transport_fd.rs,      *)
(* shell.rs and usb.rs as they were sent, see PacketStreams.                    *)
PacketsSurvive == which = "streams" => W!PacketsSurvive

(* USB devices: usbfs and libusb open the interface and device asked for, see   *)
(* UsbDevices.                                                                  *)
UsbOpensAsAsked == which = "usb" => U!UsbOpensAsAsked

(* Every machine gets where it should: what one end of a relay writes arrives  *)
(* at the other, the port of a removed forward comes free, a handshake ends or *)
(* waits for the user, clients that start or stop the server return, and both  *)
(* sides of a pairing finish.                                                  *)
SessionsEnd ==
    /\ which = "relays" => R!EverythingArrives
    /\ which = "forward" => PortComesFree
    /\ which = "handshake" => H!HandshakeEnds
    /\ which = "start" => S!ClientsReturn
    /\ which = "pairing" => P!BothEnd
=============================================================================
