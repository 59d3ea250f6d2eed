------------------------------ MODULE Handshake -----------------------------
(***************************************************************************)
(* How a host gets a connection to adbd: the CNXN / AUTH / STLS exchange.  *)
(* Five callers are modelled: the client's handshake with the TLS upgrade  *)
(* (client/transport.rs, AuthResponder, adb_auth_tls_handshake), the       *)
(* server's for TCP and for USB (server/bridge.rs, server/models.rs), the  *)
(* one over a TLS stream (client/adb_wifi.rs, client/transport_mdns.rs),   *)
(* and discover_and_connect, which tries the services it found one after   *)
(* the other.  StlsStateMachine (adb-protocol/src/stls.rs) is run beside   *)
(* the host on the same packets.  Keys and tokens are left out: a device   *)
(* knows the host's key or does not.                                       *)
(***************************************************************************)
EXTENDS Naturals, Sequences

CONSTANTS
    MaxTls, MaxClassic   \* bounds on the services discover_and_connect finds

VARIABLES
    host,         \* "client", "tcp", "usb", "tls" or "discover"
    devices,      \* the devices to try, in order: [service, wants, knows, user]
    at,           \* index of the one being tried
    pc,           \* "send", "wait", "tls" (waiting under TLS), "online", "failed"
    sent_signature, sent_public_key,
    up, down,     \* the packet on the wire in each direction: <<>> or <<p>>
    secure,       \* the host's end of the stream is TLS
    device,       \* the device: [at, secure]
    machine       \* the state of a StlsStateMachine fed with the same packets

vars == <<host, devices, at, pc, sent_signature, sent_public_key, up, down,
          secure, device, machine>>

Hosts == {"client", "tcp", "usb", "tls", "discover"}
Device == [service : {"tls", "classic"},
           wants : {"nothing", "auth", "stls", "odd"},
           knows : BOOLEAN,
           user : {"accepts", "refuses", "silent"}]

Fresh(d) == [at |-> "idle", secure |-> d.service = "tls"]

Init ==
    /\ host \in Hosts
    /\ IF host = "discover"
       THEN \E n \in 0..MaxTls, m \in 0..MaxClassic :
              devices \in {ds \in [1..(n + m) -> Device] :
                             \A i \in DOMAIN ds :
                                ds[i].service = IF i <= n THEN "tls" ELSE "classic"}
       ELSE devices \in {<<d>> : d \in {x \in Device :
                                   x.service = IF host = "tls" THEN "tls" ELSE "classic"}}
    /\ at = 1
    /\ pc = IF devices = <<>> THEN "failed" ELSE "send"
    /\ sent_signature = FALSE /\ sent_public_key = FALSE
    /\ up = <<>> /\ down = <<>>
    /\ secure = (devices # <<>> /\ devices[1].service = "tls")
    /\ device = IF devices = <<>> THEN [at |-> "idle", secure |-> FALSE] ELSE Fresh(devices[1])
    /\ machine = "AwaitingResponse"

\* The handshake in use: discover_and_connect takes the TLS one for
\* TLS-connect services and the client's for classic ones.
Kind == IF host # "discover" THEN host
        ELSE IF devices[at].service = "tls" THEN "tls" ELSE "client"

\* A failed attempt is the end, except that discover_and_connect goes on to
\* the next service with a new connection.
Abort ==
    /\ up' = <<>> /\ down' = <<>>
    /\ sent_signature' = FALSE /\ sent_public_key' = FALSE
    /\ IF host = "discover" /\ at < Len(devices)
       THEN /\ at' = at + 1 /\ pc' = "send"
            /\ secure' = (devices[at + 1].service = "tls")
            /\ device' = Fresh(devices[at + 1])
       ELSE pc' = "failed" /\ UNCHANGED <<at, secure, device>>

SendCnxn ==
    /\ pc = "send"
    /\ up' = <<"CNXN">> /\ pc' = "wait" /\ machine' = "AwaitingResponse"
    /\ UNCHANGED <<host, devices, at, sent_signature, sent_public_key, down, secure, device>>

\* StlsStateMachine::on_packet and, once TLS is up, on_encrypted_cnxn.
on_packet(m, p) ==
    CASE m \in {"AwaitingResponse", "AwaitingAuth"} /\ p = "CNXN" -> "Established"
      [] m \in {"AwaitingResponse", "AwaitingAuth"} /\ p \in {"TOKEN", "BADTOKEN"} -> "AwaitingAuth"
      [] m \in {"AwaitingResponse", "AwaitingAuth"} /\ p = "STLS" -> "AwaitingTls"
      [] m = "AwaitingEncryptedCnxn" /\ p = "CNXN" -> "Established"
      [] OTHER -> "error"
on_tls_ready(m) == IF m = "AwaitingTls" THEN "AwaitingEncryptedCnxn" ELSE "error"

\* The answer to a token: the signature, then the public key, and then the
\* client starts over while the others give up.
Respond ==
    /\ down' = <<>>
    /\ CASE ~sent_signature ->
               up' = <<"SIGNATURE">> /\ sent_signature' = TRUE /\ UNCHANGED <<sent_public_key, pc, at, secure, device>>
         [] sent_signature /\ ~sent_public_key ->
               up' = <<"RSAKEY">> /\ sent_public_key' = TRUE /\ UNCHANGED <<sent_signature, pc, at, secure, device>>
         [] sent_signature /\ sent_public_key /\ Kind = "client" ->
               up' = <<"SIGNATURE">> /\ sent_public_key' = FALSE /\ UNCHANGED <<sent_signature, pc, at, secure, device>>
         [] OTHER -> Abort

Online ==
    /\ pc' = "online" /\ down' = <<>>
    /\ UNCHANGED <<at, sent_signature, sent_public_key, up, secure, device>>

\* Mutant: a host without TLS carries on in plaintext.
UpgradePlain ==
    /\ up' = <<"STLS">> /\ down' = <<>> /\ pc' = "wait"
    /\ UNCHANGED <<at, secure, sent_signature, sent_public_key, device>>

\* The STLS reply goes out in plaintext, then the stream is TLS.
Upgrade ==
    /\ up' = <<"STLS">> /\ down' = <<>> /\ secure' = TRUE /\ pc' = "tls"
    /\ UNCHANGED <<at, sent_signature, sent_public_key, device>>

Receive ==
    /\ pc = "wait" /\ down # <<>>
    /\ LET p == Head(down)
       IN  /\ machine' = on_packet(machine, p)
           /\ CASE p = "CNXN" -> Online
                [] p = "TOKEN" -> Respond
                [] p = "STLS" /\ Kind = "client" -> Upgrade
                [] OTHER -> Abort
    /\ UNCHANGED <<host, devices>>

\* adb_auth_tls_handshake: the first packet under TLS must be the CNXN.
ReceiveTls ==
    /\ pc = "tls" /\ down # <<>>
    /\ machine' = on_packet(on_tls_ready(machine), Head(down))
    /\ IF Head(down) = "CNXN" THEN Online ELSE Abort
    /\ UNCHANGED <<host, devices>>

\* A closed connection, a failed TLS handshake, and for USB a receive that
\* times out.
Lost ==
    /\ pc \in {"wait", "tls"} /\ down = <<>>
    /\ (device.at = "closed" /\ up = <<>>) \/ Kind = "usb"
    /\ Abort
    /\ UNCHANGED <<host, devices, machine>>

\* One step of the handshake in use, by the functions that have one.
Step(kind) ==
    /\ pc \notin {"online", "failed"} /\ Kind = kind
    /\ SendCnxn \/ Receive \/ ReceiveTls \/ Lost

connect_and_handshake_with_tls_upgrade == host = "client" /\ Step("client")
tcp_auth_handshake == host = "tcp" /\ Step("tcp")
ensure_usb_auth == host = "usb" /\ Step("usb")
connect_device == host = "tls" /\ Step("tls")
connect_mdns_tls_device == host = "discover" /\ Step("tls")
connect_mdns_classic_device == host = "discover" /\ Step("client")
discover_and_connect == connect_mdns_tls_device \/ connect_mdns_classic_device

Host ==
    \/ connect_and_handshake_with_tls_upgrade \/ tcp_auth_handshake \/ ensure_usb_auth
    \/ connect_device \/ discover_and_connect

\* adbd, as the hosts see it.
d == devices[at]
Says(p, to) == down' = <<p>> /\ device' = [device EXCEPT !.at = to]
Ask(p) ==
    CASE p = "CNXN" /\ d.wants = "nothing" -> Says("CNXN", "online")
      [] p = "CNXN" /\ d.wants = "auth" -> Says("TOKEN", "auth")
      [] p = "CNXN" /\ d.wants = "stls" -> Says("STLS", "stls")
      [] p = "CNXN" /\ d.wants = "odd" ->
            \/ \E q \in {"BADTOKEN", "CLSE"} : Says(q, "odd")
            \/ UNCHANGED down /\ device' = [device EXCEPT !.at = "closed"]
      [] p = "SIGNATURE" -> IF d.knows THEN Says("CNXN", "online") ELSE Says("TOKEN", "auth")
      [] p = "RSAKEY" ->
            \/ d.user = "accepts" /\ Says("CNXN", "online")
            \/ d.user = "refuses" /\ Says("TOKEN", "auth")
            \/ d.user = "silent" /\ UNCHANGED <<down, device>>
      [] p = "STLS" ->
            IF d.knows /\ device.at = "stls"
            THEN down' = <<"CNXN">> /\ device' = [at |-> "online", secure |-> TRUE]
            ELSE UNCHANGED down /\ device' = [device EXCEPT !.at = "closed"]

DeviceStep ==
    /\ up # <<>> /\ up' = <<>>
    /\ Ask(Head(up))
    /\ UNCHANGED <<host, devices, at, pc, sent_signature, sent_public_key, secure, machine>>

Next == Host \/ DeviceStep
\* Both ends keep running; a USB receive times out.
Spec == Init /\ [][Next]_vars /\ WF_vars(Host) /\ WF_vars(DeviceStep)
-----------------------------------------------------------------------------
\* A host that believes it is connected is: the device sent its CNXN last and
\* both ends agree on whether the stream is TLS, so that nothing follows in
\* plaintext once the device asked for TLS; StlsStateMachine reaches
\* Established on the same packets; and discover_and_connect took a classic
\* service only after every TLS-connect service had failed.
OnlineIsAgreed ==
    pc = "online" =>
        /\ device.at = "online" /\ device.secure = secure /\ up = <<>>
        /\ devices[at].wants = "stls" => secure
        /\ machine = "Established"
        /\ devices[at].service = "classic" =>
              \A i \in DOMAIN devices : devices[i].service = "tls" => i < at

\* Every handshake comes to an end, or waits for a user who does not accept
\* the key that was shown: for ever while the user is silent, and again and
\* again for the client, whose responder starts over with the signature.  The
\* server's USB handshake, which runs under the registry lock, ends even then.
HandshakeEnds ==
    <>(\/ pc \in {"online", "failed"}
       \/ Kind # "usb" /\ sent_public_key /\ d.user = "silent"
       \/ Kind = "client" /\ sent_public_key /\ d.user = "refuses")
=============================================================================
