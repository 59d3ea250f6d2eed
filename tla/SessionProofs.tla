---------------------------- MODULE SessionProofs ----------------------------
(***************************************************************************)
(* PairedIsMutual, OnlineIsAgreed and KeysAgree for any processes, codes   *)
(* and services found.  Each component has an invariant of its own: what a *)
(* packet under way says of both ends, and what the files say of the       *)
(* programs that run.                                                      *)
(***************************************************************************)
EXTENDS Session, Naturals, Sequences, TLAPS

\* What the steps do to a queue keeps its elements in a set.
LEMMA Queues ==
    ASSUME NEW S, NEW q \in Seq(S)
    PROVE  /\ q # <<>> => Head(q) \in S /\ Tail(q) \in Seq(S)
           /\ \A e \in S : /\ Append(q, e) \in Seq(S)
                           /\ q # <<>> => [q EXCEPT ![1] = e] \in Seq(S)
           /\ \A T : S \subseteq T => q \in Seq(T)
<1>1. q # <<>> => Head(q) \in S /\ Tail(q) \in Seq(S)
  OBVIOUS
<1>2. ASSUME NEW e \in S
      PROVE  /\ Append(q, e) \in Seq(S)
             /\ q # <<>> => [q EXCEPT ![1] = e] \in Seq(S)
  OBVIOUS
<1>3. ASSUME NEW T, S \subseteq T
      PROVE  q \in Seq(T)
  <2>1. q \in [1 .. Len(q) -> T] /\ Len(q) \in Nat
    BY <1>3
  <2> QED
    BY <2>1
<1> QED
  BY <1>1, <1>2, <1>3, Zenon
-----------------------------------------------------------------------------
(* Pairing.  Every key is made of the two passwords, so that one that opens a *)
(* packet says that they are the same; and the server's own packet is sent    *)
(* after it has kept the client's.                                            *)

Both == {P!Password("client"), P!Password("server")}
UpPackets == {P!Garbled, P!Spake2Msg("client"), P!PeerInfo(Both, "rsa_key")}
DownPackets == {P!Garbled, P!Spake2Msg("server")}
                   \cup {x \in {P!PeerInfo(Both, "guid")} : server.peer = "rsa_key"}

PairingIInv ==
    /\ pairing_up \in Seq(UpPackets) /\ pairing_down \in Seq(DownPackets)
    /\ code \in [{"client", "server"} -> Codes \cup {Bad}]
    /\ export \in [{"client", "server"} -> {"one", "other"}]
    /\ client \in [at : {"new", "spake", "info", "save", "paired", "failed"},
                   key : {{}, Both}, peer : {P!None, "guid"}]
    /\ server \in [at : {"new", "spake", "info", "paired", "failed"},
                   key : {{}, Both}, peer : {P!None, "rsa_key"}]
    /\ client.at = "info" => client.key = Both
    /\ server.at = "info" => server.key = Both
    /\ server.at \in {"spake", "info"} => code["server"] # Bad
    /\ server.peer # P!None =>
           P!Password("client") = P!Password("server") /\ code["server"] # Bad
    /\ client.peer # P!None => server.peer = "rsa_key"
    /\ saved \/ client.at \in {"save", "paired"} => client.peer = "guid"

\* A pairing begins with nothing sent and nothing known.
LEMMA PairingInits ==
    P!Init => PairingIInv
<1>1. <<>> \in Seq(UpPackets) /\ <<>> \in Seq(DownPackets)
  OBVIOUS
<1> QED
  BY <1>1 DEF P!Init, PairingIInv, P!None

\* What is known of a pairing makes it mutual.
LEMMA PairingImplies ==
    PairingIInv => PairedIsMutual
BY Zenon DEF PairingIInv, PairedIsMutual, P!PairedIsMutual, P!Password, P!None
\* The packets tell their kinds apart.
LEMMA PairingPackets ==
    /\ \A x \in UpPackets : /\ x.type = "Spake2Msg" => x.password = P!Password("client")
                            /\ x.type = "PeerInfo" => x.info = "rsa_key"
    /\ \A x \in DownPackets : /\ x.type = "Spake2Msg" => x.password = P!Password("server")
                              /\ x.type = "PeerInfo" => x.info = "guid" /\ server.peer = "rsa_key"
BY DEF UpPackets, DownPackets, P!Garbled, P!Spake2Msg, P!PeerInfo

\* A packet opens only for equal passwords.
LEMMA OpensBoth ==
    ASSUME NEW s, NEW p, s.key = Both, P!Opens(s, p)
    PROVE  P!Password("client") = P!Password("server") /\ p.type = "PeerInfo"
BY Zenon DEF P!Opens, Both

\* Every step of either side, and of the connection, keeps it so.
LEMMA PairingStep ==
    PairingIInv /\ [P!Next]_(P!vars) => PairingIInv'
<1> SUFFICES ASSUME PairingIInv, [P!Next]_(P!vars) PROVE PairingIInv'
  BY Zenon
<1>0. CASE UNCHANGED P!vars
  BY <1>0 DEF P!vars, PairingIInv, Both, UpPackets, DownPackets, P!Password, P!Spake2Msg,
              P!PeerInfo, P!Garbled, P!None
<1> SUFFICES ASSUME P!Next PROVE PairingIInv'
  BY <1>0, Zenon
<1>a. /\ code' = code /\ export' = export
      /\ P!Password("client")' = P!Password("client") /\ P!Password("server")' = P!Password("server")
      /\ Both' = Both /\ UpPackets' = UpPackets
  <2>1. code' = code /\ export' = export
    BY Zenon DEF P!Next, P!Sides, P!pair_device, P!PairingServer, P!ClientStarts, P!ClientSpake,
           P!ClientInfo, P!ClientSaves, P!ServerStarts, P!ServerSpake, P!ServerInfo, P!ReadEnds,
           P!Closes, P!Break, P!Garble
  <2> QED
    BY <2>1, Zenon DEF P!Password, Both, UpPackets, P!Garbled, P!Spake2Msg, P!PeerInfo
<1>b. server'.peer = server.peer => DownPackets' = DownPackets
  BY <1>a, Zenon DEF DownPackets, P!Garbled, P!Spake2Msg, P!PeerInfo
<1>c. /\ P!Garbled \in UpPackets /\ P!Spake2Msg("client") \in UpPackets
      /\ P!PeerInfo(Both, "rsa_key") \in UpPackets
      /\ P!Garbled \in DownPackets /\ P!Spake2Msg("server") \in DownPackets
  BY Zenon DEF UpPackets, DownPackets
<1>1. CASE P!ClientStarts
  <2>0. pairing_up \in Seq(UpPackets) /\ Append(pairing_up, P!Spake2Msg("client")) \in Seq(UpPackets)
    BY <1>c, Queues, Zenon DEF PairingIInv
  <2>1. pairing_up' \in Seq(UpPackets)
    BY <1>1, <2>0, Zenon DEF P!ClientStarts
  <2> QED
    BY <1>1, <1>a, <1>b, <2>1 DEF P!ClientStarts, PairingIInv, P!Fail, P!None
<1>2. CASE P!ClientSpake
  <2>1. Head(pairing_down) \in DownPackets /\ pairing_down' \in Seq(DownPackets)
    BY <1>2, Queues, Zenon DEF P!ClientSpake, PairingIInv
  <2>2. CASE Head(pairing_down).type = "Spake2Msg"
    <3>1. P!SpakeKey(P!Password("client"), Head(pairing_down)) = Both
      BY <2>1, <2>2, PairingPackets, Zenon DEF P!SpakeKey, Both
    <3>2. /\ client' = [client EXCEPT !.at = "info", !.key = Both]
          /\ pairing_up' = Append(pairing_up, P!PeerInfo(Both, "rsa_key"))
      BY <1>2, <2>2, <3>1, Zenon DEF P!ClientSpake
    <3>3. pairing_up' \in Seq(UpPackets)
      BY <3>2, <1>c, Queues, Zenon DEF PairingIInv
    <3> QED
      BY <1>2, <1>a, <1>b, <2>1, <3>2, <3>3, Zenon DEF P!ClientSpake, PairingIInv, P!None
  <2>3. CASE Head(pairing_down).type # "Spake2Msg"
    BY <1>2, <1>a, <1>b, <2>1, <2>3 DEF P!ClientSpake, PairingIInv, P!Fail, P!None
  <2> QED
    BY <2>2, <2>3, Zenon
<1>3. CASE P!ClientInfo
  <2>1. Head(pairing_down) \in DownPackets /\ pairing_down' \in Seq(DownPackets)
    BY <1>3, Queues, Zenon DEF P!ClientInfo, PairingIInv
  <2>2. CASE P!Opens(client, Head(pairing_down))
    <3>1. client' = [client EXCEPT !.at = "save", !.peer = "guid"] /\ server.peer = "rsa_key"
      BY <1>3, <2>1, <2>2, PairingPackets, Zenon DEF P!ClientInfo, P!Opens
    <3> QED
      BY <1>3, <1>a, <1>b, <2>1, <3>1, ZenonT(60) DEF P!ClientInfo, PairingIInv, P!None
  <2>3. CASE ~P!Opens(client, Head(pairing_down))
    BY <1>3, <1>a, <1>b, <2>1, <2>3, Zenon DEF P!ClientInfo, PairingIInv, P!Fail, P!None
  <2> QED
    BY <2>2, <2>3, Zenon
<1>4. CASE P!ClientSaves
  BY <1>4, <1>a, <1>b, Zenon DEF P!ClientSaves, PairingIInv, P!Fail, P!None
<1>5. CASE P!ServerStarts
  BY <1>5, <1>a, <1>b, Zenon DEF P!ServerStarts, PairingIInv, P!Fail, P!None, P!validate_pairing_code
<1>6. CASE P!ServerSpake
  <2>1. Head(pairing_up) \in UpPackets /\ pairing_up' \in Seq(UpPackets)
    BY <1>6, Queues, Zenon DEF P!ServerSpake, PairingIInv
  <2>2. CASE Head(pairing_up).type = "Spake2Msg" /\ open
    <3>1. P!SpakeKey(P!Password("server"), Head(pairing_up)) = Both
      BY <2>1, <2>2, PairingPackets, Zenon DEF P!SpakeKey, Both
    <3>2. /\ server' = [server EXCEPT !.at = "info", !.key = Both]
          /\ pairing_down' = Append(pairing_down, P!Spake2Msg("server"))
      BY <1>6, <2>2, <3>1, Zenon DEF P!ServerSpake
    <3>3. pairing_down' \in Seq(DownPackets)
      BY <3>2, <1>c, Queues, Zenon DEF PairingIInv
    <3> QED
      BY <1>6, <1>a, <1>b, <2>1, <3>2, <3>3, ZenonT(60) DEF P!ServerSpake, PairingIInv, P!None
  <2>3. CASE ~(Head(pairing_up).type = "Spake2Msg" /\ open)
    BY <1>6, <1>a, <1>b, <2>1, <2>3 DEF P!ServerSpake, PairingIInv, P!Fail, P!None
  <2> QED
    BY <2>2, <2>3, Zenon
<1>7. CASE P!ServerInfo
  <2>1. Head(pairing_up) \in UpPackets /\ pairing_up' \in Seq(UpPackets)
    BY <1>7, Queues, Zenon DEF P!ServerInfo, PairingIInv
  <2>2. CASE P!Opens(server, Head(pairing_up))
    <3>1. server.key = Both /\ code["server"] # Bad
      BY <1>7, Zenon DEF P!ServerInfo, PairingIInv
    <3>2. P!Password("client") = P!Password("server") /\ Head(pairing_up).info = "rsa_key"
      BY <2>1, <2>2, <3>1, OpensBoth, PairingPackets, Zenon
    <3>3. /\ server' = [server EXCEPT !.at = IF open THEN "paired" ELSE "failed", !.peer = "rsa_key"]
          /\ pairing_down' = IF open THEN Append(pairing_down, P!PeerInfo(Both, "guid")) ELSE pairing_down
      BY <1>7, <2>2, <3>1, <3>2, Zenon DEF P!ServerInfo
    <3>4. DownPackets \subseteq DownPackets' /\ P!PeerInfo(Both, "guid") \in DownPackets'
      BY <1>a, <3>3, Zenon DEF DownPackets, P!Garbled, P!Spake2Msg, P!PeerInfo, PairingIInv
    <3>5. pairing_down \in Seq(DownPackets')
      BY <3>4, Queues, Zenon DEF PairingIInv
    <3>6. pairing_down' \in Seq(DownPackets')
      BY <3>3, <3>4, <3>5, Queues, Zenon
    <3> QED
      BY <1>7, <1>a, <2>1, <3>1, <3>2, <3>3, <3>6, Zenon DEF P!ServerInfo, PairingIInv, P!None
  <2>3. CASE ~P!Opens(server, Head(pairing_up))
    BY <1>7, <1>a, <1>b, <2>1, <2>3, Zenon DEF P!ServerInfo, PairingIInv, P!Fail, P!None
  <2> QED
    BY <2>2, <2>3, Zenon
<1>8. CASE P!ReadEnds
  BY <1>8, <1>a, <1>b DEF P!ReadEnds, PairingIInv, P!Fail, P!None
<1>9. CASE P!Closes \/ P!Break
  BY <1>9, <1>a, <1>b DEF P!Closes, P!Break, PairingIInv, P!None
<1>10. CASE P!Garble
  <2>0. /\ pairing_up \in Seq(UpPackets) /\ pairing_down \in Seq(DownPackets)
        /\ pairing_up # <<>> => [pairing_up EXCEPT ![1] = P!Garbled] \in Seq(UpPackets)
        /\ pairing_down # <<>> => [pairing_down EXCEPT ![1] = P!Garbled] \in Seq(DownPackets)
    BY <1>c, Queues, Zenon DEF PairingIInv
  <2>1. pairing_up' \in Seq(UpPackets) /\ pairing_down' \in Seq(DownPackets)
    BY <1>10, <2>0, Zenon DEF P!Garble
  <2> QED
    BY <1>10, <1>a, <1>b, <2>1 DEF P!Garble, PairingIInv, P!None
<1> QED
  BY <1>1, <1>2, <1>3, <1>4, <1>5, <1>6, <1>7, <1>8, <1>9, <1>10, Zenon
  DEF P!Next, P!Sides, P!pair_device, P!PairingServer

\* Pairing is mutual whatever breaks or is garbled on the way.
THEOREM PairingIsMutual ==
    P!Spec => []PairedIsMutual
BY PairingInits, PairingStep, PairingImplies, PTL DEF P!Spec
-----------------------------------------------------------------------------
(* The handshake.  One packet is on the wire at a time, and which one it is   *)
(* depends on what the device wants: a device that asked for TLS says CNXN    *)
(* only under TLS, so that neither side goes on in plaintext.                 *)

Wanted == devices[handshake_at].wants

\* Before the upgrade: a packet goes up, one comes down, or none is there.
Waiting ==
    /\ device.secure = secure /\ machine \in {"AwaitingResponse", "AwaitingAuth"}
    /\ \/ handshake_up = <<"CNXN">> /\ handshake_down = <<>>
       \/ handshake_up \in {<<"SIGNATURE">>, <<"RSAKEY">>} /\ handshake_down = <<>> /\ Wanted = "auth"
       \/ handshake_up = <<>> /\ handshake_down \in {<<>>, <<"BADTOKEN">>, <<"CLSE">>, <<"STLS">>}
       \/ handshake_up = <<>> /\ handshake_down = <<"TOKEN">> /\ Wanted = "auth"
       \/ handshake_up = <<>> /\ handshake_down = <<"CNXN">> /\ device.at = "online" /\ Wanted # "stls"

\* After the host's STLS, until the CNXN under TLS.
Upgrading ==
    /\ secure /\ machine = "AwaitingTls"
    /\ \/ handshake_up = <<"STLS">> /\ handshake_down = <<>>
       \/ handshake_up = <<>> /\ handshake_down = <<>>
       \/ handshake_up = <<>> /\ handshake_down = <<"CNXN">> /\ device.at = "online" /\ device.secure

TlsFirst ==
    \A i, j \in DOMAIN devices :
        devices[i].service = "classic" /\ devices[j].service = "tls" => j < i

DeviceStates == [at : {"idle", "online", "auth", "stls", "odd", "closed"}, secure : BOOLEAN]

HandshakeIInv ==
    /\ devices \in Seq(H!Device) /\ TlsFirst
    /\ handshake_pc \in {"send", "wait", "tls", "online", "failed"}
    /\ handshake_pc # "failed" => handshake_at \in DOMAIN devices
    /\ secure \in BOOLEAN /\ device \in DeviceStates
    /\ handshake_pc \in {"send", "failed"} => handshake_up = <<>> /\ handshake_down = <<>>
    /\ handshake_pc = "send" => device.secure = secure
    /\ handshake_pc = "wait" => Waiting
    /\ handshake_pc = "tls" => Upgrading
    /\ handshake_pc = "online" =>
           /\ handshake_up = <<>> /\ handshake_down = <<>> /\ machine = "Established"
           /\ device.at = "online" /\ device.secure = secure
           /\ Wanted = "stls" => secure

\* The services to try are in order, and the first connection is new.
LEMMA HandshakeInits ==
    H!Init => HandshakeIInv
<1> SUFFICES ASSUME H!Init PROVE HandshakeIInv
  BY Zenon
<1>1. devices \in Seq(H!Device) /\ TlsFirst
  <2>1. CASE host = "discover"
    <3>1. PICK n \in 0 .. MaxTls, m \in 0 .. MaxClassic :
              /\ devices \in [1 .. (n + m) -> H!Device]
              /\ \A i \in DOMAIN devices :
                    devices[i].service = IF i <= n THEN "tls" ELSE "classic"
      BY <2>1, Zenon DEF H!Init
    <3>2. n \in Nat /\ m \in Nat /\ n + m \in Nat
      BY ServicesAssumption
    <3>3. devices \in Seq(H!Device) /\ DOMAIN devices = 1 .. (n + m)
      BY <3>1, <3>2
    <3>4. TlsFirst
      BY <3>1, <3>2, <3>3 DEF TlsFirst
    <3> QED
      BY <3>3, <3>4, Zenon
  <2>2. CASE host # "discover"
    <3>1. PICK x \in H!Device : devices = <<x>>
      BY <2>2, Zenon DEF H!Init
    <3> QED
      BY <3>1 DEF TlsFirst
  <2> QED
    BY <2>1, <2>2, Zenon
<1>2. CASE devices = <<>>
  BY <1>1, <1>2, Zenon DEF H!Init, HandshakeIInv, DeviceStates
<1>3. CASE devices # <<>>
  <2>1. 1 \in DOMAIN devices
    BY <1>1, <1>3
  <2>2. /\ handshake_at = 1 /\ handshake_pc = "send" /\ secure = (devices[1].service = "tls")
        /\ handshake_up = <<>> /\ handshake_down = <<>>
        /\ device = [at |-> "idle", secure |-> devices[1].service = "tls"]
    BY <1>3, Zenon DEF H!Init, H!Fresh
  <2> QED
    BY <1>1, <2>1, <2>2, Zenon DEF HandshakeIInv, DeviceStates
<1> QED
  BY <1>2, <1>3, Zenon

\* What is known when the host is online is what it agreed on.
LEMMA HandshakeImplies ==
    HandshakeIInv => OnlineIsAgreed
BY Zenon DEF HandshakeIInv, TlsFirst, Wanted, OnlineIsAgreed, H!OnlineIsAgreed

\* A failed attempt leaves nothing behind, whether or not another follows.
LEMMA Aborts ==
    ASSUME HandshakeIInv, handshake_pc # "failed", H!Abort, UNCHANGED <<host, devices>>
    PROVE  HandshakeIInv'
<1>1. handshake_at \in 1 .. Len(devices) /\ Len(devices) \in Nat
  BY DEF HandshakeIInv
<1>2. CASE host = "discover" /\ handshake_at < Len(devices)
  <2>1. handshake_at + 1 \in DOMAIN devices
    BY <1>1, <1>2 DEF HandshakeIInv
  <2>2. /\ handshake_at' = handshake_at + 1 /\ handshake_pc' = "send"
        /\ secure' = (devices[handshake_at + 1].service = "tls")
        /\ device' = [at |-> "idle", secure |-> devices[handshake_at + 1].service = "tls"]
        /\ handshake_up' = <<>> /\ handshake_down' = <<>>
    BY <1>2, Zenon DEF H!Abort, H!Fresh
  <2> QED
    BY <2>1, <2>2, Zenon DEF HandshakeIInv, DeviceStates, TlsFirst
<1>3. CASE ~(host = "discover" /\ handshake_at < Len(devices))
  BY <1>3, Zenon DEF H!Abort, HandshakeIInv, TlsFirst
<1> QED
  BY <1>2, <1>3, Zenon

\* The host's side.
LEMMA HostKeeps ==
    ASSUME HandshakeIInv, H!Host
    PROVE  HandshakeIInv'
<1>0. handshake_pc \notin {"online", "failed"} /\ (H!SendCnxn \/ H!Receive \/ H!ReceiveTls \/ H!Lost)
  BY Zenon DEF H!Host, H!discover_and_connect, H!connect_and_handshake_with_tls_upgrade, H!tcp_auth_handshake,
         H!ensure_usb_auth, H!connect_device, H!connect_mdns_tls_device, H!connect_mdns_classic_device,
         H!Step
<1>1. CASE H!SendCnxn
  BY <1>1, Zenon DEF H!SendCnxn, HandshakeIInv, Waiting, TlsFirst
<1>2. CASE H!Receive
  <2> DEFINE p == Head(handshake_down)
  <2>0. /\ handshake_pc = "wait" /\ handshake_down # <<>> /\ Waiting
        /\ handshake_at \in DOMAIN devices
        /\ machine' = H!on_packet(machine, p) /\ UNCHANGED <<host, devices>>
    BY <1>2, Zenon DEF H!Receive, HandshakeIInv
  <2>1. CASE p = "CNXN"
    <3>1. H!Online
      BY <1>2, <2>1, Zenon DEF H!Receive
    <3>2. machine' = "Established"
      BY <2>0, <2>1, Zenon DEF H!on_packet, Waiting
    <3>3. /\ handshake_up = <<>> /\ device.at = "online" /\ device.secure = secure
          /\ Wanted # "stls"
      BY <2>0, <2>1 DEF Waiting
    <3> QED
      BY <2>0, <3>1, <3>2, <3>3, Zenon DEF H!Online, HandshakeIInv, TlsFirst, Wanted
  <2>2. CASE p = "TOKEN"
    <3>1. H!Respond
      BY <1>2, <2>2, Zenon DEF H!Receive
    <3>2. machine' = "AwaitingAuth"
      BY <2>0, <2>2, Zenon DEF H!on_packet, Waiting
    <3>3. handshake_up = <<>> /\ device.secure = secure /\ Wanted = "auth"
      BY <2>0, <2>2 DEF Waiting
    <3>4. \/ H!Abort
          \/ /\ handshake_up' \in {<<"SIGNATURE">>, <<"RSAKEY">>} /\ handshake_down' = <<>>
             /\ UNCHANGED <<handshake_pc, handshake_at, secure, device>>
      BY <3>1, Zenon DEF H!Respond
    <3>5. CASE H!Abort
      BY <2>0, <3>5, Aborts, Zenon
    <3>6. CASE /\ handshake_up' \in {<<"SIGNATURE">>, <<"RSAKEY">>} /\ handshake_down' = <<>>
               /\ UNCHANGED <<handshake_pc, handshake_at, secure, device>>
      <4>1. Waiting'
        BY <2>0, <3>2, <3>3, <3>6, Zenon DEF Waiting, Wanted
      <4> QED
        BY <2>0, <3>6, <4>1, Zenon DEF HandshakeIInv, TlsFirst
    <3> QED
      BY <3>4, <3>5, <3>6, Zenon
  <2>3. CASE p = "STLS" /\ H!Kind = "client"
    <3>1. H!Upgrade
      BY <1>2, <2>3, Zenon DEF H!Receive
    <3>2. machine' = "AwaitingTls"
      BY <2>0, <2>3, Zenon DEF H!on_packet, Waiting
    <3>3. Upgrading'
      BY <3>1, <3>2, Zenon DEF H!Upgrade, Upgrading
    <3> QED
      BY <2>0, <3>1, <3>3, Zenon DEF H!Upgrade, HandshakeIInv, TlsFirst
  <2>4. CASE p \notin {"CNXN", "TOKEN"} /\ ~(p = "STLS" /\ H!Kind = "client")
    <3>1. H!Abort
      BY <1>2, <2>4, Zenon DEF H!Receive
    <3> QED
      BY <2>0, <3>1, Aborts, Zenon
  <2> QED
    BY <2>1, <2>2, <2>3, <2>4, Zenon
<1>3. CASE H!ReceiveTls
  <2>0. /\ handshake_pc = "tls" /\ handshake_down # <<>> /\ Upgrading
        /\ handshake_at \in DOMAIN devices /\ UNCHANGED <<host, devices>>
    BY <1>3, Zenon DEF H!ReceiveTls, HandshakeIInv
  <2>1. /\ handshake_up = <<>> /\ Head(handshake_down) = "CNXN" /\ secure
        /\ device.at = "online" /\ device.secure /\ machine = "AwaitingTls"
    BY <2>0 DEF Upgrading
  <2>2. machine' = "Established" /\ H!Online
    BY <1>3, <2>1, Zenon DEF H!ReceiveTls, H!on_packet, H!on_tls_ready
  <2> QED
    BY <2>0, <2>1, <2>2, Zenon DEF H!Online, HandshakeIInv, TlsFirst, Wanted
<1>4. CASE H!Lost
  BY <1>4, Aborts, Zenon DEF H!Lost
<1> QED
  BY <1>0, <1>1, <1>2, <1>3, <1>4, Zenon

\* The device's side.
LEMMA DeviceKeeps ==
    ASSUME HandshakeIInv, H!DeviceStep
    PROVE  HandshakeIInv'
<1>0. /\ handshake_up # <<>> /\ handshake_up' = <<>> /\ H!Ask(Head(handshake_up))
      /\ UNCHANGED <<host, devices, handshake_at, handshake_pc, secure, machine>>
      /\ handshake_pc \in {"wait", "tls"} /\ handshake_at \in DOMAIN devices
      /\ devices[handshake_at] \in H!Device
  BY DEF H!DeviceStep, HandshakeIInv
<1>1. CASE handshake_pc = "wait"
  <2>0. Waiting /\ handshake_down = <<>> /\ device \in DeviceStates
    BY <1>0, <1>1, Zenon DEF HandshakeIInv, Waiting
  <2>1. /\ device' \in DeviceStates /\ device'.secure = device.secure
        /\ \/ handshake_down' \in {<<>>, <<"BADTOKEN">>, <<"CLSE">>, <<"STLS">>}
           \/ handshake_down' = <<"TOKEN">> /\ Wanted = "auth"
           \/ handshake_down' = <<"CNXN">> /\ device'.at = "online" /\ Wanted # "stls"
    <3>1. CASE Head(handshake_up) = "CNXN"
      <4>1. Wanted \in {"nothing", "auth", "stls", "odd"}
        BY <1>0, Zenon DEF Wanted, H!Device
      <4>2. CASE Wanted = "nothing"
        <5>1. H!Says("CNXN", "online")
          BY <1>0, <3>1, <4>2, Zenon DEF H!Ask, H!d, Wanted
        <5> QED
          BY <2>0, <4>2, <5>1, Zenon DEF H!Says, DeviceStates
      <4>3. CASE Wanted = "auth"
        <5>1. H!Says("TOKEN", "auth")
          BY <1>0, <3>1, <4>3, Zenon DEF H!Ask, H!d, Wanted
        <5> QED
          BY <2>0, <4>3, <5>1, Zenon DEF H!Says, DeviceStates
      <4>4. CASE Wanted = "stls"
        <5>1. H!Says("STLS", "stls")
          BY <1>0, <3>1, <4>4, Zenon DEF H!Ask, H!d, Wanted
        <5> QED
          BY <2>0, <5>1, Zenon DEF H!Says, DeviceStates
      <4>5. CASE Wanted = "odd"
        <5>1. \/ H!Says("BADTOKEN", "odd") \/ H!Says("CLSE", "odd")
              \/ UNCHANGED handshake_down /\ device' = [device EXCEPT !.at = "closed"]
          BY <1>0, <3>1, <4>5, Zenon DEF H!Ask, H!d, Wanted
        <5> QED
          BY <2>0, <5>1, Zenon DEF H!Says, DeviceStates
      <4> QED
        BY <4>1, <4>2, <4>3, <4>4, <4>5, Zenon
    <3>2. CASE Head(handshake_up) \in {"SIGNATURE", "RSAKEY"}
      <4>1. Wanted = "auth"
        BY <1>0, <2>0, <3>2 DEF Waiting
      <4>2. H!Says("CNXN", "online") \/ H!Says("TOKEN", "auth") \/ UNCHANGED <<handshake_down, device>>
        BY <1>0, <3>2, Zenon DEF H!Ask
      <4> QED
        BY <2>0, <4>1, <4>2, Zenon DEF H!Says, DeviceStates
    <3> QED
      BY <1>0, <2>0, <3>1, <3>2 DEF Waiting
  <2>2. Waiting'
    BY <1>0, <2>0, <2>1, Zenon DEF Waiting, Wanted
  <2> QED
    BY <1>0, <1>1, <2>1, <2>2, Zenon DEF HandshakeIInv, TlsFirst
<1>2. CASE handshake_pc = "tls"
  <2>0. Upgrading /\ handshake_up = <<"STLS">> /\ handshake_down = <<>> /\ device \in DeviceStates
    BY <1>0, <1>2, Zenon DEF HandshakeIInv, Upgrading
  <2>1. \/ handshake_down' = <<"CNXN">> /\ device' = [at |-> "online", secure |-> TRUE]
        \/ UNCHANGED handshake_down /\ device' = [device EXCEPT !.at = "closed"]
    BY <1>0, <2>0 DEF H!Ask
  <2>2. device' \in DeviceStates
    <3>1. [at |-> "online", secure |-> TRUE] \in DeviceStates
      BY Zenon DEF DeviceStates
    <3>2. [device EXCEPT !.at = "closed"] \in DeviceStates
      BY <2>0, Zenon DEF DeviceStates
    <3> QED
      BY <2>1, <3>1, <3>2, Zenon
  <2>3. \/ handshake_down' = <<>>
        \/ handshake_down' = <<"CNXN">> /\ device'.at = "online" /\ device'.secure = TRUE
    BY <2>0, <2>1
  <2>4. Upgrading'
    BY <1>0, <2>0, <2>3, Zenon DEF Upgrading
  <2> QED
    BY <1>0, <1>2, <2>2, <2>4, Zenon DEF HandshakeIInv, TlsFirst
<1> QED
  BY <1>0, <1>1, <1>2, Zenon

\* Every step of the handshake keeps the packet on the wire in its place.
LEMMA HandshakeStep ==
    HandshakeIInv /\ [H!Next]_(H!vars) => HandshakeIInv'
<1>1. ASSUME HandshakeIInv, UNCHANGED H!vars PROVE HandshakeIInv'
  BY <1>1, Zenon DEF H!vars, HandshakeIInv, Waiting, Upgrading, TlsFirst, Wanted
<1> QED
  BY <1>1, HostKeeps, DeviceKeeps, Zenon DEF H!Next

\* A host that takes itself for connected is, in the mode the device asked for.
THEOREM ConnectedIsAgreed ==
    H!Spec => []OnlineIsAgreed
BY HandshakeInits, HandshakeStep, HandshakeImplies, PTL DEF H!Spec
-----------------------------------------------------------------------------
(* Host keys.  A pairing's process writes its key only after a device has it. *)
(* As long as nobody interfered, the file in the home directory is missing,   *)
(* being written by the only process that runs, or kept: from then on         *)
(* everybody finds it first.                                                  *)

KeyStates == {"idle", "look", "read", "open", "write", "openpub", "writepub", "done"}

PairedOnly ==
    /\ role \in [Procs -> K!Roles] /\ keys_at \in [Procs -> KeyStates]
    /\ dir \in [Procs -> {1, 2}] /\ quiet \in BOOLEAN
    /\ DOMAIN keys_got = Procs /\ DOMAIN priv = K!Dirs /\ DOMAIN pub = K!Dirs
    /\ \A p \in Procs : role[p] = "pair" =>
           /\ keys_at[p] \in {"open", "write", "openpub", "writepub"} => K!Fresh(p) \in trusted
           /\ \A d \in K!Dirs : priv[d] = K!Fresh(p) => K!Fresh(p) \in trusted

NoPair == \A p \in Procs : role[p] # "pair"
Unused(p) == keys_got[p] = {} \/ (role[p] = "wifi" /\ keys_got[p] = {K!Ephemeral(p)})

Missing ==
    /\ priv["home"] = Absent
    /\ \A p \in Procs : /\ keys_at[p] \in {"idle", "look", "open", "done"}
                        /\ keys_at[p] = "open" => dir[p] = 1
                        /\ Unused(p)

Writing(w) ==
    /\ priv["home"] = Torn /\ keys_at[w] = "write" /\ dir[w] = 1
    /\ \A q \in Procs \ {w} : K!Over(q)
    /\ NoPair => \A p \in Procs : Unused(p)

Kept ==
    /\ priv["home"] \notin {Absent, Torn}
    /\ \A p \in Procs :
           /\ keys_at[p] # "write" /\ (keys_at[p] = "open" => role[p] = "pair")
           /\ ~K!Over(p) => dir[p] = 1
           /\ keys_at[p] \in {"openpub", "writepub"} =>
                  \/ keys_got[p] = {} /\ priv["home"] = K!Fresh(p)
                  \/ keys_got[p] = {priv["home"]}
           /\ NoPair => Unused(p) \/ keys_got[p] = {priv["home"]}
    /\ (\E p \in Procs : priv["home"] = K!Fresh(p)) =>
           \/ pub["home"] = priv["home"]
           \/ \E q \in Procs : keys_at[q] \in {"openpub", "writepub"}

\* What holds of every process while nobody interfered.
Ordinary(p) ==
    /\ role[p] \notin {"server", "wifi"} \/ keys_at[p] = "idle" => dir[p] = 1
    /\ keys_at[p] \in {"idle", "look", "open", "write"} => keys_got[p] = {}

Undisturbed ==
    /\ "home" \in writable /\ priv["sdcard"] = Absent
    /\ \A p \in Procs : Ordinary(p)
    /\ Missing \/ (\E w \in Procs : Writing(w)) \/ Kept

KeysIInv == PairedOnly /\ (quiet => Undisturbed)

\* At first there is no key in the home directory, or one nobody here has made.
LEMMA KeysInits ==
    K!Init => KeysIInv
<1> SUFFICES ASSUME K!Init PROVE KeysIInv
  BY Zenon
<1>1. /\ DOMAIN priv = K!Dirs /\ DOMAIN pub = K!Dirs /\ DOMAIN keys_got = Procs
      /\ priv["home"] \in {Absent, <<Aosp, 1>>} /\ priv["sdcard"] = Absent
  <2>1. CASE priv = [d \in K!Dirs |-> Absent]
    BY <2>1, Zenon DEF K!Init, K!Dirs
  <2>2. CASE priv = [home |-> <<Aosp, 1>>, sdcard |-> Absent]
    BY <2>2, Zenon DEF K!Init, K!Dirs
  <2> QED
    BY <2>1, <2>2, Zenon DEF K!Init
<1>2. \A p \in Procs : K!Fresh(p) \notin {Absent, <<Aosp, 1>>}
  BY KeysAssumption, Zenon DEF K!Fresh
<1>3. \A p \in Procs : keys_at[p] = "idle" /\ dir[p] = 1 /\ keys_got[p] = {}
  BY Zenon DEF K!Init
<1>4. PairedOnly
  <2>1. \A p \in Procs, d \in K!Dirs : priv[d] # K!Fresh(p)
    BY <1>1, <1>2, Zenon DEF K!Dirs
  <2> QED
    BY <1>1, <1>3, <2>1, SMTT(60) DEF K!Init, PairedOnly, KeyStates
<1>5. ASSUME quiet PROVE Undisturbed
  <2>1. \A p \in Procs : Ordinary(p) /\ Unused(p) /\ K!Over(p)
    BY <1>3, Zenon DEF Ordinary, Unused, K!Over
  <2>2. Missing \/ Kept
    BY <1>1, <1>2, <1>3, <2>1, KeysAssumption, Zenon DEF Missing, Kept
  <2> QED
    BY <1>1, <1>5, <2>1, <2>2, Zenon DEF K!Init, Undisturbed
<1> QED
  BY <1>4, <1>5, Zenon DEF KeysIInv

\* In each phase of the file the programs agree on the key.
LEMMA KeysImplies ==
    KeysIInv => KeysAgree
<1> SUFFICES ASSUME KeysIInv PROVE K!KeysAgree
  BY Zenon DEF KeysAgree
<1> DEFINE users == {p \in Procs : keys_got[p] # {}
                                     /\ (role[p] = "wifi" => keys_got[p] # {K!Ephemeral(p)})}
<1>1. ASSUME quiet, NoPair, NEW p \in users, NEW q \in users PROVE keys_got[p] = keys_got[q]
  <2>1. ~Unused(p) /\ ~Unused(q)
    BY Zenon DEF Unused
  <2>2. Kept
    BY <1>1, <2>1, Zenon DEF KeysIInv, Undisturbed, Missing, Writing
  <2>3. \A x \in Procs : Unused(x) \/ keys_got[x] = {priv["home"]}
    BY <1>1, <2>2, Zenon DEF Kept
  <2>4. p \in Procs /\ q \in Procs
    BY Zenon
  <2> QED
    BY <2>1, <2>3, <2>4, Zenon
<1>2. ASSUME NEW p \in Procs, role[p] = "pair", priv["home"] = K!Fresh(p)
      PROVE  /\ K!Fresh(p) \in trusted
             /\ quiet /\ keys_at[p] = "done" /\ K!Alone(p) => pub["home"] = priv["home"]
  <2>1. K!Fresh(p) \in trusted
    BY <1>2, Zenon DEF KeysIInv, PairedOnly, K!Dirs
  <2>2. ASSUME quiet, keys_at[p] = "done", K!Alone(p) PROVE pub["home"] = priv["home"]
    <3>1. \A q \in Procs : K!Over(q)
      BY <2>2, Zenon DEF K!Alone, K!Over
    <3>2. priv["home"] \notin {Absent, Torn}
      BY <1>2, KeysAssumption, Zenon DEF K!Fresh
    <3>3. Kept
      BY <2>2, <3>2, Zenon DEF KeysIInv, Undisturbed, Missing, Writing
    <3> QED
      BY <1>2, <3>1, <3>3, Zenon DEF Kept, K!Over
  <2> QED
    BY <2>1, <2>2, Zenon
<1> QED
  BY <1>1, <1>2, Zenon DEF K!KeysAgree, NoPair

\* Every program takes the same kinds of step.
LEMMA KeysMoves ==
    ASSUME K!Next
    PROVE  \E p \in Procs :
               \/ K!Start(p) \/ K!Crash(p) \/ K!Look(p) \/ K!Read(p) \/ K!OpenFails(p)
               \/ K!Open(p) \/ K!Write(p) \/ K!OpenPub(p) \/ K!WritePub(p)
BY Zenon DEF K!Next, K!load_userkey, K!load_or_create_auth, K!adb_auth_keygen, K!save_adb_keystore,
       K!load_or_build_auth, K!Step

\* The directories by number.
LEMMA Directories ==
    ASSUME PairedOnly, NEW p \in Procs
    PROVE  /\ dir[p] = 1 => K!D(p) = "home"
           /\ dir[p] = 2 => K!D(p) = "sdcard"
           /\ K!D(p) \in K!Dirs /\ Len(K!adb_key_dirs) = 2
<1>1. dir[p] \in {1, 2}
  BY Zenon DEF PairedOnly
<1> QED
  BY <1>1 DEF K!D, K!adb_key_dirs, K!Dirs

\* What a step does to the process that takes it and leaves to the others.
LEMMA KeysTypes ==
    ASSUME PairedOnly, NEW p \in Procs,
           \/ K!Start(p) \/ K!Crash(p) \/ K!Look(p) \/ K!Read(p) \/ K!OpenFails(p)
           \/ K!Open(p) \/ K!Write(p) \/ K!OpenPub(p) \/ K!WritePub(p)
    PROVE  /\ role' = role /\ writable' = writable /\ keys_at' \in [Procs -> KeyStates]
           /\ dir' \in [Procs -> {1, 2}] /\ quiet' \in BOOLEAN /\ (quiet' => quiet)
           /\ DOMAIN keys_got' = Procs /\ DOMAIN priv' = K!Dirs /\ DOMAIN pub' = K!Dirs
           /\ \A q \in Procs \ {p} : /\ keys_at'[q] = keys_at[q] /\ dir'[q] = dir[q]
                                     /\ keys_got'[q] = keys_got[q]
<1>0. /\ dir[p] \in {1, 2} /\ Len(K!adb_key_dirs) = 2 /\ keys_at \in [Procs -> KeyStates]
      /\ dir \in [Procs -> {1, 2}] /\ DOMAIN keys_got = Procs /\ quiet \in BOOLEAN
      /\ DOMAIN priv = K!Dirs /\ DOMAIN pub = K!Dirs
  BY Directories, Zenon DEF PairedOnly
<1>1. keys_at' = keys_at \/ \E a \in KeyStates : keys_at' = [keys_at EXCEPT ![p] = a]
  <2>1. CASE K!Start(p) \/ K!Crash(p)
    BY <2>1, Zenon DEF K!Start, K!Crash, K!Go, KeyStates
  <2>2. CASE K!Look(p)
    BY <2>2, Zenon DEF K!Look, K!Go, K!Use, KeyStates
  <2>3. CASE K!Read(p)
    BY <2>3, Zenon DEF K!Read, K!Go, K!Use, KeyStates
  <2>4. CASE K!OpenFails(p)
    BY <2>4, ZenonT(60) DEF K!OpenFails, K!Go, K!Use, KeyStates
  <2>5. CASE K!Open(p) \/ K!Write(p) \/ K!OpenPub(p) \/ K!WritePub(p)
    BY <2>5, Zenon DEF K!Open, K!Write, K!OpenPub, K!WritePub, K!Go, K!Use, KeyStates
  <2> QED
    BY <2>1, <2>2, <2>3, <2>4, <2>5, Zenon
<1>2. dir' = dir \/ \E n \in {1, 2} : dir' = [dir EXCEPT ![p] = n]
  <2>0. dir[p] \in {1, 2} /\ Len(K!adb_key_dirs) = 2
    BY <1>0, Zenon
  <2>1. ASSUME dir[p] < Len(K!adb_key_dirs) PROVE dir[p] + 1 \in {1, 2}
    BY <2>0, <2>1
  <2>2. CASE K!Look(p) \/ K!Read(p) \/ K!OpenFails(p)
    <3>1. \/ dir' = dir \/ dir' = [dir EXCEPT ![p] = 1]
          \/ dir[p] < Len(K!adb_key_dirs) /\ dir' = [dir EXCEPT ![p] = dir[p] + 1]
      <4>1. CASE K!Look(p)
        BY <4>1, Zenon DEF K!Look, K!In
      <4>2. CASE K!Read(p)
        BY <4>2, Zenon DEF K!Read, K!In
      <4>3. CASE K!OpenFails(p)
        BY <4>3, Zenon DEF K!OpenFails, K!In
      <4> QED
        BY <2>2, <4>1, <4>2, <4>3, Zenon
    <3> QED
      BY <2>1, <3>1, Zenon
  <2>3. CASE K!Start(p) \/ K!Crash(p) \/ K!Open(p) \/ K!Write(p) \/ K!OpenPub(p) \/ K!WritePub(p)
    BY <2>3, Zenon DEF K!Start, K!Crash, K!Open, K!Write, K!OpenPub, K!WritePub
  <2> QED
    BY <2>2, <2>3, Zenon
<1>3. keys_got' = keys_got \/ \E x : keys_got' = [keys_got EXCEPT ![p] = x]
  <2>1. CASE K!Look(p)
    BY <2>1, Zenon DEF K!Look, K!Use
  <2>2. CASE K!Read(p)
    BY <2>2, Zenon DEF K!Read, K!Use
  <2>3. CASE K!OpenFails(p)
    BY <2>3, Zenon DEF K!OpenFails, K!Use
  <2>4. CASE K!WritePub(p)
    <3> DEFINE k == IF keys_got[p] = {} THEN K!Fresh(p) ELSE CHOOSE x \in keys_got[p] : TRUE
    <3>1. keys_got' = keys_got \/ keys_got' = [keys_got EXCEPT ![p] = {k}]
      BY <2>4, ZenonT(60) DEF K!WritePub, K!Use
    <3> HIDE DEF k
    <3> QED
      BY <3>1, Zenon
  <2> QED
    BY <2>1, <2>2, <2>3, <2>4, Zenon DEF K!Start, K!Crash, K!Open, K!Write, K!OpenPub
<1>4. /\ role' = role /\ writable' = writable /\ quiet' \in BOOLEAN /\ (quiet' => quiet)
      /\ DOMAIN priv' = K!Dirs /\ DOMAIN pub' = K!Dirs
  <2>1. CASE K!Start(p) \/ K!Crash(p)
    BY <1>0, <2>1, ZenonT(60) DEF K!Start, K!Crash
  <2>2. CASE K!Look(p) \/ K!Read(p) \/ K!OpenFails(p)
    <3>1. role' = role /\ UNCHANGED K!Disk
      BY <2>2, ZenonT(60) DEF K!Look, K!Read, K!OpenFails
    <3> QED
      BY <1>0, <3>1, Zenon DEF K!Disk
  <2>3. CASE K!Open(p)
    <3>1. K!Alone(p) \in BOOLEAN
      BY Zenon DEF K!Alone
    <3> QED
      BY <1>0, <2>3, <3>1, Zenon DEF K!Open
  <2>4. CASE K!OpenPub(p)
    BY <1>0, <2>4, Zenon DEF K!OpenPub
  <2>5. CASE K!WritePub(p)
    BY <1>0, <2>5, Zenon DEF K!WritePub
  <2>6. CASE K!Write(p)
    BY <1>0, <2>6, Zenon DEF K!Write
  <2> QED
    BY <2>1, <2>2, <2>3, <2>4, <2>5, <2>6, Zenon
<1>5. /\ keys_at' \in [Procs -> KeyStates]
      /\ \A q \in Procs \ {p} : keys_at'[q] = keys_at[q]
  BY <1>0, <1>1, ZenonT(60)
<1>6. /\ dir' \in [Procs -> {1, 2}]
      /\ \A q \in Procs \ {p} : dir'[q] = dir[q]
  <2>1. CASE dir' = dir
    BY <1>0, <2>1, Zenon
  <2>2. ASSUME NEW n \in {1, 2}, dir' = [dir EXCEPT ![p] = n]
        PROVE  dir' \in [Procs -> {1, 2}] /\ \A q \in Procs \ {p} : dir'[q] = dir[q]
    <3>1. dir \in [Procs -> {1, 2}]
      BY <1>0, Zenon
    <3> QED
      BY <2>2, <3>1, Zenon
  <2> QED
    BY <1>2, <2>1, <2>2, Zenon
<1>7. /\ DOMAIN keys_got' = Procs
      /\ \A q \in Procs \ {p} : keys_got'[q] = keys_got[q]
  BY <1>0, <1>3, Zenon
<1> QED
  BY <1>4, <1>5, <1>6, <1>7, Zenon

\* A paired key goes to disk only after the device has it.
LEMMA PairedOnlyKept ==
    ASSUME PairedOnly, NEW p \in Procs,
           \/ K!Start(p) \/ K!Crash(p) \/ K!Look(p) \/ K!Read(p) \/ K!OpenFails(p)
           \/ K!Open(p) \/ K!Write(p) \/ K!OpenPub(p) \/ K!WritePub(p)
    PROVE  PairedOnly'
<1> DEFINE Busy == {"open", "write", "openpub", "writepub"}
<1>1. trusted \subseteq trusted'
  BY Zenon DEF K!Start, K!Crash, K!Look, K!Read, K!OpenFails, K!Open, K!Write, K!OpenPub, K!WritePub, K!Disk
<1>2. ASSUME role[p] = "pair", keys_at'[p] \in Busy PROVE K!Fresh(p) \in trusted'
  <2>1. CASE K!Start(p)
    <3>1. PICK held, heard \in BOOLEAN :
              /\ heard => held
              /\ trusted' = IF held THEN trusted \cup {K!Fresh(p)} ELSE trusted
              /\ keys_at' = [keys_at EXCEPT ![p] = IF heard THEN "open" ELSE "done"]
      BY <1>2, <2>1, Zenon DEF K!Start, K!Go
    <3>2. heard
      BY <1>2, <3>1, Zenon DEF PairedOnly
    <3> QED
      BY <3>1, <3>2, Zenon
  <2>2. CASE ~K!Start(p)
    <3>1. keys_at[p] \in Busy
      BY <1>2, <2>2, Zenon DEF PairedOnly, K!Crash, K!Look, K!Read, K!OpenFails, K!Open, K!Write, K!OpenPub,
                        K!WritePub, K!Go, K!Use, K!In
    <3> QED
      BY <1>1, <1>2, <3>1, Zenon DEF PairedOnly
  <2> QED
    BY <2>1, <2>2, Zenon
<1>3. ASSUME NEW q \in Procs, role[q] = "pair", NEW d \in K!Dirs, priv'[d] = K!Fresh(q)
      PROVE  K!Fresh(q) \in trusted'
  <2>1. CASE priv'[d] = priv[d]
    BY <1>1, <1>3, <2>1, Zenon DEF PairedOnly
  <2>2. CASE priv'[d] # priv[d]
    <3>1. K!Open(p) \/ K!Write(p)
      BY <2>2, Zenon DEF K!Start, K!Crash, K!Look, K!Read, K!OpenFails, K!OpenPub, K!WritePub, K!Disk
    <3>2. priv'[d] \in {Torn, K!Fresh(p)} /\ (priv'[d] # Torn => K!Write(p))
      <4>1. DOMAIN priv = K!Dirs
        BY Zenon DEF PairedOnly
      <4>2. CASE K!Open(p)
        <5>1. priv' = [priv EXCEPT ![K!D(p)] = Torn]
          BY <4>2, Zenon DEF K!Open
        <5> QED
          BY <2>2, <4>1, <5>1, Zenon
      <4>3. CASE K!Write(p)
        <5>1. priv' = [priv EXCEPT ![K!D(p)] = K!Fresh(p)]
          BY <4>3, Zenon DEF K!Write
        <5> QED
          BY <2>2, <4>1, <4>3, <5>1, Zenon
      <4> QED
        BY <3>1, <4>2, <4>3, Zenon
    <3>3. K!Fresh(q) # Torn
      BY <1>3, KeysAssumption, Zenon DEF K!Fresh
    <3>4. K!Write(p) /\ K!Fresh(q) = K!Fresh(p)
      BY <1>3, <3>2, <3>3, Zenon
    <3>5. q = p
      BY <3>4, Zenon DEF K!Fresh
    <3> QED
      BY <1>1, <1>3, <3>4, <3>5, Zenon DEF K!Write, PairedOnly
  <2> QED
    BY <2>1, <2>2, Zenon
<1>4. ASSUME NEW q \in Procs, role[q] = "pair", keys_at'[q] \in Busy
      PROVE  K!Fresh(q) \in trusted'
  <2>1. CASE q = p
    BY <1>2, <1>4, <2>1, Zenon
  <2>2. CASE q # p
    BY <1>1, <1>4, <2>2, KeysTypes, ZenonT(60) DEF PairedOnly
  <2> QED
    BY <2>1, <2>2, Zenon
<1> QED
  BY <1>3, <1>4, KeysTypes, Zenon DEF PairedOnly, K!Dirs, K!Roles, K!Fresh

\* No file yet: programs look for one, and the first that makes it runs alone.
LEMMA MissingKept ==
    ASSUME PairedOnly, Undisturbed, quiet', Missing, NEW p \in Procs,
           \/ K!Start(p) \/ K!Crash(p) \/ K!Look(p) \/ K!Read(p) \/ K!OpenFails(p)
           \/ K!Open(p) \/ K!Write(p) \/ K!OpenPub(p) \/ K!WritePub(p)
    PROVE  Undisturbed'
<1>0. /\ role' = role /\ writable' = writable /\ DOMAIN keys_got = Procs
      /\ keys_at \in [Procs -> KeyStates] /\ dir \in [Procs -> {1, 2}]
      /\ DOMAIN priv = K!Dirs /\ "home" \in K!Dirs /\ "sdcard" \in K!Dirs
      /\ \A q \in Procs \ {p} : keys_at'[q] = keys_at[q] /\ dir'[q] = dir[q] /\ keys_got'[q] = keys_got[q]
  BY KeysTypes, ZenonT(60) DEF PairedOnly, K!Dirs
<1>1. /\ keys_at[p] \in {"idle", "look", "open", "done"} /\ (keys_at[p] = "open" => K!D(p) \in writable)
      /\ Ordinary(p) /\ Unused(p) /\ priv[K!D(p)] = Absent /\ Len(K!adb_key_dirs) = 2
      /\ dir[p] \in {1, 2} /\ role[p] \in K!Roles
  BY Directories, Zenon DEF Undisturbed, Missing, PairedOnly, K!Dirs
<1>2. ASSUME priv' = priv, keys_at'[p] \in {"look", "open", "done"}, Ordinary(p)', Unused(p)',
             keys_at'[p] = "open" => dir'[p] = 1
      PROVE  Undisturbed'
  <2>1. \A q \in Procs : Ordinary(q)' /\ Unused(q)'
    BY <1>0, <1>2, ZenonT(120) DEF Undisturbed, Missing, Ordinary, Unused, K!Ephemeral
  <2>2. Missing'
    BY <1>0, <1>2, <2>1, ZenonT(60) DEF Missing
  <2> QED
    BY <1>0, <1>2, <2>1, <2>2, Zenon DEF Undisturbed
<1>3. CASE K!Start(p)
  <2>1. /\ priv' = priv /\ dir' = dir /\ keys_got' = keys_got /\ dir[p] = 1 /\ keys_got[p] = {}
        /\ keys_at'[p] \in {"look", "open", "done"}
    BY <1>0, <1>1, <1>3, Zenon DEF K!Start, K!Go, Ordinary
  <2> QED
    BY <1>0, <1>2, <2>1, Zenon DEF Ordinary, Unused
<1>4. CASE K!Look(p)
  <2>1. priv' = priv /\ keys_at[p] = "look" /\ keys_got[p] = {}
    BY <1>1, <1>4, Zenon DEF K!Look, K!Disk, Ordinary
  <2>2. \/ /\ role[p] \in {"client", "keygen"} /\ keys_at'[p] = "open" /\ UNCHANGED <<dir, keys_got>>
        \/ /\ role[p] \in {"server", "wifi"} /\ dir'[p] = 2 /\ UNCHANGED <<keys_at, keys_got>>
        \/ /\ role[p] = "server" /\ dir'[p] = 1 /\ keys_at'[p] = "open" /\ UNCHANGED keys_got
        \/ /\ role[p] = "wifi" /\ keys_at'[p] = "done" /\ keys_got'[p] = {K!Ephemeral(p)} /\ UNCHANGED dir
    <3>1. /\ ~(priv[K!D(p)] # Absent) /\ Len(K!adb_key_dirs) = 2 /\ p \in DOMAIN keys_at
          /\ p \in DOMAIN dir /\ p \in DOMAIN keys_got
      BY <1>0, <1>1, ZenonT(60)
    <3>2. dir[p] < Len(K!adb_key_dirs) => dir[p] + 1 = 2
      <4>1. dir[p] \in {1, 2} /\ Len(K!adb_key_dirs) = 2
        BY <1>1, Zenon
      <4> QED
        BY <4>1
    <3>3. \/ /\ role[p] \in {"client", "keygen"} /\ keys_at' = [keys_at EXCEPT ![p] = "open"]
             /\ UNCHANGED <<dir, keys_got>>
          \/ /\ role[p] \in {"server", "wifi"} /\ dir' = [dir EXCEPT ![p] = 2] /\ UNCHANGED <<keys_at, keys_got>>
          \/ /\ role[p] = "server" /\ dir' = [dir EXCEPT ![p] = 1] /\ keys_at' = [keys_at EXCEPT ![p] = "open"]
             /\ UNCHANGED keys_got
          \/ /\ role[p] = "wifi" /\ keys_at' = [keys_at EXCEPT ![p] = "done"]
             /\ keys_got' = [keys_got EXCEPT ![p] = {K!Ephemeral(p)}] /\ UNCHANGED dir
      BY <1>4, <3>1, <3>2, ZenonT(60) DEF K!Look, K!Go, K!In, K!Use
    <3>4. /\ \A a : [keys_at EXCEPT ![p] = a][p] = a
          /\ \A a : [dir EXCEPT ![p] = a][p] = a
          /\ \A a : [keys_got EXCEPT ![p] = a][p] = a
      BY <3>1, Zenon
    <3> QED
      BY <3>3, <3>4, ZenonT(60)
  <2>3. Ordinary(p)' /\ Unused(p)'
    BY <1>0, <1>1, <2>1, <2>2, Zenon DEF Ordinary, Unused, K!Ephemeral
  <2> QED
    BY <1>1, <1>2, <2>1, <2>2, <2>3, Zenon DEF Ordinary
<1>5. CASE K!Open(p)
  <2>1. /\ keys_at[p] = "open" /\ dir[p] = 1 /\ K!D(p) = "home" /\ K!Alone(p) /\ keys_got[p] = {}
    BY <1>1, <1>5, Directories, Zenon DEF K!Open, Missing, Ordinary
  <2>2. /\ priv'["home"] = Torn /\ priv'["sdcard"] = priv["sdcard"] /\ keys_at'[p] = "write"
        /\ dir' = dir /\ keys_got' = keys_got
    BY <1>0, <1>5, <2>1, Zenon DEF K!Open, K!Go
  <2>3. \A q \in Procs : Ordinary(q)' /\ Unused(q)'
    BY <1>0, <2>1, <2>2, ZenonT(120) DEF Undisturbed, Missing, Ordinary, Unused, K!Ephemeral
  <2>4. Writing(p)'
    BY <1>0, <2>1, <2>2, <2>3, Zenon DEF Writing, K!Alone, K!Over
  <2> QED
    BY <1>0, <2>2, <2>3, <2>4, Zenon DEF Undisturbed
<1> QED
  BY <1>1, <1>3, <1>4, <1>5, Zenon DEF K!Crash, K!Read, K!OpenFails, K!Write, K!OpenPub, K!WritePub

\* While the file is written no other program runs.
LEMMA WritingKept ==
    ASSUME PairedOnly, Undisturbed, quiet', NEW w \in Procs, Writing(w), NEW p \in Procs,
           \/ K!Start(p) \/ K!Crash(p) \/ K!Look(p) \/ K!Read(p) \/ K!OpenFails(p)
           \/ K!Open(p) \/ K!Write(p) \/ K!OpenPub(p) \/ K!WritePub(p)
    PROVE  Undisturbed'
<1>0. /\ role' = role /\ writable' = writable
      /\ keys_at \in [Procs -> KeyStates] /\ dir \in [Procs -> {1, 2}]
      /\ DOMAIN priv = K!Dirs /\ "home" \in K!Dirs /\ "sdcard" \in K!Dirs
  BY KeysTypes, Zenon DEF PairedOnly, K!Dirs
<1>1. K!Write(p) /\ p = w
  <2>1. ~K!Start(p) /\ ~K!Crash(p)
    BY Zenon DEF K!Start, K!Crash, Writing
  <2>2. keys_at[p] \notin {"idle", "done"}
    BY <2>1, Zenon DEF K!Look, K!Read, K!OpenFails, K!Open, K!Write, K!OpenPub, K!WritePub
  <2>3. p = w
    BY <2>2, Zenon DEF Writing, K!Over
  <2> QED
    BY <2>1, <2>3, ZenonT(60) DEF Writing, K!Look, K!Read, K!OpenFails, K!Open, K!OpenPub, K!WritePub
<1>2. K!D(w) = "home" /\ keys_got[w] = {}
  BY Directories, Zenon DEF Writing, Undisturbed, Ordinary
<1>3. /\ priv'["home"] = K!Fresh(w) /\ priv'["sdcard"] = priv["sdcard"] /\ keys_at'[w] = "openpub"
      /\ dir' = dir /\ keys_got' = keys_got /\ \A q \in Procs \ {w} : keys_at'[q] = keys_at[q]
  BY <1>0, <1>1, <1>2, Zenon DEF K!Write, K!Go
<1>4. \A q \in Procs : Ordinary(q)'
  BY <1>0, <1>1, <1>2, <1>3, Zenon DEF Undisturbed, Ordinary, Writing
<1>5. \A q \in Procs \ {w} : keys_at[q] \in {"idle", "done"}
  BY ZenonT(60) DEF Writing, K!Over
<1>6. NoPair' => \A q \in Procs : Unused(q)'
  BY <1>0, <1>3, Zenon DEF Writing, NoPair, Unused, K!Ephemeral
<1>7. priv'["home"] \notin {Absent, Torn}
  BY <1>3, KeysAssumption, Zenon DEF K!Fresh
<1>8. Kept'
  BY <1>0, <1>2, <1>3, <1>5, <1>6, <1>7, Zenon DEF Kept, Writing, K!Over, K!Fresh
<1> QED
  BY <1>0, <1>3, <1>4, <1>8, Zenon DEF Undisturbed

\* A key that is there is found by everybody, and only a pairing replaces it.
LEMMA KeptKept ==
    ASSUME PairedOnly, Undisturbed, quiet', Kept, NEW p \in Procs,
           \/ K!Start(p) \/ K!Crash(p) \/ K!Look(p) \/ K!Read(p) \/ K!OpenFails(p)
           \/ K!Open(p) \/ K!Write(p) \/ K!OpenPub(p) \/ K!WritePub(p)
    PROVE  Undisturbed'
<1> DEFINE key == priv["home"]
<1>0. /\ role' = role /\ writable' = writable /\ DOMAIN keys_got = Procs
      /\ keys_at \in [Procs -> KeyStates] /\ dir \in [Procs -> {1, 2}]
      /\ DOMAIN priv = K!Dirs /\ DOMAIN pub = K!Dirs /\ "home" \in K!Dirs /\ "sdcard" \in K!Dirs
      /\ \A q \in Procs \ {p} : keys_at'[q] = keys_at[q] /\ dir'[q] = dir[q] /\ keys_got'[q] = keys_got[q]
  BY KeysTypes, Zenon DEF PairedOnly, K!Dirs
<1>1. /\ keys_at[p] # "done" => dir[p] = 1 /\ K!D(p) = "home"
      /\ Ordinary(p) /\ key \notin {Absent, Torn} /\ "home" \in writable
  BY Directories, Zenon DEF Undisturbed, Ordinary, Kept, K!Over
\* As long as the file stays, only p's own state and the public key matter.
<1>2. ASSUME priv' = priv, dir' = dir, Ordinary(p)', keys_at'[p] # "write",
             keys_at'[p] = "open" => role[p] = "pair",
             ~K!Over(p)' => dir[p] = 1,
             keys_at'[p] \in {"openpub", "writepub"} =>
                 (keys_got'[p] = {} /\ key = K!Fresh(p)) \/ keys_got'[p] = {key},
             NoPair => Unused(p)' \/ keys_got'[p] = {key},
             \/ pub'["home"] = key \/ keys_at'[p] \in {"openpub", "writepub"}
             \/ /\ pub' = pub
                /\ keys_at[p] \notin {"openpub", "writepub"}
      PROVE  Undisturbed'
  <2>1. \A q \in Procs : Ordinary(q)'
    BY <1>0, <1>2, ZenonT(60) DEF Undisturbed, Ordinary
  <2>2. ASSUME NEW q \in Procs
        PROVE  /\ keys_at'[q] # "write" /\ (keys_at'[q] = "open" => role[q] = "pair")
               /\ ~K!Over(q)' => dir[q] = 1
               /\ keys_at'[q] \in {"openpub", "writepub"} =>
                      (keys_got'[q] = {} /\ key = K!Fresh(q)) \/ keys_got'[q] = {key}
               /\ NoPair => Unused(q)' \/ keys_got'[q] = {key}
    <3>1. CASE q = p
      BY <1>2, <3>1, Zenon
    <3>2. CASE q # p
      BY <1>0, <3>2, ZenonT(60) DEF Kept, Unused, K!Over, K!Ephemeral
    <3> QED
      BY <3>1, <3>2, Zenon
  <2>3. (\E q \in Procs : key = K!Fresh(q)) =>
            \/ pub'["home"] = key
            \/ \E q \in Procs : keys_at'[q] \in {"openpub", "writepub"}
    <3> SUFFICES ASSUME \E q \in Procs : key = K!Fresh(q), pub'["home"] # key
                 PROVE  \E q \in Procs : keys_at'[q] \in {"openpub", "writepub"}
      BY ZenonT(60)
    <3>1. CASE keys_at'[p] \in {"openpub", "writepub"}
      BY <3>1, ZenonT(60)
    <3>2. CASE pub' = pub /\ keys_at[p] \notin {"openpub", "writepub"}
      <4>1. PICK q \in Procs : keys_at[q] \in {"openpub", "writepub"}
        BY <3>2, ZenonT(60) DEF Kept
      <4> QED
        BY <1>0, <3>2, <4>1, Zenon
    <3> QED
      BY <1>2, <3>1, <3>2, ZenonT(60)
  <2>4. NoPair' = NoPair
    BY <1>0, Zenon DEF NoPair
  <2>5. Kept'
    BY <1>0, <1>1, <1>2, <2>2, <2>3, <2>4, Zenon DEF Kept, K!Fresh
  <2> QED
    BY <1>0, <1>2, <2>1, <2>5, Zenon DEF Undisturbed
<1>3. CASE K!Start(p)
  <2>1. /\ priv' = priv /\ pub' = pub /\ dir' = dir /\ keys_got' = keys_got /\ keys_at[p] = "idle"
        /\ keys_at'[p] \in {"look", "open", "done"} /\ (keys_at'[p] = "open" => role[p] = "pair")
    BY <1>0, <1>3, ZenonT(60) DEF K!Start, K!Go
  <2>2. Ordinary(p)' /\ Unused(p)'
    BY <1>0, <1>1, <2>1, Zenon DEF Ordinary, Unused
  <2> QED
    BY <1>1, <1>2, <2>1, <2>2, Zenon
<1>4. CASE K!Look(p)
  <2>1. /\ priv' = priv /\ pub' = pub /\ keys_at[p] = "look"
        /\ keys_at'[p] \in {"read", "done"} /\ dir' = dir /\ keys_got' = keys_got
    BY <1>0, <1>1, <1>4, Zenon DEF K!Look, K!Go, K!In, K!Use, K!Disk
  <2>2. Ordinary(p)' /\ Unused(p)'
    BY <1>0, <1>1, <2>1, Zenon DEF Ordinary, Unused
  <2> QED
    BY <1>1, <1>2, <2>1, <2>2, ZenonT(60)
<1>5. CASE K!Read(p)
  <2>1. /\ priv' = priv /\ pub' = pub /\ keys_at[p] = "read" /\ dir' = dir
        /\ keys_at'[p] \in {"openpub", "done"} /\ keys_got'[p] = {key}
    BY <1>0, <1>1, <1>5, Zenon DEF K!Read, K!Go, K!In, K!Use, K!Disk
  <2>2. Ordinary(p)'
    BY <1>0, <1>1, <2>1, Zenon DEF Ordinary
  <2> QED
    BY <1>1, <1>2, <2>1, <2>2, Zenon
<1>6. CASE K!Open(p)
  <2>1. /\ keys_at[p] = "open" /\ dir[p] = 1 /\ K!D(p) = "home" /\ K!Alone(p) /\ role[p] = "pair"
    BY <1>1, <1>6, Zenon DEF K!Open, Kept
  <2>2. /\ priv'["home"] = Torn /\ priv'["sdcard"] = priv["sdcard"] /\ keys_at'[p] = "write"
        /\ dir' = dir /\ keys_got' = keys_got
    BY <1>0, <1>6, <2>1, Zenon DEF K!Open, K!Go
  <2>3. \A q \in Procs : Ordinary(q)'
    BY <1>0, <1>1, <2>1, <2>2, ZenonT(60) DEF Undisturbed, Ordinary
  <2>4. Writing(p)'
    BY <1>0, <2>1, <2>2, Zenon DEF Writing, NoPair, K!Alone, K!Over
  <2> QED
    BY <1>0, <2>2, <2>3, <2>4, Zenon DEF Undisturbed
<1>7. CASE K!OpenPub(p)
  <2>1. /\ priv' = priv /\ keys_at[p] = "openpub" /\ keys_at'[p] = "writepub" /\ dir' = dir
        /\ keys_got' = keys_got
    BY <1>0, <1>7, Zenon DEF K!OpenPub, K!Go
  <2>2. Ordinary(p)' /\ (Unused(p)' <=> Unused(p))
    BY <1>0, <1>1, <2>1, Zenon DEF Ordinary, Unused, K!Ephemeral
  <2> QED
    BY <1>1, <1>2, <2>1, <2>2, Zenon DEF Kept
<1>8. CASE K!WritePub(p)
  <2>1. (IF keys_got[p] = {} THEN K!Fresh(p) ELSE CHOOSE x \in keys_got[p] : TRUE) = key
    BY <1>8, ZenonT(60) DEF K!WritePub, Kept
  <2>2. /\ priv' = priv /\ keys_at[p] = "writepub" /\ keys_at'[p] \in {"read", "done"} /\ dir' = dir
        /\ keys_got'[p] = keys_got[p] \/ keys_got'[p] = {key}
    BY <1>0, <1>1, <1>8, <2>1, Zenon DEF K!WritePub, K!Go, K!Use
  <2>3. pub'["home"] = key
    BY <1>0, <1>1, <1>8, <2>1, <2>2, Zenon DEF K!WritePub
  <2>4. Ordinary(p)' /\ (NoPair => Unused(p)' \/ keys_got'[p] = {key})
    BY <1>0, <1>1, <2>2, Zenon DEF Ordinary, Unused, K!Ephemeral, Kept
  <2> QED
    BY <1>1, <1>2, <2>2, <2>3, <2>4, Zenon
<1>9. ~K!OpenFails(p) /\ ~K!Crash(p) /\ ~K!Write(p)
  BY <1>1, Zenon DEF K!OpenFails, K!Crash, K!Write, Kept
<1> QED
  BY <1>3, <1>4, <1>5, <1>6, <1>7, <1>8, <1>9, Zenon

\* Every step of a program, or its end, keeps what is known of the files.
LEMMA KeysStep ==
    KeysIInv /\ [K!Next]_(K!vars) => KeysIInv'
<1>1. ASSUME KeysIInv, UNCHANGED K!vars PROVE KeysIInv'
  <2>0. /\ role' = role /\ writable' = writable /\ priv' = priv /\ pub' = pub /\ keys_at' = keys_at
        /\ dir' = dir /\ keys_got' = keys_got /\ trusted' = trusted /\ quiet' = quiet
    BY <1>1, Zenon DEF K!vars
  <2>1. PairedOnly'
    BY <1>1, <2>0, ZenonT(60) DEF KeysIInv, PairedOnly, K!Fresh, K!Dirs, K!Roles
  <2>2. \A p \in Procs : (Ordinary(p)' <=> Ordinary(p)) /\ (Unused(p)' <=> Unused(p)) /\ (K!Over(p)' <=> K!Over(p))
    BY <2>0, Zenon DEF Ordinary, Unused, K!Over, K!Ephemeral
  <2>3. NoPair' <=> NoPair
    BY <2>0, Zenon DEF NoPair
  <2>4. Missing => Missing'
    BY <2>0, <2>2, Zenon DEF Missing
  <2>5. \A w \in Procs : Writing(w) => Writing(w)'
    BY <2>0, <2>2, <2>3, Zenon DEF Writing
  <2>6. Kept => Kept'
    BY <2>0, <2>2, <2>3, Zenon DEF Kept, K!Fresh
  <2>7. Undisturbed => Undisturbed'
    BY <2>0, <2>2, <2>4, <2>5, <2>6, Zenon DEF Undisturbed
  <2> QED
    BY <1>1, <2>0, <2>1, <2>7, Zenon DEF KeysIInv
<1>2. ASSUME KeysIInv, K!Next PROVE KeysIInv'
  <2>1. PICK p \in Procs :
            \/ K!Start(p) \/ K!Crash(p) \/ K!Look(p) \/ K!Read(p) \/ K!OpenFails(p)
            \/ K!Open(p) \/ K!Write(p) \/ K!OpenPub(p) \/ K!WritePub(p)
    BY <1>2, KeysMoves, Zenon
  <2>2. PairedOnly /\ PairedOnly' /\ (quiet' => quiet)
    BY <1>2, <2>1, KeysTypes, PairedOnlyKept, ZenonT(60) DEF KeysIInv
  <2>3. ASSUME quiet' PROVE Undisturbed'
    <3>1. Undisturbed
      BY <1>2, <2>2, <2>3, Zenon DEF KeysIInv
    <3>2. CASE Missing
      BY <2>1, <2>2, <2>3, <3>1, <3>2, MissingKept, Zenon
    <3>3. CASE \E w \in Procs : Writing(w)
      BY <2>1, <2>2, <2>3, <3>1, <3>3, WritingKept, Zenon
    <3>4. CASE Kept
      BY <2>1, <2>2, <2>3, <3>1, <3>4, KeptKept, Zenon
    <3> QED
      BY <3>1, <3>2, <3>3, <3>4, Zenon DEF Undisturbed
  <2> QED
    BY <2>2, <2>3, Zenon DEF KeysIInv
<1> QED
  BY <1>1, <1>2, Zenon

\* Programs that do not get in each other's way use one key, and a paired key on
\* disk is one a device knows.
THEOREM OneIdentity ==
    K!Spec => []KeysAgree
BY KeysInits, KeysStep, KeysImplies, PTL DEF K!Spec
=============================================================================
