------------------------------- MODULE Pairing ------------------------------
(***************************************************************************)
(* One pairing of the host with a device                                   *)
(* (pairing_connection/pairing_connection.rs, pairing_server.rs, the       *)
(* packets of pairing.rs, and pair_device of client/adb_wifi.rs).  Both    *)
(* sides are given a code and run SPAKE2 over a TLS connection whose       *)
(* exporter is part of the password; then each sends its PeerInfo          *)
(* encrypted under the key the exchange gave it.  The connection may break *)
(* at any point, and what a side reads may be no valid packet.             *)
(*                                                                         *)
(* A SPAKE2 key is modelled by what it depends on: the two passwords.  A   *)
(* ciphertext is a record of the key it was made with and its contents.    *)
(***************************************************************************)
EXTENDS Sequences

CONSTANTS Codes, Bad          \* six-digit codes; a code that is not six digits

VARIABLES
    code,                     \* [client, server] the code each was given
    export,                   \* [client, server] the TLS exporter each sees
    up, down, open,           \* the connection
    client, server,           \* [at, key, peer]
    saved                     \* the client's key has been written to disk

vars == <<code, export, up, down, open, client, server, saved>>

None == "none"

Init ==
    /\ code \in [{"client", "server"} -> Codes \cup {Bad}]
    /\ export \in [{"client", "server"} -> {"one", "other"}]
    /\ up = <<>> /\ down = <<>> /\ open = TRUE /\ saved = FALSE
    /\ client = [at |-> "new", key |-> {}, peer |-> None]
    /\ server = [at |-> "new", key |-> {}, peer |-> None]

validate_pairing_code(c) == c # Bad

\* Mutant: the TLS channel has no part in the password.
PasswordCodeOnly(who) == <<code[who], "one">>

\* The password is the code with the exporter appended.
Password(who) == <<code[who], export[who]>>

Spake2Msg(who) == [type |-> "Spake2Msg", password |-> Password(who)]
PeerInfo(key, info) == [type |-> "PeerInfo", under |-> key, info |-> info]
Garbled == [type |-> "invalid"]

\* Both ends derive the same key exactly when the passwords are the same.
SpakeKey(mine, msg) == {mine, msg.password}

Fail(s) == [s EXCEPT !.at = "failed"]
Opens(s, p) == p.type = "PeerInfo" /\ p.under = s.key /\ \A x, y \in s.key : x = y

\* pair_device: the code is checked before anything is sent.
ClientStarts ==
    /\ client.at = "new"
    /\ IF validate_pairing_code(code["client"]) /\ open
       THEN /\ client' = [client EXCEPT !.at = "spake"]
            /\ up' = Append(up, Spake2Msg("client"))
       ELSE client' = Fail(client) /\ UNCHANGED up
    /\ UNCHANGED <<code, export, down, open, server, saved>>

ClientSpake ==
    /\ client.at = "spake" /\ down # <<>> /\ down' = Tail(down)
    /\ IF Head(down).type = "Spake2Msg"
       THEN LET key == SpakeKey(Password("client"), Head(down))
            IN /\ client' = [client EXCEPT !.at = "info", !.key = key]
               /\ up' = Append(up, PeerInfo(key, "rsa_key"))
       ELSE client' = Fail(client) /\ UNCHANGED up
    /\ UNCHANGED <<code, export, open, server, saved>>

\* The server's PeerInfo ends the exchange.
ClientInfo ==
    /\ client.at = "info" /\ down # <<>> /\ down' = Tail(down)
    /\ client' = IF Opens(client, Head(down))
                 THEN [client EXCEPT !.at = "save", !.peer = Head(down).info]
                 ELSE Fail(client)
    /\ UNCHANGED <<code, export, up, open, server, saved>>

\* save_adb_keystore; the disk may refuse.
ClientSaves ==
    /\ client.at = "save"
    /\ \/ saved' = TRUE /\ client' = [client EXCEPT !.at = "paired"]
       \/ client' = Fail(client) /\ UNCHANGED saved
    /\ UNCHANGED <<code, export, up, down, open, server>>

\* PairingServer: its first message is sent only after the client's came.
ServerStarts ==
    /\ server.at = "new"
    /\ server' = IF validate_pairing_code(code["server"])
                 THEN [server EXCEPT !.at = "spake"] ELSE Fail(server)
    /\ UNCHANGED <<code, export, up, down, open, client, saved>>

ServerSpake ==
    /\ server.at = "spake" /\ up # <<>> /\ up' = Tail(up)
    /\ IF Head(up).type = "Spake2Msg" /\ open
       THEN /\ server' = [server EXCEPT !.at = "info",
                                        !.key = SpakeKey(Password("server"), Head(up))]
            /\ down' = Append(down, Spake2Msg("server"))
       ELSE server' = Fail(server) /\ UNCHANGED down
    /\ UNCHANGED <<code, export, open, client, saved>>

\* The client's PeerInfo is opened and kept before the server answers with its
\* own.
ServerInfo ==
    /\ server.at = "info" /\ up # <<>> /\ up' = Tail(up)
    /\ IF Opens(server, Head(up))
       THEN /\ server' = [server EXCEPT !.at = IF open THEN "paired" ELSE "failed",
                                        !.peer = Head(up).info]
            /\ down' = IF open THEN Append(down, PeerInfo(server.key, "guid")) ELSE down
       ELSE server' = Fail(server) /\ UNCHANGED down
    /\ UNCHANGED <<code, export, open, client, saved>>

\* A side that gave up closes the connection; it may also break by itself.
Break ==
    /\ open /\ open' = FALSE
    /\ UNCHANGED <<code, export, up, down, client, server, saved>>

\* Bytes that make no valid packet: a wrong version, type or length.
Garble ==
    /\ open
    /\ \/ up # <<>> /\ up' = [up EXCEPT ![1] = Garbled] /\ UNCHANGED down
       \/ down # <<>> /\ down' = [down EXCEPT ![1] = Garbled] /\ UNCHANGED up
    /\ UNCHANGED <<code, export, open, client, server, saved>>

\* read_exact at the end of the stream is an error.
ReadEnds ==
    /\ ~open
    /\ \/ client.at \in {"spake", "info"} /\ down = <<>> /\ client' = Fail(client)
          /\ UNCHANGED server
       \/ server.at \in {"spake", "info"} /\ up = <<>> /\ server' = Fail(server)
          /\ UNCHANGED client
    /\ UNCHANGED <<code, export, up, down, open, saved>>

Closes ==
    /\ open /\ (client.at \in {"failed", "paired"} \/ server.at \in {"failed", "paired"})
    /\ open' = FALSE
    /\ UNCHANGED <<code, export, up, down, client, server, saved>>

\* pair_device and PairingServer::execute_pairing.
pair_device == ClientStarts \/ ClientSpake \/ ClientInfo \/ ClientSaves
PairingServer == ServerStarts \/ ServerSpake \/ ServerInfo

Sides == pair_device \/ PairingServer \/ ReadEnds \/ Closes

Next == Sides \/ Break \/ Garble

Fairness == WF_vars(Sides)

Spec == Init /\ [][Next]_vars /\ Fairness

(***************************************************************************)
(* Properties                                                              *)
(***************************************************************************)

\* Pairing is mutual: the host stores its new key (overwriting the old one)
\* only if the device has accepted exactly that key, both were given the same
\* well-formed code and both see the same TLS channel.  The converse cannot
\* hold: the server's answer may be lost.
PairedIsMutual ==
    /\ saved => /\ server.peer = "rsa_key" /\ client.peer = "guid"
    /\ server.peer # None \/ client.peer # None =>
           /\ code["client"] = code["server"] /\ code["client"] # Bad
           /\ export["client"] = export["server"]

\* Both sides come to an end: neither waits for a packet that will not come.
BothEnd == <>[](/\ client.at \in {"paired", "failed"}
                /\ server.at \in {"paired", "failed"})
=============================================================================
