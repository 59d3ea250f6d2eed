------------------------------- MODULE Session -------------------------------
(* What it takes to be let in by a device: the key files the programs of a     *)
(* host share, a pairing that makes a device know a key, and the handshake     *)
(* that uses it.  Each is a component with state of its own, under the names   *)
(* given here.                                                                 *)
EXTENDS Naturals

CONSTANTS Procs, Aosp, Absent, Torn, MaxCrashes,  \* HostKeys
          Codes, Bad,                             \* Pairing
          MaxTls, MaxClassic                      \* Handshake

ASSUME ServicesAssumption == MaxTls \in Nat /\ MaxClassic \in Nat
ASSUME KeysAssumption ==
           /\ Aosp \notin Procs /\ Absent # Torn
           /\ \A p \in Procs \cup {Aosp} : <<p, 1>> \notin {Absent, Torn}

VARIABLES role, writable, priv, pub, keys_at, dir, keys_got, trusted, crashes, quiet,
          code, export, pairing_up, pairing_down, open, client, server, saved,
          host, devices, handshake_at, handshake_pc, sent_signature, sent_public_key,
          handshake_up, handshake_down, secure, device, machine

K == INSTANCE HostKeys WITH at <- keys_at, got <- keys_got
P == INSTANCE Pairing WITH up <- pairing_up, down <- pairing_down
H == INSTANCE Handshake WITH at <- handshake_at, pc <- handshake_pc, up <- handshake_up, down <- handshake_down
-----------------------------------------------------------------------------
(* Host keys: processes that share ~/.android use keys that fit together, see   *)
(* HostKeys.                                                                    *)
KeysAgree == K!KeysAgree

(* Pairing: a side that takes the other for paired knows its key and had the    *)
(* same code on the same TLS session, see Pairing.                              *)
PairedIsMutual == P!PairedIsMutual

(* The handshake: a host that takes a device for online and the device agree    *)
(* on it, and on whether the connection is encrypted, see Handshake.            *)
OnlineIsAgreed == H!OnlineIsAgreed
=============================================================================
