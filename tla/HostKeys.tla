------------------------------ MODULE HostKeys ------------------------------
(***************************************************************************)
(* The host's RSA identity on disk and the programs that share it: the     *)
(* client (crypto/key.rs, load_userkey), the server (client/auth.rs,       *)
(* load_or_create_auth), `keygen`, `pair` (save_adb_keystore) and the      *)
(* wireless connect (adb_wifi.rs, load_or_build_auth).  A file is opened   *)
(* with truncation and written in a later step, so another process, or a   *)
(* crash, can come in between.  A key is a pair of the process that        *)
(* generated it and a number: 1 for the one it means to keep, 2 for the    *)
(* ephemeral one it falls back to.                                         *)
(***************************************************************************)
EXTENDS Naturals, Sequences

CONSTANTS
    Procs,        \* processes, each of which runs once
    Aosp,         \* the program that wrote a key found at the beginning
    Absent, Torn, \* no such file; an empty or half-written one
    MaxCrashes    \* bound: processes killed on the way

VARIABLES
    role,         \* process -> what it runs
    writable,     \* the key directories that can be written
    priv, pub,    \* directory -> adbkey, adbkey.pub
    at, dir,      \* process -> next step, and the directory it is working in
    got,          \* process -> {} or the key it authenticates with
    trusted,      \* the keys devices have accepted by pairing
    crashes,
    quiet         \* keys have only been written by a process running alone,
                  \* in the home directory, and nobody was killed

vars == <<role, writable, priv, pub, at, dir, got, trusted, crashes, quiet>>

Roles == {"client", "server", "keygen", "pair", "wifi"}
adb_key_dirs == <<"home", "sdcard">>
Dirs == {"home", "sdcard"}
Fresh(p) == <<p, 1>>
Ephemeral(p) == <<p, 2>>
Files == {Absent, Torn, <<Aosp, 1>>} \cup {Fresh(p) : p \in Procs}

Init ==
    /\ role \in [Procs -> Roles]
    /\ writable \in SUBSET Dirs
    /\ priv \in {[d \in Dirs |-> Absent], [home |-> <<Aosp, 1>>, sdcard |-> Absent]}
    /\ pub \in {[d \in Dirs |-> Absent], priv}
    /\ at = [p \in Procs |-> "idle"] /\ dir = [p \in Procs |-> 1]
    /\ got = [p \in Procs |-> {}]
    /\ trusted = {} /\ crashes = 0 /\ quiet = ("home" \in writable)

Over(p) == at[p] \in {"idle", "done"}
Alone(p) == \A q \in Procs \ {p} : Over(q)
Go(p, a) == at' = [at EXCEPT ![p] = a]
In(p, d) == dir' = [dir EXCEPT ![p] = d]
Use(p, k) == Go(p, "done") /\ got' = [got EXCEPT ![p] = {k}]
D(p) == adb_key_dirs[dir[p]]
Disk == <<writable, priv, pub, trusted, crashes, quiet>>

\* The process starts; `pair` first agrees with a device, which keeps the
\* key if it got that far, whether or not the client hears of it.
Start(p) ==
    /\ at[p] = "idle"
    /\ IF role[p] = "pair"
       THEN \E held, heard \in BOOLEAN :
                /\ heard => held
                /\ trusted' = IF held THEN trusted \cup {Fresh(p)} ELSE trusted
                /\ Go(p, IF heard THEN "open" ELSE "done")
       ELSE Go(p, "look") /\ UNCHANGED trusted
    /\ quiet' = (quiet /\ \A q \in Procs : at[q] # "write")
    /\ UNCHANGED <<role, writable, priv, pub, dir, got, crashes>>

\* Mutant: load_userkey generates a key without asking whether one exists.
LookBlind(p) ==
    /\ at[p] = "look"
    /\ Go(p, IF role[p] = "client" THEN "open" ELSE "read")
    /\ UNCHANGED <<role, dir, got>> /\ UNCHANGED Disk

\* The check for an existing private key.  load_userkey and keygen only know
\* the home directory; the server and the wireless connect try them in order.
Look(p) ==
    /\ at[p] = "look"
    /\ LET found == priv[D(p)] # Absent
       IN \/ /\ role[p] = "client"
             /\ Go(p, IF found THEN "read" ELSE "open") /\ UNCHANGED <<dir, got>>
          \/ /\ role[p] = "keygen"
             /\ Go(p, IF found THEN "done" ELSE "open") /\ UNCHANGED <<dir, got>>
          \/ /\ role[p] \in {"server", "wifi"} /\ found
             /\ Go(p, "read") /\ UNCHANGED <<dir, got>>
          \/ /\ role[p] \in {"server", "wifi"} /\ ~found /\ dir[p] < Len(adb_key_dirs)
             /\ In(p, dir[p] + 1) /\ UNCHANGED <<at, got>>
          \/ /\ role[p] = "server" /\ ~found /\ dir[p] = Len(adb_key_dirs)
             /\ In(p, 1) /\ Go(p, "open") /\ UNCHANGED got
          \/ /\ role[p] = "wifi" /\ ~found /\ dir[p] = Len(adb_key_dirs)
             /\ Use(p, Ephemeral(p)) /\ UNCHANGED dir
    /\ UNCHANGED role /\ UNCHANGED Disk

\* Reading and parsing the private key.  What cannot be parsed is an error,
\* on which default_auth makes an ephemeral key; only the wireless connect
\* goes on to the next directory.
Read(p) ==
    /\ at[p] = "read"
    /\ LET k == priv[D(p)]
       IN \/ /\ role[p] = "client" \/ (role[p] = "server" /\ (k = Torn \/ k = pub[D(p)]))
             /\ Use(p, IF k = Torn THEN Ephemeral(p) ELSE k) /\ UNCHANGED dir
          \/ /\ role[p] = "server" /\ k # Torn /\ k # pub[D(p)]
             /\ Go(p, "openpub") /\ got' = [got EXCEPT ![p] = {k}] /\ UNCHANGED dir
          \/ /\ role[p] = "wifi" /\ k # Torn
             /\ Use(p, k) /\ UNCHANGED dir
          \/ /\ role[p] = "wifi" /\ k = Torn
             /\ IF dir[p] < Len(adb_key_dirs)
                THEN Go(p, "look") /\ In(p, dir[p] + 1) /\ UNCHANGED got
                ELSE Use(p, Ephemeral(p)) /\ UNCHANGED dir
    /\ UNCHANGED role /\ UNCHANGED Disk

\* A directory that cannot be written: an error for the client (ephemeral
\* key), keygen and pair; the server tries the next and in the end keeps its
\* key in memory only.
OpenFails(p) ==
    /\ at[p] \in {"open", "openpub"} /\ D(p) \notin writable
    /\ \/ /\ role[p] = "client" /\ Use(p, Ephemeral(p)) /\ UNCHANGED dir
       \/ /\ role[p] \in {"keygen", "pair"} /\ Go(p, "done") /\ UNCHANGED <<dir, got>>
       \/ /\ role[p] = "server" /\ got[p] # {}
          /\ Use(p, Ephemeral(p)) /\ UNCHANGED dir
       \/ /\ role[p] = "server" /\ got[p] = {}
          /\ IF dir[p] < Len(adb_key_dirs)
             THEN In(p, dir[p] + 1) /\ UNCHANGED <<at, got>>
             ELSE Use(p, Fresh(p)) /\ UNCHANGED dir
    /\ UNCHANGED role /\ UNCHANGED Disk

\* generate_key, write_private_key and save_adb_keystore open with
\* truncation, write, and do the same for the public key.
Open(p) ==
    /\ at[p] = "open" /\ D(p) \in writable
    /\ priv' = [priv EXCEPT ![D(p)] = Torn] /\ Go(p, "write")
    /\ quiet' = (quiet /\ Alone(p))
    /\ UNCHANGED <<role, writable, pub, dir, got, trusted, crashes>>

Write(p) ==
    /\ at[p] = "write"
    /\ priv' = [priv EXCEPT ![D(p)] = Fresh(p)] /\ Go(p, "openpub")
    /\ UNCHANGED <<role, writable, pub, dir, got, trusted, crashes, quiet>>

OpenPub(p) ==
    /\ at[p] = "openpub" /\ D(p) \in writable
    /\ pub' = [pub EXCEPT ![D(p)] = Torn] /\ Go(p, "writepub")
    /\ UNCHANGED <<role, writable, priv, dir, got, trusted, crashes, quiet>>

\* Afterwards load_userkey reads the file back, the server keeps what it has.
WritePub(p) ==
    /\ at[p] = "writepub"
    /\ LET k == IF got[p] = {} THEN Fresh(p) ELSE CHOOSE x \in got[p] : TRUE
       IN /\ pub' = [pub EXCEPT ![D(p)] = k]
          /\ \/ role[p] = "client" /\ Go(p, "read") /\ UNCHANGED got
             \/ role[p] = "server" /\ Use(p, k)
             \/ role[p] \in {"keygen", "pair"} /\ Go(p, "done") /\ UNCHANGED got
    /\ UNCHANGED <<role, writable, priv, dir, trusted, crashes, quiet>>

\* A process is killed.
Crash(p) ==
    /\ ~Over(p) /\ crashes < MaxCrashes
    /\ crashes' = crashes + 1 /\ quiet' = FALSE
    /\ Go(p, "done") /\ got' = [got EXCEPT ![p] = {}]
    /\ UNCHANGED <<role, writable, priv, pub, dir, trusted>>

Step(p) == \/ Look(p) \/ Read(p) \/ OpenFails(p) \/ Open(p) \/ Write(p)
           \/ OpenPub(p) \/ WritePub(p)

\* The functions whose steps these are.
load_userkey(p) == role[p] = "client" /\ Step(p)
load_or_create_auth(p) == role[p] = "server" /\ Step(p)
adb_auth_keygen(p) == role[p] = "keygen" /\ Step(p)
save_adb_keystore(p) == role[p] = "pair" /\ Step(p)
load_or_build_auth(p) == role[p] = "wifi" /\ Step(p)

Next ==
    \E p \in Procs :
        \/ Start(p) \/ Crash(p)
        \/ load_userkey(p) \/ load_or_create_auth(p) \/ adb_auth_keygen(p)
        \/ save_adb_keystore(p) \/ load_or_build_auth(p)

Spec == Init /\ [][Next]_vars

(***************************************************************************)
(* Properties                                                              *)
(***************************************************************************)

\* The programs agree on the key.  As long as every private key was written by a process
\* running alone, none was killed and nobody paired, all programs, with their
\* different search orders and their different ways of creating the key,
\* authenticate with one and the same key.  (The wireless connect creates no
\* file: before there is a key it makes one for itself.)  And a pairing's key
\* is on disk only if a device accepted it, whatever else ran or was killed
\* meanwhile, with the public key that belongs to it if nobody interfered.
KeysAgree ==
    LET users == {p \in Procs : got[p] # {} /\ (role[p] = "wifi" => got[p] # {Ephemeral(p)})}
    IN  /\ quiet /\ (\A p \in Procs : role[p] # "pair") =>
              \A p, q \in users : got[p] = got[q]
        /\ \A p \in Procs : role[p] = "pair" /\ priv["home"] = Fresh(p) =>
              /\ Fresh(p) \in trusted
              /\ quiet /\ at[p] = "done" /\ Alone(p) => pub["home"] = priv["home"]
=============================================================================
