------------------------- MODULE IncrementalInstall -------------------------
(* adb install and install-multiple from the choice of the mode to the end of  *)
(* the incremental attempt: the database, the processes that serve it, the     *)
(* wait for the package manager's verdict, and the fallback to a regular       *)
(* install (InstallSessions, here one step).                                   *)
EXTENDS Integers, Sequences, FiniteSets

CONSTANTS
    Inputs,   \* command lines and devices: records with the fields below
    NoMode    \* no mode, no fallback
    (* modeArg: "streamed", "push" or NoMode; incr: "enable", "disable" or        *)
    (* "none"; abb, cmd: the device's features; env, probe: "on", "off" or "none"; *)
    (* files: a sequence of [v4 |-> needs a signature, sig |-> "none", "good",     *)
    (* "bad" (tree size) or "unreadable", small |-> one block]; tls: the socket    *)
    (* cannot be handed on; threads: more than one thread.                        *)

VARIABLES
    input, pc,
    mode, fallback,
    db,         \* the database: entries [file, id, signed]
    args,       \* files given to the server, in order
    pump, server,  \* "none", "running", "exited" or "killed"
    verdict,    \* what the package manager wrote so far
    regular,    \* the regular install that ran, or NoMode
    result      \* "none", "ok" or "error"

vars == <<input, pc, mode, fallback, db, args, pump, server, verdict, regular, result>>

(***************************************************************************)
(* The choice of the mode.                                                 *)
(***************************************************************************)

(* select_install_mode with InstallModeRequest::Auto. *)
BestMode(i) == IF i.cmd THEN "streamed" ELSE "push"

Choice(m, f) == [ok |-> TRUE, mode |-> m, fallback |-> f]
Refusal == [ok |-> FALSE, mode |-> NoMode, fallback |-> NoMode]

(* The mode of an install command line, and the one to fall back to. *)
calculate_install_mode(i) ==
    LET off == i.incr = "disable" \/ (i.incr = "none" /\ (~i.abb \/ i.env = "off" \/ i.probe = "off"))
    IN  IF i.modeArg # NoMode THEN IF i.incr = "enable" THEN Refusal ELSE Choice(i.modeArg, NoMode)
        ELSE IF i.incr = "enable" THEN IF i.abb THEN Choice("incremental", NoMode) ELSE Refusal
        ELSE IF off THEN Choice(BestMode(i), NoMode)
        ELSE Choice("incremental", BestMode(i))

(* "Attempting to use streaming install on unsupported device". *)
Unsupported(i, c) == "streamed" \in {c.mode, c.fallback} /\ BestMode(i) = "push"

(***************************************************************************)
(* The database.                                                           *)
(***************************************************************************)

(* should_use_incremental_by_default: no signature is that of an empty tree,    *)
(* which a file of one block has.                                               *)
UsableByDefault(files) ==
    \A k \in DOMAIN files : files[k].v4 => files[k].sig = "good" \/ (files[k].sig = "none" /\ files[k].small)

\* The numbers of a set in increasing order: the loops over a list that pass
\* over some of its entries.
Ordered(ks) ==
    [n \in 1 .. Cardinality(ks) |-> CHOOSE k \in ks : Cardinality({j \in ks : j <= k}) = n]

Entries(files, good) == Ordered({k \in DOMAIN files : (files[k].sig # "none") = good})

(* build_database: silent runs require the signatures. *)
DatabaseOk(files, silent) ==
    \A k \in DOMAIN files :
        /\ files[k].sig \notin {"unreadable", "bad"}
        /\ silent /\ files[k].v4 => files[k].sig # "none"

(* Mutant: ids are given in the order of the command line. *)
build_database_unsorted(files) ==
    [k \in DOMAIN files |-> [file |-> k, id |-> k - 1, signed |-> files[k].sig # "none"]]

build_database(files) ==
    LET order == Entries(files, TRUE) \o Entries(files, FALSE)
    IN  [k \in DOMAIN order |-> [file |-> order[k], id |-> k - 1, signed |-> files[order[k]].sig # "none"]]

Init ==
    /\ input \in Inputs /\ pc = "choose" /\ mode = NoMode /\ fallback = NoMode
    /\ db = <<>> /\ args = <<>> /\ pump = "none" /\ server = "none"
    /\ verdict = "none" /\ regular = NoMode /\ result = "none"

silent == fallback # NoMode

Return(r) == pc' = "returned" /\ result' = r

(* A failed attempt: the server and the pump are killed, and a silent attempt    *)
(* falls back.                                                                  *)
Kill(p) == IF p = "running" THEN "killed" ELSE p

(* Mutant: the error path of the launcher leaves the pump alone. *)
AttemptFailsPumpLeft ==
    /\ server' = Kill(server)
    /\ UNCHANGED pump
    /\ IF silent THEN pc' = "regular" /\ mode' = fallback /\ UNCHANGED result
                 ELSE Return("error") /\ UNCHANGED mode

AttemptFails ==
    /\ server' = Kill(server)
    /\ pump' = Kill(pump)
    /\ IF silent THEN pc' = "regular" /\ mode' = fallback /\ UNCHANGED result
                 ELSE Return("error") /\ UNCHANGED mode

ChooseMode ==
    /\ pc = "choose"
    /\ LET c == calculate_install_mode(input)
       IN  IF ~c.ok \/ Unsupported(input, c)
           THEN Return("error") /\ UNCHANGED <<mode, fallback>>
           ELSE /\ mode' = c.mode /\ fallback' = c.fallback
                /\ pc' = IF c.mode = "incremental" THEN "attempt" ELSE "regular"
                /\ UNCHANGED result
    /\ UNCHANGED <<input, db, args, pump, server, verdict, regular>>

(* run_incremental_attempt up to the database. *)
Attempt ==
    /\ pc = "attempt"
    /\ IF (silent => UsableByDefault(input.files)) /\ DatabaseOk(input.files, silent)
       THEN /\ db' = build_database(input.files)
            /\ pc' = "connect" /\ UNCHANGED <<mode, result, pump, server>>
       ELSE AttemptFails /\ UNCHANGED db
    /\ UNCHANGED <<input, fallback, args, verdict, regular>>

(* connect_incremental, then send_unsigned_files. *)
Connect ==
    /\ pc = "connect"
    /\ \/ pc' = "launch" /\ UNCHANGED <<mode, result, pump, server>>
       \/ AttemptFails
    /\ UNCHANGED <<input, fallback, db, args, verdict, regular>>

SignedFiles ==
    LET signed == Ordered({k \in DOMAIN db : db[k].signed})
    IN  [n \in DOMAIN signed |-> db[signed[n]]]

(* start_inc_server: the pump and then the server, or the fork of this process.  *)
LaunchPump ==
    /\ pc = "launch" /\ ~input.tls
    /\ \/ pump' = "running" /\ pc' = "serve" /\ UNCHANGED <<mode, result, server>>
       \/ AttemptFails
    /\ UNCHANGED <<input, fallback, db, args, verdict, regular>>

LaunchServer ==
    /\ pc = "serve" \/ (pc = "launch" /\ input.tls)
    /\ \/ /\ ~(input.tls /\ input.threads)
          /\ args' = [k \in DOMAIN SignedFiles |-> SignedFiles[k].file]
          /\ server' = "running" /\ pc' = "wait" /\ UNCHANGED <<mode, result, pump>>
       \/ AttemptFails /\ UNCHANGED args
    /\ UNCHANGED <<input, fallback, db, verdict, regular>>

(* The package manager, through the server: its text comes at once or not at    *)
(* all, and may be one the client cannot read.                                  *)
Speaks ==
    /\ pc = "wait" /\ server = "running" /\ verdict = "none"
    /\ verdict' \in {"Success", "Failure", "garbled", "long"}
    /\ UNCHANGED <<input, pc, mode, fallback, db, args, pump, server, regular, result>>

(* The session ends: every block is sent, or the connection breaks. *)
ServerExits ==
    /\ server = "running"
    /\ server' = "exited"
    /\ pump' = IF pump = "running" THEN "exited" ELSE pump
    /\ UNCHANGED <<input, pc, mode, fallback, db, args, verdict, regular, result>>

(* wait_for_installation_fd: until 256 bytes have come or the server is gone. *)
Verdict ==
    /\ pc = "wait"
    /\ server = "exited" \/ verdict = "long"
    /\ IF verdict = "Success" THEN Return("ok") /\ UNCHANGED <<mode, pump, server>> ELSE AttemptFails
    /\ UNCHANGED <<input, fallback, db, args, verdict, regular>>

(* install_apk, install_apk_streamed, install_multiple on a fresh connection. *)
Regular ==
    /\ pc = "regular"
    /\ regular' = mode
    /\ \E r \in {"ok", "error"} : Return(r)
    /\ UNCHANGED <<input, mode, fallback, db, args, pump, server, verdict>>

Next == ChooseMode \/ Attempt \/ Connect \/ LaunchPump \/ LaunchServer \/ Speaks \/ ServerExits \/ Verdict \/ Regular

Spec == Init /\ [][Next]_vars

(***************************************************************************)
(* Properties.                                                             *)
(***************************************************************************)

(* An incremental attempt is contained.  One that nobody asked for is made only *)
(* where the device offers it and neither the host nor the device turned it off, *)
(* and has a regular install behind it; one that was asked for never falls back. *)
(* No process of an attempt that failed is left to write to the device, neither  *)
(* when the regular install begins nor when the command returns an error.  And   *)
(* an incremental success is one the package manager reported.                   *)
AttemptIsContained ==
    /\ pc = "attempt" => input.abb /\ input.modeArg = NoMode
    /\ pc = "attempt" /\ input.incr = "none" => input.env # "off" /\ input.probe # "off" /\ silent
    /\ input.incr = "enable" => regular = NoMode
    /\ regular = "streamed" => input.cmd
    /\ pc = "regular" \/ result = "error" => "running" \notin {pump, server}
    /\ result = "ok" /\ regular = NoMode => verdict = "Success"

(* The server answers for file id n with the file the device knows as n. *)
FileIdsAgree ==
    \A n \in DOMAIN args : \E k \in DOMAIN db : db[k].id = n - 1 /\ db[k].file = args[n]
=============================================================================
