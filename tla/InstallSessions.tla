--------------------------- MODULE InstallSessions ---------------------------
(* adb install, install-multiple and install-multi-package: the commands the   *)
(* client gives the package manager, one service each, and what it does when   *)
(* one of them fails.  A command is a step; the device may carry it out or     *)
(* refuse it, the connection may break before or after it took effect, the     *)
(* answer may be unreadable, and the local file may have changed.              *)
EXTENDS Integers, Sequences

CONSTANTS
    Splits,    \* the packages of the call: a sequence of sequences of files
    Modes      \* the entry points tried, a subset of AllModes

VARIABLES
    mode,      \* the entry point
    now,       \* the command to be given
    todo,      \* commands of the clean-up still to be given
    phase,     \* "start", "work", "cleanup" or "returned"
    failed,    \* the call returns an error
    known,     \* sessions whose id the client has read, in order
    link,      \* the connection is up
    refused,   \* a command of the clean-up was not carried out
    session,   \* the device's sessions: "none", "open", "committed", "abandoned"
    files,     \* what has been written to each session
    children,  \* sessions added to the parent
    staged,    \* files under /data/local/tmp, whole or not
    installed  \* packages installed outside any session

vars == <<mode, now, todo, phase, failed, known, link, refused, session, files, children, staged, installed>>

AllModes == {"install_apk", "install_apk_streamed", "install_multiple", "install_multiple_streamed",
             "install_multi_package"}

Packages == DOMAIN Splits
Parent == 0
Sessions == {Parent} \cup Packages

(* The files of install-multiple are those of the first package. *)
Batch == Splits[1]

(* The files written to a session. *)
Apks(s) == IF mode # "install_multi_package" THEN Batch ELSE IF s = Parent THEN <<>> ELSE Splits[s]

(* A command to session s, about file i of those or about none. *)
Command(c, s, i) == [c |-> c, s |-> s, i |-> i]
File(k) == Apks(k.s)[k.i]
Begin == Command("begin", Parent, 0)
Done == Command("done", Parent, 0)

(***************************************************************************)
(* What each entry point does next, when command k has succeeded.          *)
(***************************************************************************)
Session(k) ==
    CASE k.c \in {"create", "write"} ->
            IF k.i < Len(Batch) THEN Command("write", Parent, k.i + 1) ELSE Command("commit", Parent, 0)
      [] k.c = "commit" -> Done
      [] OTHER -> Command("create", Parent, 0)

install_apk(k) ==
    CASE k.c = "begin" -> Command("push", Parent, 1)
      [] k.c = "push" -> Command("install", Parent, 1)
      [] OTHER -> Done

install_apk_streamed(k) == IF k.c = "begin" THEN Command("install", Parent, 1) ELSE Done

install_multiple(k) ==
    IF k.c \in {"begin", "push"} /\ k.i < Len(Batch) THEN Command("push", Parent, k.i + 1) ELSE Session(k)

install_multiple_streamed(k) == Session(k)

install_multi_package_sessions(k) ==
    CASE k.c = "begin" -> Command("create", Parent, 0)
      [] k.c \in {"create", "write"} /\ k.i < Len(Apks(k.s)) -> Command("write", k.s, k.i + 1)
      [] k.c \in {"create", "write"} /\ k.i >= Len(Apks(k.s)) ->
            IF k.s < Len(Splits) THEN Command("create", k.s + 1, 0) ELSE Command("add", Parent, 0)
      [] k.c = "add" -> Command("commit", Parent, 0)
      [] OTHER -> Done

After(k) ==
    CASE mode = "install_apk" -> install_apk(k)
      [] mode = "install_apk_streamed" -> install_apk_streamed(k)
      [] mode = "install_multiple" -> install_multiple(k)
      [] mode = "install_multiple_streamed" -> install_multiple_streamed(k)
      [] mode = "install_multi_package" -> install_multi_package_sessions(k)

Init ==
    /\ mode \in Modes /\ now = Begin /\ todo = <<>> /\ phase = "start"
    /\ failed = FALSE /\ known = <<>> /\ link = TRUE /\ refused = FALSE
    /\ session = [s \in Sessions |-> "none"] /\ files = [s \in Sessions |-> {}]
    /\ children = {} /\ staged = {} /\ installed = {}

(***************************************************************************)
(* What the device does with a command it accepts.                         *)
(***************************************************************************)
device == <<session, files, children, staged, installed>>

Known == {known[i] : i \in DOMAIN known}

Commits(s) == IF s = Parent /\ mode = "install_multi_package" THEN {s} \cup children ELSE {s}

Accepts(k) ==
    CASE k.c = "create" -> session[k.s] = "none"
      [] k.c \in {"write", "add", "commit"} -> session[k.s] = "open"
      [] k.c = "abandon" -> session[k.s] = "open"
      [] k.c = "rm" -> File(k) \in staged
      [] k.c = "install" -> mode = "install_apk" => File(k) \in staged
      [] OTHER -> TRUE

Effect(k) ==
    /\ session' = CASE k.c = "create" -> [session EXCEPT ![k.s] = "open"]
                    [] k.c = "commit" -> [s \in Sessions |-> IF s \in Commits(k.s) THEN "committed" ELSE session[s]]
                    [] k.c = "abandon" -> [session EXCEPT ![k.s] = "abandoned"]
                    [] OTHER -> session
    /\ files' = IF k.c = "write" THEN [files EXCEPT ![k.s] = @ \cup {File(k)}] ELSE files
    /\ children' = IF k.c = "add" THEN Known \ {Parent} ELSE children
    /\ staged' = CASE k.c = "push" -> staged \cup {File(k)} [] k.c = "rm" -> staged \ {File(k)} [] OTHER -> staged
    /\ installed' = IF k.c = "install" THEN installed \cup {File(k)} ELSE installed

(* What a command can come to.  A command succeeds when the package manager     *)
(* says so; a break is any error of the connection.  "Changed" is the client's  *)
(* own check of the local file's size, which fails with part of the file        *)
(* already pushed, or written to a session that will refuse to be committed.    *)
run_shell_command == {"success", "failure", "broken"}
push_apk_to_path == {"success", "failure", "broken", "changed"}
stream_file_to_install_command == {"success", "failure", "broken", "changed"}
parse_install_session_id == {"success", "failure", "broken", "unparsable"}

Streams(k) ==
    \/ k.c = "write" /\ mode # "install_multiple"
    \/ k.c = "install" /\ mode = "install_apk_streamed"

Outcomes(k) ==
    CASE k.c = "push" -> push_apk_to_path
      [] k.c = "create" -> parse_install_session_id
      [] Streams(k) -> stream_file_to_install_command
      [] OTHER -> run_shell_command

Give(k, outcome) ==
    CASE ~link -> outcome = "broken" /\ UNCHANGED <<device, link>>
      [] link /\ outcome \in {"success", "unparsable"} -> Accepts(k) /\ Effect(k) /\ UNCHANGED link
      [] link /\ outcome = "failure" -> UNCHANGED <<device, link>>
      [] link /\ outcome = "changed" ->
            /\ UNCHANGED <<session, files, children, installed, link>>
            /\ staged' = IF k.c = "push" THEN staged \cup {File(k)} ELSE staged
      [] link /\ outcome = "broken" ->
            /\ link' = FALSE
            /\ (UNCHANGED device \/ (Accepts(k) /\ Effect(k)))

(***************************************************************************)
(* The client.                                                             *)
(***************************************************************************)
Abandons == [i \in DOMAIN known |-> Command("abandon", known[i], 0)]

(* Every local file is looked at before anything is changed on the device: its  *)
(* name, its extension, its size, and whether another one has the same name.    *)
Start ==
    /\ phase = "start"
    /\ \/ phase' = "work" /\ now' = After(Begin) /\ UNCHANGED failed
       \/ phase' = "returned" /\ failed' = TRUE /\ UNCHANGED now
    /\ UNCHANGED <<mode, todo, known, link, refused, device>>

(* Mutant: the children of a multi-package install are forgotten. *)
CleanupParentOnly(k, ok) ==
    (IF ok THEN <<>> ELSE SelectSeq(Abandons, LAMBDA a : a.s = Parent))
    \o CASE mode = "install_apk" /\ k.c = "install" -> <<Command("rm", Parent, k.i)>>
         [] mode = "install_multiple" -> [i \in DOMAIN Batch |-> Command("rm", Parent, i)]
         [] OTHER -> <<>>

(* Every file it planned to push, whether or not it was. *)
cleanup_staged_apks == [i \in DOMAIN Batch |-> Command("rm", Parent, i)]

(* What follows the last command, or the first that failed: the sessions whose  *)
(* ids are known are abandoned, parent first; install_multiple removes its      *)
(* files, install_apk the one it pushed, and nothing when the push itself       *)
(* failed.                                                                      *)
Cleanup(k, ok) ==
    (IF ok THEN <<>> ELSE Abandons)
    \o CASE mode = "install_apk" /\ k.c = "install" -> <<Command("rm", Parent, k.i)>>
         [] mode = "install_multiple" -> cleanup_staged_apks
         [] OTHER -> <<>>

Enter(next, ok) ==
    /\ failed' = ~ok
    /\ now' = Done /\ todo' = next
    /\ phase' = IF next = <<>> THEN "returned" ELSE "cleanup"

(* Mutant: a write that fails is not noticed. *)
WorkUnchecked ==
    /\ phase = "work"
    /\ \E o \in Outcomes(now) :
         /\ Give(now, o)
         /\ known' = IF now.c = "create" /\ o = "success" THEN Append(known, now.s) ELSE known
         /\ LET ok == o = "success" \/ (now.c = "write" /\ o = "failure")
            IN  IF ok /\ After(now) # Done
                THEN now' = After(now) /\ UNCHANGED <<todo, phase, failed>>
                ELSE Enter(Cleanup(now, ok), ok)
    /\ UNCHANGED <<mode, refused>>

Work ==
    /\ phase = "work"
    /\ \E o \in Outcomes(now) :
         /\ Give(now, o)
         /\ known' = IF now.c = "create" /\ o = "success" THEN Append(known, now.s) ELSE known
         /\ LET ok == o = "success"
            IN  IF ok /\ After(now) # Done
                THEN now' = After(now) /\ UNCHANGED <<todo, phase, failed>>
                ELSE Enter(Cleanup(now, ok), ok)
    /\ UNCHANGED <<mode, refused>>

(* The result of a command of the clean-up is ignored. *)
CleanUp ==
    /\ phase = "cleanup"
    /\ \E o \in run_shell_command :
         /\ Give(Head(todo), o)
         /\ refused' = (refused \/ (o = "failure" /\ Accepts(Head(todo))))
    /\ todo' = Tail(todo)
    /\ phase' = IF Tail(todo) = <<>> THEN "returned" ELSE phase
    /\ UNCHANGED <<mode, now, failed, known>>

Next == Start \/ Work \/ CleanUp

Spec == Init /\ [][Next]_vars

(***************************************************************************)
(* Properties.                                                             *)
(***************************************************************************)
Wanted(s) == {Apks(s)[i] : i \in DOMAIN Apks(s)}

(* All or nothing: a session is committed only with every file of its package   *)
(* written to it, a multi-package parent only together with every child; and   *)
(* the call reports success exactly then, unless the connection broke with the  *)
(* answer still to come.                                                        *)
AllOrNothing ==
    /\ \A s \in Sessions : session[s] = "committed" => files[s] = Wanted(s)
    /\ session[Parent] = "committed" /\ mode = "install_multi_package" =>
          \A p \in Packages : session[p] = "committed"
    /\ phase = "returned" /\ ~failed => session[Parent] = "committed" \/ installed = {Batch[1]}
    /\ phase = "returned" /\ failed /\ link => session[Parent] # "committed" /\ installed = {}

(* Nothing is left behind on a device that stays reachable and carries out the  *)
(* clean-up: when the call returns, every session whose id was read is committed *)
(* or abandoned, and no file is left staged unless the only push failed.        *)
NothingLeftBehind ==
    phase = "returned" /\ link /\ ~refused =>
        /\ \A s \in Known : session[s] # "open"
        /\ staged # {} => mode = "install_apk" /\ installed = {}
=============================================================================
