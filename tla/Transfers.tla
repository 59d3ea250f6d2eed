------------------------------ MODULE Transfers ------------------------------
(* What the adb client does with a package: the install sessions, and the      *)
(* incremental attempt before them.  Each is a component with state of its     *)
(* own; the names here keep their variables apart.                             *)
EXTENDS Integers, Sequences, FiniteSets

CONSTANTS Splits, Modes,   \* InstallSessions
          Inputs, NoMode   \* IncrementalInstall

(* What main_adb.rs takes from a command line, the device and its files.        *)
ASSUME InputsAssumption ==
    /\ NoMode \notin {"streamed", "push", "incremental"}
    /\ \A i \in Inputs :
          /\ i.modeArg \in {NoMode, "streamed", "push"}
          /\ i.incr \in {"enable", "disable", "none"}
          /\ i.abb \in BOOLEAN /\ i.cmd \in BOOLEAN
          /\ i.files \in Seq([v4 : BOOLEAN, sig : {"none", "good", "bad", "unreadable"}, small : BOOLEAN])

VARIABLES sessions_mode, now, sessions_todo, phase, failed, known, link, refused, session,
          sessions_files, children, staged, installed,
          input, attempt_pc, attempt_mode, fallback, db, args, pump, server, verdict,
          regular, attempt_result

S == INSTANCE InstallSessions WITH mode <- sessions_mode, todo <- sessions_todo,
       files <- sessions_files
A == INSTANCE IncrementalInstall WITH pc <- attempt_pc, mode <- attempt_mode,
       result <- attempt_result

(* What is installed: one package or more, each of one file or more.            *)
ASSUME SplitsAssumption ==
    /\ Splits \in Seq(Seq(STRING) \ {<<>>}) /\ Splits # <<>>
    /\ Modes \subseteq S!AllModes
-----------------------------------------------------------------------------
(* Installs: a package is committed with all of its files or not at all, and    *)
(* the caller is told which, see InstallSessions.                               *)
AllOrNothing == S!AllOrNothing

(* Installs: the sessions and files a failed install made are removed again,    *)
(* see InstallSessions.                                                         *)
NothingLeftBehind == S!NothingLeftBehind

(* The incremental attempt: when it fails its pump and server are gone before   *)
(* the install is tried another way, see IncrementalInstall.                    *)
AttemptIsContained == A!AttemptIsContained

(* The incremental attempt: the arguments given to the device and the server's  *)
(* database call the same file by the same id, see IncrementalInstall.          *)
FileIdsAgree == A!FileIdsAgree
=============================================================================
