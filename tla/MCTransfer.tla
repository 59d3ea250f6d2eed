----------------------------- MODULE MCTransfer -----------------------------
(* The commands of the adb client, as five machines of which one runs in each  *)
(* behaviour: the way of every command to its device, push and pull, install   *)
(* sessions, the decision for an incremental install with its processes, and   *)
(* the server that feeds blocks to the device.  A machine that does not run    *)
(* stays in one initial state.                                                 *)
EXTENDS ClientCommands, Transfers

VARIABLES which,
          call, calls, local, copy, remote, isdir, files_pc, mtime, data, files_todo,
          pending, path, stat, files_up, down, dev, files_result,
          blocks_mode, script, asked, incoming, srv, wire, out, handled, timeouts,
          blocks_pc, blocking, turn

command  == vars
files    == <<call, calls, local, copy, remote, isdir, files_pc, mtime, data,
              files_todo, pending, path, stat, files_up, down, dev, files_result>>
sessions == <<sessions_mode, now, sessions_todo, phase, failed, known, link, refused,
              session, sessions_files, children, staged, installed>>
attempt  == <<input, attempt_pc, attempt_mode, fallback, db, args, pump, server,
              verdict, regular, attempt_result>>
blocks   == <<blocks_mode, script, asked, incoming, srv, wire, out, handled, timeouts,
              blocks_pc, blocking, turn>>
all      == <<which, command, files, sessions, attempt, blocks>>

ASSUME DevicesAssumption

(* Calls of push and pull with their options. *)
Kinds == {k \in [op : {"push", "pull"}, via : {"direct", "server"}, many : BOOLEAN,
                 sync : BOOLEAN, preserve : BOOLEAN, slash : BOOLEAN] :
            /\ k.op = "pull" => ~k.many /\ ~k.sync /\ ~k.slash
            /\ k.op = "push" => ~k.preserve
            /\ k.many => ~k.slash}

MCSplits == <<<<"a", "b">>, <<"c">>>>
MCModes == {"install_apk", "install_apk_streamed", "install_multiple", "install_multiple_streamed", "install_multi_package"}

(* Install command lines: every mix of files where an attempt is made, and      *)
(* every mix of options with one good file.                                     *)
Apks == {f \in [v4 : BOOLEAN, sig : {"none", "good", "bad", "unreadable"}, small : BOOLEAN] :
            f.v4 \/ (~f.small /\ f.sig \in {"none", "good"})}
MCInputs ==
    [modeArg : {NoMode}, incr : {"enable", "none"}, abb : {TRUE}, cmd : BOOLEAN, env : {"none"},
     probe : {"none"}, tls : BOOLEAN, threads : BOOLEAN, files : {<<f, g>> : f, g \in Apks}]
    \cup
    [modeArg : {NoMode, "streamed", "push"}, incr : {"enable", "disable", "none"}, abb : BOOLEAN,
     cmd : BOOLEAN, env : {"on", "off", "none"}, probe : {"on", "off", "none"}, tls : {FALSE},
     threads : {FALSE}, files : {<<[v4 |-> TRUE, sig |-> "good", small |-> FALSE]>>}]

(* A command line that is refused at once. *)
Refused == [modeArg |-> "push", incr |-> "enable", abb |-> FALSE, cmd |-> FALSE, env |-> "none",
            probe |-> "none", tls |-> FALSE, threads |-> FALSE,
            files |-> <<[v4 |-> TRUE, sig |-> "good", small |-> FALSE]>>]

F == INSTANCE FileSync WITH Kinds <- Kinds, MaxCalls <- 2, MaxEdits <- 1, MayClose <- TRUE,
       pc <- files_pc, todo <- files_todo, result <- files_result, up <- files_up
(* What the device sends: two requests, with plain output and a cut magic      *)
(* before them.                                                                *)
Magic == <<<<"magic", 1, 0, 0>>, <<"magic", 2, 0, 0>>>>
Request(kind, f, b) == Magic \o <<<<kind, f, b, 0>>, <<"end", 0, 0, 0>>>>
Text == <<"text", 1, 0, 0>>
Requests == {Request("missing", 1, 0), Request("missing", 1, 3), Request("prefetch", 1, 0),
             Request("prefetch", 2, 0), Request("complete", 0, 0), Request("destroy", 0, 0)}
Scripts == {a \o b \o c : a \in {<<>>, <<Text, Magic[1]>>}, b \in Requests,
                          c \in {Request("missing", 3, 0), Request("missing", 1, 3),
                                 Request("prefetch", 1, 0), Request("destroy", 0, 0), <<Text>>}}
Faults == {<<0, "none", 0>>, <<1, "hash", 1>>, <<1, "data", 3>>}
B == INSTANCE IncrementalServer WITH Blocks <- <<5, 2>>, Nodes <- <<6, 0>>, Priority <- <<<<5, 4, 0>>, <<>>>>,
       HashesPerBlock <- 2, Batch <- 2, Ahead <- 2, ChunkFlush <- 2, Scripts <- Scripts, Faults <- Faults,
       NoFault <- <<0, "none", 0>>, MaxTimeouts <- 1,
       mode <- blocks_mode, pc <- blocks_pc

Quiet == cmd = Shell /\ serial = NoSerial /\ ~d /\ ~named /\ bus = {} /\ daemons = {} /\ joined = {} /\ ~up

-----------------------------------------------------------------------------
MCInit == /\ which \in {"command", "files", "sessions", "attempt", "blocks"}
          /\ IF which # "command" THEN Init /\ Quiet ELSE TRUE
          /\ F!Init /\ (which # "files" => /\ call.op = "pull" /\ call.via = "server" /\ ~call.preserve
                                          /\ ~isdir /\ remote["dst"] = F!Absent)
          /\ B!Init /\ (which # "blocks" => /\ blocks_mode = "fds" /\ ~srv.fault
                                           /\ script = Request("destroy", 0, 0) \o <<Text>>)
          /\ IF which = "command" THEN Init ELSE TRUE
          /\ IF which = "sessions" THEN S!Init ELSE sessions_mode = "install_apk" /\ S!Init
          /\ IF which = "attempt" THEN A!Init ELSE input = Refused /\ A!Init
MCNext == /\ UNCHANGED which
          /\ \/ which = "command" /\ Next /\ UNCHANGED <<files, sessions, attempt, blocks>>
             \/ which = "files" /\ F!Next /\ UNCHANGED <<command, sessions, attempt, blocks>>
             \/ which = "sessions" /\ S!Next /\ UNCHANGED <<command, files, attempt, blocks>>
             \/ which = "attempt" /\ A!Next /\ UNCHANGED <<command, files, sessions, blocks>>
             \/ which = "blocks" /\ B!Next /\ UNCHANGED <<command, files, sessions, attempt>>

(* The fairness of each machine, while it is the one that runs. *)
MCFairness ==
    /\ WF_files(which = "files" /\ F!Client) /\ WF_files(which = "files" /\ F!DeviceTakes)
    /\ WF_files(which = "files" /\ F!DeviceAcks) /\ WF_files(which = "files" /\ F!DeviceSends)
    /\ []<>(which # "blocks" \/ blocks_pc = "stopped" \/ turn = 0)
    /\ []<>(which # "blocks" \/ blocks_pc = "stopped" \/ turn = 1)
    /\ <>(which # "blocks" \/ blocks_pc = "stopped" \/ script = <<>>)
MCSpec == MCInit /\ [][MCNext]_all /\ MCFairness

(* Push and pull: a call that reports success has moved the file whole, and     *)
(* otherwise says so, see FileSync.                                             *)
ResultIsTrue == which = "files" => F!ResultIsTrue

(* The incremental server: blocks are sent once and tree before data, and       *)
(* requests are handled in the order they came, however the stream is cut, see  *)
(* IncrementalServer.                                                           *)
BlocksInOrder == which = "blocks" => B!BlocksInOrder /\ B!RequestsInOrder

(* Every call of push and pull returns (a direct push excepted), a file the    *)
(* device wants prefetched is sent to its end, and DESTROY ends the server.    *)
TransfersEnd ==
    /\ which = "files" => F!Returns
    /\ which = "blocks" => B!PrefetchCompletes /\ B!DestroyStops

(* Every direct push returns, too. *)
PushReturns == which = "files" => F!PushReturns
=============================================================================
