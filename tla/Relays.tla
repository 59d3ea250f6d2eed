------------------------------- MODULE Relays -------------------------------
(***************************************************************************)
(* The loops that carry bytes between a local peer and one open stream of   *)
(* a device.  The local peer (an adb client, a forwarded connection, the    *)
(* incremental server, the terminal) speaks plain bytes; the device speaks  *)
(* A_WRTE, A_OKAY and A_CLSE frames, keeps one unacknowledged A_WRTE in     *)
(* flight and acknowledges the ones it takes.  The kinds of relay:          *)
(*   "usb"        bridge_smart_remote over the registry's USB transport:    *)
(*                two threads share one transport behind a mutex            *)
(*   "tcp"        the same for a TCP device, whose transport has no clone   *)
(*   "forward"    forward_connection_to_device: two threads, two sockets    *)
(*   "pump"       inc-pump: one thread, poll over both descriptors          *)
(*   "exec_out"   stream_exec_out_raw: output only                          *)
(*   "shell"      stream_shell_v2_exit: the same loop                       *)
(*   "exec_in"    run_exec_in: the same loop, with standard input           *)
(*   "install"    stream_file_to_install_command: a file, then the output   *)
(*   "server_in"  stream_raw_from_server: raw bytes through the server      *)
(*   "server_out" stream_raw_server, stream_shell_v2_server: output only    *)
(*   "abb_in"     stream_shell_v2_server_with_stdin: a thread of its own    *)
(*                writes standard input to the connection                   *)
(* A chunk of bytes is a number: the local peer sends 1 .. Up, the device   *)
(* 1 .. Down.                                                               *)
(***************************************************************************)
EXTENDS Naturals, Sequences

CONSTANTS
    Kinds,       \* the relays to run, a subset of AllKinds
    Up, Down     \* chunks the local peer and the device write

AllKinds == {"usb", "tcp", "forward", "pump", "exec_out", "shell", "exec_in", "install",
             "server_in", "server_out", "abb_in"}

VARIABLES
    kind,
    answers,   \* the device's program speaks only when spoken to
    input,     \* the chunks the local peer has not handed over yet
    hung,      \* the local peer has closed its side
    wire,      \* frames on their way to the device
    line,      \* frames on their way to the host
    got,       \* the chunks the device's program has received
    shown,     \* the chunks the local peer has received
    dev,       \* the device's stream
    rd,        \* the thread that reads the device, or the only thread
    wr,        \* the thread that reads the local peer
    lock,      \* the mutex of the shared transport
    queue,     \* chunks read from the local peer and not sent yet
    inflight   \* inc-pump: an A_WRTE waits for its A_OKAY

vars == <<kind, answers, input, hung, wire, line, got, shown, dev, rd, wr,
          lock, queue, inflight>>

Wrte(n) == <<"WRTE", n>>
Okay == <<"OKAY", 0>>
Clse == <<"CLSE", 0>>

Upto(n) == [i \in 1 .. n |-> i]

Init ==
    /\ kind \in Kinds
    /\ answers \in BOOLEAN
    /\ input = IF kind \in {"exec_out", "shell", "server_out"} THEN <<>> ELSE Upto(Up)
    /\ hung = FALSE
    /\ wire = <<>> /\ line = <<>> /\ got = <<>> /\ shown = <<>>
    /\ dev = [sent |-> 0, unacked |-> FALSE, open |-> kind # "forward"]
    /\ rd = CASE kind \in {"usb", "tcp"} -> "clone" [] kind = "forward" -> "open" [] OTHER -> "run"
    /\ wr = rd
    /\ lock = "free"
    /\ queue = <<>>
    /\ inflight = FALSE

device == <<wire, line, got, dev>>

-----------------------------------------------------------------------------
(* The device's end of the stream *)

Raw == kind \in {"server_in", "server_out", "abb_in"}

\* The server in front of a raw stream frames and acknowledges for the client.
DevWrites ==
    /\ dev.open /\ ~dev.unacked /\ dev.sent < Down
    /\ answers => dev.sent < Len(got)
    /\ dev' = [dev EXCEPT !.sent = @ + 1, !.unacked = ~Raw]
    /\ line' = Append(line, Wrte(dev.sent + 1))
    /\ UNCHANGED <<kind, answers, input, hung, wire, got, shown, rd, wr, lock, queue, inflight>>

DevReads ==
    /\ wire # <<>>
    /\ wire' = Tail(wire)
    /\ LET f == Head(wire) IN
       /\ got' = IF f[1] = "WRTE" /\ dev.open THEN Append(got, f[2]) ELSE got
       /\ dev' = [dev EXCEPT !.unacked = @ /\ f # Okay, !.open = @ /\ f # Clse]
       /\ line' = CASE ~dev.open \/ f = Okay -> line
                    [] dev.open /\ f = Clse -> Append(line, Clse)
                    [] OTHER -> IF Raw THEN line ELSE Append(line, Okay)
    /\ UNCHANGED <<kind, answers, input, hung, shown, rd, wr, lock, queue, inflight>>

\* The program exits once it has said all it has to say.
DevCloses ==
    /\ dev.open /\ dev.sent = Down /\ ~dev.unacked
    /\ answers => Len(got) >= Down
    /\ dev' = [dev EXCEPT !.open = FALSE]
    /\ line' = Append(line, Clse)
    /\ UNCHANGED <<kind, answers, input, hung, wire, got, shown, rd, wr, lock, queue, inflight>>

\* A client of the server, or of a forwarded port, closes when it has sent all.
LocalCloses ==
    /\ kind \in {"usb", "forward"} /\ input = <<>> /\ ~hung
    /\ hung' = TRUE
    /\ UNCHANGED <<kind, answers, input, shown, rd, wr, lock, queue, inflight, device>>

-----------------------------------------------------------------------------
(* bridge_smart_remote: SharedTransport's mutex is held across a whole        *)
(* recv_message, so whoever waits for a frame keeps the other from sending.   *)

\* connect_to_remote and bridge_smart_remote each need a clone of the
\* transport.  SharedTransport has one, TcpTransport does not override the
\* default, which has none.
try_clone_box(k) == k = "usb"

Bridge ==
    /\ rd = "clone"
    /\ IF try_clone_box(kind)
       THEN rd' = "lock" /\ wr' = "read"
       ELSE rd' = "stopped" /\ wr' = "stopped"
    /\ UNCHANGED <<kind, answers, input, hung, shown, lock, queue, inflight, device>>

ReaderLocks ==
    /\ kind = "usb" /\ rd = "lock" /\ lock = "free"
    /\ lock' = "reader" /\ rd' = "recv"
    /\ UNCHANGED <<kind, answers, input, hung, shown, wr, queue, inflight, device>>

\* The frame the reader takes may be the A_OKAY the writer waits for: ignored.
ReaderReceives ==
    /\ rd = "recv" /\ line # <<>>
    /\ line' = Tail(line)
    /\ lock' = "free"
    /\ LET f == Head(line) IN
       IF f = Okay THEN rd' = "lock" /\ queue' = queue
                   ELSE rd' = "ack" /\ queue' = <<f>>
    /\ UNCHANGED <<kind, answers, input, hung, wire, got, shown, dev, wr, inflight>>

ReaderAcks ==
    /\ rd = "ack" /\ lock = "free"
    /\ LET f == Head(queue) IN
       /\ queue' = <<>>
       /\ wire' = Append(wire, IF f = Clse THEN Clse ELSE Okay)
       /\ shown' = IF f = Clse THEN shown ELSE Append(shown, f[2])
       /\ rd' = IF f = Clse THEN "stopped" ELSE "lock"
    /\ UNCHANGED <<kind, answers, input, hung, line, got, dev, wr, lock, inflight>>

\* The bulk read times out after ten seconds without a frame: recv_message
\* fails and the thread takes the device for disconnected.
ReaderTimesOut ==
    /\ rd = "recv" /\ line = <<>>
    /\ rd' = "stopped" /\ lock' = "free"
    /\ UNCHANGED <<kind, answers, input, hung, shown, wr, queue, inflight, device>>

\* The client read: a chunk, the end of the stream, or the socket's 30 s read
\* timeout, which ends the writer as an error does.
WriterReads ==
    /\ kind = "usb" /\ wr = "read"
    /\ \/ input # <<>> /\ wr' = "send"
       \/ hung /\ wr' = "close"
       \/ input = <<>> /\ ~hung /\ wr' = "stopped"
    /\ UNCHANGED <<kind, answers, input, hung, shown, rd, lock, queue, inflight, device>>

WriterSends ==
    /\ wr = "send" /\ lock = "free"
    /\ wire' = Append(wire, Wrte(Head(input))) /\ input' = Tail(input)
    /\ wr' = "await"
    /\ UNCHANGED <<kind, answers, hung, line, got, shown, dev, rd, lock, queue, inflight>>

WriterLocks ==
    /\ wr = "await" /\ lock = "free"
    /\ lock' = "writer" /\ wr' = "recv"
    /\ UNCHANGED <<kind, answers, input, hung, shown, rd, queue, inflight, device>>

\* Any other frame than A_OKAY ends the writer, and is lost with it; so does
\* the ten second timeout.
WriterReceives ==
    /\ wr = "recv"
    /\ lock' = "free"
    /\ IF line = <<>>
       THEN line' = line /\ wr' = "stopped"
       ELSE line' = Tail(line) /\ wr' = IF Head(line) = Okay THEN "read" ELSE "stopped"
    /\ UNCHANGED <<kind, answers, input, hung, wire, got, shown, dev, rd, queue, inflight>>

WriterCloses ==
    /\ wr = "close" /\ lock = "free"
    /\ wire' = Append(wire, Clse) /\ wr' = "stopped"
    /\ UNCHANGED <<kind, answers, input, hung, line, got, shown, dev, rd, lock, queue, inflight>>

Bridging ==
    \/ Bridge \/ ReaderLocks \/ ReaderReceives \/ ReaderAcks \/ ReaderTimesOut
    \/ WriterReads \/ WriterSends \/ WriterLocks \/ WriterReceives \/ WriterCloses

-----------------------------------------------------------------------------
(* forward_connection_to_device: each direction has its own socket handle,    *)
(* and the writer does not wait for the device's acknowledgements.            *)

\* The stream of a forwarded connection is opened first.  There may be no TCP
\* device, it may not answer, ask for AUTH instead of connecting, or close.
ForwardOpens ==
    /\ kind = "forward" /\ rd = "open"
    /\ \/ rd' = "run" /\ wr' = "run" /\ dev' = [dev EXCEPT !.open = TRUE]
       \/ rd' = "stopped" /\ wr' = "stopped" /\ UNCHANGED dev
    /\ UNCHANGED <<kind, answers, input, hung, wire, line, got, shown, lock, queue, inflight>>

ForwardUp ==
    /\ kind = "forward" /\ wr = "run"
    /\ \/ /\ input # <<>>
          /\ wire' = Append(wire, Wrte(Head(input))) /\ input' = Tail(input) /\ wr' = wr
       \/ /\ hung
          /\ wire' = Append(wire, Clse) /\ input' = input /\ wr' = "stopped"
    /\ UNCHANGED <<kind, answers, hung, line, got, shown, dev, rd, lock, queue, inflight>>

ForwardDown ==
    /\ kind = "forward" /\ rd = "run" /\ line # <<>>
    /\ line' = Tail(line)
    /\ LET f == Head(line) IN
       /\ shown' = IF f[1] = "WRTE" THEN Append(shown, f[2]) ELSE shown
       /\ wire' = CASE f = Okay -> wire
                    [] f = Clse -> Append(wire, Clse)
                    [] OTHER -> Append(wire, Okay)
       /\ rd' = IF f = Clse THEN "stopped" ELSE rd
    /\ UNCHANGED <<kind, answers, input, hung, got, dev, wr, lock, queue, inflight>>

-----------------------------------------------------------------------------
(* inc-pump: one turn of the poll loop.  Chunks wait in the outbox while a    *)
(* frame is in flight.                                                        *)

PumpUp(readable, st) ==
    IF ~readable THEN st
    ELSE IF st.inflight
    THEN [st EXCEPT !.outbox = Append(@, Head(input))]
    ELSE [st EXCEPT !.wire = Append(@, Wrte(Head(input))), !.inflight = TRUE]

PumpDown(readable, st) ==
    IF ~readable THEN st
    ELSE CASE Head(line)[1] = "WRTE" -> [st EXCEPT !.wire = Append(@, Okay),
                                                   !.shown = Append(@, Head(line)[2])]
           [] Head(line) = Okay      -> [st EXCEPT !.inflight = FALSE]
           [] OTHER                  -> [st EXCEPT !.pc = "stopped"]

\* Mutant: an acknowledgement sends nothing from the outbox.
PumpFlushNever(st) == st

\* Mutant: a chunk that was sent stays in the outbox.
PumpFlushKept(st) ==
    IF st.pc = "stopped" \/ st.inflight \/ st.outbox = <<>> THEN st
    ELSE [st EXCEPT !.wire = Append(@, Wrte(Head(st.outbox))), !.inflight = TRUE]

PumpFlush(st) ==
    IF st.pc = "stopped" \/ st.inflight \/ st.outbox = <<>> THEN st
    ELSE [st EXCEPT !.wire = Append(@, Wrte(Head(st.outbox))),
                    !.outbox = Tail(@), !.inflight = TRUE]

Pump(fromChannel, fromDevice) ==
    LET st == PumpFlush(PumpDown(fromDevice, PumpUp(fromChannel,
                [wire |-> wire, outbox |-> queue, inflight |-> inflight,
                 shown |-> shown, pc |-> rd])))
    IN
    /\ kind = "pump" /\ rd = "run"
    /\ fromChannel \/ fromDevice
    /\ fromChannel => input # <<>>
    /\ fromDevice => line # <<>>
    /\ input' = IF fromChannel THEN Tail(input) ELSE input
    /\ line' = IF fromDevice THEN Tail(line) ELSE line
    /\ wire' = st.wire /\ queue' = st.outbox /\ inflight' = st.inflight
    /\ shown' = st.shown /\ rd' = st.pc
    /\ UNCHANGED <<kind, answers, hung, got, dev, wr, lock>>

-----------------------------------------------------------------------------
(* The client's own loops *)

\* The thread that reads standard input and feeds the channel.
StdinThread ==
    /\ input # <<>>
    /\ queue' = Append(queue, Head(input)) /\ input' = Tail(input)
    /\ UNCHANGED <<kind, answers, hung, shown, rd, wr, lock, inflight, device>>

\* One frame of the direct loops.  Only an A_OKAY moves a chunk of standard
\* input on, and the one that answered A_OPEN was consumed by open_service.
ExecLoop ==
    /\ rd = "run" /\ line # <<>>
    /\ line' = Tail(line)
    /\ LET f == Head(line) IN
       /\ shown' = IF f[1] = "WRTE" THEN Append(shown, f[2]) ELSE shown
       /\ wire' = CASE f = Clse -> Append(wire, Clse)
                    [] f[1] = "WRTE" -> Append(wire, Okay)
                    [] OTHER -> IF queue = <<>> THEN wire ELSE Append(wire, Wrte(Head(queue)))
       /\ queue' = IF f = Okay /\ queue # <<>> THEN Tail(queue) ELSE queue
       /\ rd' = IF f = Clse THEN "stopped" ELSE rd
    /\ UNCHANGED <<kind, answers, input, hung, got, dev, wr, lock, inflight>>

stream_exec_out_raw == kind = "exec_out" /\ ExecLoop
stream_shell_v2_exit == kind = "shell" /\ ExecLoop
run_exec_in == kind = "exec_in" /\ (ExecLoop \/ StdinThread)

\* A chunk of the file goes out only when the one before was acknowledged; what
\* the device writes meanwhile is kept for the result.
write_exec_payload ==
    /\ kind = "install"
    /\ \/ /\ rd = "run" /\ input # <<>>
          /\ wire' = Append(wire, Wrte(Head(input))) /\ input' = Tail(input) /\ rd' = "await"
          /\ UNCHANGED <<line, shown>>
       \/ /\ rd = "await" /\ line # <<>>
          /\ line' = Tail(line) /\ UNCHANGED input
          /\ LET f == Head(line) IN
             /\ rd' = CASE f = Okay -> "run" [] f = Clse -> "stopped" [] OTHER -> rd
             /\ wire' = CASE f = Okay -> wire [] f = Clse -> Append(wire, Clse) [] OTHER -> Append(wire, Okay)
             /\ shown' = IF f[1] = "WRTE" THEN Append(shown, f[2]) ELSE shown
    /\ UNCHANGED <<kind, answers, hung, got, dev, wr, lock, queue, inflight>>

\* After the last chunk the output is read to its end.
read_exec_output ==
    /\ kind = "install" /\ rd = "run" /\ input = <<>> /\ line # <<>>
    /\ line' = Tail(line)
    /\ LET f == Head(line) IN
       /\ rd' = IF f = Clse THEN "stopped" ELSE rd
       /\ wire' = CASE f = Okay -> wire [] f = Clse -> Append(wire, Clse) [] OTHER -> Append(wire, Okay)
       /\ shown' = IF f[1] = "WRTE" THEN Append(shown, f[2]) ELSE shown
    /\ UNCHANGED <<kind, answers, input, hung, got, dev, wr, lock, queue, inflight>>

stream_file_to_install_command == write_exec_payload \/ read_exec_output

\* The raw loop forwards standard input only when a read would block; the
\* connection to the server has no read timeout, so a read waits for bytes.
RawLoop ==
    /\ rd = "run" /\ line # <<>>
    /\ line' = Tail(line)
    /\ LET f == Head(line) IN
       /\ shown' = IF f = Clse THEN shown ELSE Append(shown, f[2])
       /\ rd' = IF f = Clse THEN "stopped" ELSE rd
    /\ UNCHANGED <<kind, answers, input, hung, wire, got, dev, wr, lock, queue, inflight>>

stream_raw_from_server == kind = "server_in" /\ (RawLoop \/ StdinThread)
stream_raw_server == kind = "server_out" /\ RawLoop

\* The clone of the connection writes what is typed at once.
ShellStdin ==
    /\ input # <<>>
    /\ wire' = Append(wire, Wrte(Head(input))) /\ input' = Tail(input)
    /\ UNCHANGED <<kind, answers, hung, line, got, shown, dev, rd, wr, lock, queue, inflight>>

stream_shell_v2_server_with_stdin == kind = "abb_in" /\ (RawLoop \/ ShellStdin)

Client ==
    \/ stream_exec_out_raw \/ stream_shell_v2_exit \/ run_exec_in
    \/ stream_file_to_install_command
    \/ stream_raw_from_server \/ stream_raw_server \/ stream_shell_v2_server_with_stdin

-----------------------------------------------------------------------------

Device == DevWrites \/ DevReads \/ DevCloses

PumpTurn == \E a, b \in BOOLEAN : Pump(a, b)
Next ==
    \/ Device \/ LocalCloses \/ Bridging
    \/ ForwardOpens \/ ForwardUp \/ ForwardDown
    \/ PumpTurn
    \/ Client

Writer == WriterReads \/ WriterSends \/ WriterLocks \/ WriterReceives \/ WriterCloses
Reader == Bridge \/ ReaderLocks \/ ReaderReceives \/ ReaderAcks

\* The scheduler runs every thread that can run.  A peer need not close, and a
\* timeout need not expire before a frame arrives.
Fairness ==
    /\ WF_vars(DevWrites) /\ WF_vars(DevReads)
    /\ WF_vars(Reader) /\ WF_vars(Writer)
    /\ WF_vars(ForwardOpens) /\ WF_vars(ForwardUp) /\ WF_vars(ForwardDown) /\ WF_vars(PumpTurn)
    /\ WF_vars(Client)

Spec == Init /\ [][Next]_vars /\ Fairness

-----------------------------------------------------------------------------
(* Properties *)

Increasing(s) == \A i, j \in 1 .. Len(s) : i < j => s[i] < s[j]

\* No relay reorders or repeats a chunk in either direction, and a relay that
\* does not share its transport between threads loses none before the stream
\* ends: what either end has received is a prefix of what the other sent.
InOrder ==
    /\ Increasing(got) /\ Increasing(shown)
    /\ kind # "usb" => shown = Upto(Len(shown)) /\ got = Upto(Len(got))

\* Everything the local peer hands to the pump, to a forwarded connection, to an
\* install command or to abb reaches the device, and everything the device writes
\* reaches the local peer, unless the device or the peer closes first.
EverythingArrives ==
    /\ kind \in {"pump", "forward", "install", "abb_in"} => <>[](Len(got) = Up \/ ~dev.open)
    /\ kind \notin {"usb", "tcp"} =>
           \A n \in 1 .. Down : dev.sent >= n ~> Len(shown) >= n \/ hung

\* "concurrent send/receive from different threads": whatever the device
\* writes over a shared USB transport reaches the client.
SharedTransportRelays ==
    kind = "usb" => \A n \in 1 .. Down : dev.sent >= n ~> (\E i \in DOMAIN shown : shown[i] = n) \/ hung
=============================================================================
