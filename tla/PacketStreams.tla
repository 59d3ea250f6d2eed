---------------------------- MODULE PacketStreams ----------------------------
(***************************************************************************)
(* How packets survive a byte stream.  A writer puts packets on the wire,  *)
(* header first and as much as one write takes; a reader takes what it     *)
(* finds there and puts the packets together again.  The readers: the      *)
(* push parser of server/apacket_reader.rs and its pull parser, the exact  *)
(* reads of server/transport_fd.rs and of Transport::recv_message, the     *)
(* shell v2 demultiplexer of client/shell.rs, the bulk transfers of        *)
(* adb-protocol/src/usb.rs in both directions, and the scatter-gather      *)
(* buffer of server/types.rs.                                              *)
(*                                                                         *)
(* A byte is <<p, k>>, the k-th of packet p; the first Header of them are  *)
(* its header and say how long it is.                                      *)
(***************************************************************************)
EXTENDS Integers, Sequences, SequencesExt, FiniteSets

CONSTANTS
    Header,       \* bytes of a header, less than a USB packet
    MaxPayload,   \* longest payload a reader accepts
    PacketSize,   \* bytes of a USB packet
    Lengths,      \* payload lengths tried
    Count         \* packets sent

VARIABLES
    kind,       \* the reader
    pkts,       \* what is sent: sequence of [len, id]
    junk,       \* what payload bytes say when they are read as a length
    out,        \* bytes written
    eof,        \* the writer is gone
    zlps,       \* places of the stream followed by a zero-length packet
    taken,      \* bytes read
    buf,        \* bytes read and not used yet
    packet_,    \* the header a payload is awaited for, {} or {header}
    got,        \* packets handed on: sequence of [p, data]
    code,       \* the shell's exit code, {} or {byte}
    end,        \* "no", "done" or "error"
    late,       \* a read timed out in the middle of a packet
    vec, drained, mangled   \* IOVector: its fields, what was drained, and see Coalesce

vars == <<kind, pkts, junk, out, eof, zlps, taken, buf, packet_, got, code, end, late, vec, drained, mangled>>

Kinds == {"add_bytes", "fill", "read_message", "usb_in", "usb_out", "shell", "iovector"}
Ids == {"stdout", "stderr", "exit", "unknown"}
Big(p) == pkts[p].len > MaxPayload

Size(p) == Header + pkts[p].len
Stream == FlattenSeq([p \in DOMAIN pkts |-> [k \in 1 .. Size(p) |-> <<p, k>>]])
Slice(from, n) == SubSeq(Stream, from + 1, from + n)
Payload(p) == [k \in 1 .. pkts[p].len |-> <<p, Header + k>>]

Init ==
    /\ kind \in Kinds
    /\ pkts \in [1 .. Count -> [len : CASE kind = "shell" -> {0, 1} [] kind = "iovector" -> {1} [] OTHER -> Lengths,
                                id : IF kind = "shell" THEN Ids ELSE {"stdout"}]]
    /\ junk \in IF kind = "add_bytes" THEN {0, 1} ELSE {0}
    /\ out = 0 /\ eof = FALSE /\ zlps = {} /\ taken = 0
    /\ buf = <<>> /\ packet_ = {} /\ got = <<>> /\ code = {} /\ end = "no" /\ late = FALSE
    /\ vec = [blocks |-> <<>>, front_skip |-> 0, total_len |-> 0] /\ drained = <<>> /\ mangled = FALSE

(***************************************************************************)
(* The writer.                                                             *)
(***************************************************************************)
wire == <<out, eof, zlps>>
reader == <<taken, buf, packet_, got, code, end, late>>
iovector == <<vec, drained, mangled>>

(* The end of the header or payload that the next byte to write belongs to. *)
BufferEnd ==
    LET b == Stream[out + 1]
    IN  out + (IF b[2] <= Header THEN Header - b[2] ELSE Size(b[1]) - b[2]) + 1

should_send_zlp(payload_len) == payload_len # 0 /\ payload_len % PacketSize = 0

(* send_message, write_message: header, payload, flush_payload.  A write to a  *)
(* socket takes what it can and write_all_fd goes on from there; a bulk        *)
(* transfer is sent whole, and ended by a zero-length packet if need be.       *)
send_message ==
    /\ ~eof /\ out < Len(Stream)
    /\ out' \in IF kind \in {"usb_in", "usb_out"} THEN {BufferEnd} ELSE out + 1 .. BufferEnd
    /\ LET last == Stream[out']
       IN  zlps' = IF kind = "usb_out" /\ last[2] = Size(last[1]) /\ should_send_zlp(pkts[last[1]].len)
                   THEN zlps \cup {out'} ELSE zlps
    /\ UNCHANGED <<kind, pkts, junk, eof, reader, iovector>>

(* The writer is through, or a write failed. *)
Close ==
    /\ ~eof /\ eof' = TRUE
    /\ UNCHANGED <<kind, pkts, junk, out, zlps, reader, iovector>>

(***************************************************************************)
(* Headers.                                                                *)
(***************************************************************************)
Aligned(h) == \A k \in 1 .. Header : h[k] = <<h[1][1], k>>

(* The push parser takes any bytes for a header: checking the magic is left to  *)
(* its caller.                                                                  *)
decode_framing_header(h) == [p |-> h[1][1], len |-> IF Aligned(h) THEN pkts[h[1][1]].len ELSE junk]

(* Mutant: the magic is not compared. *)
decode_any(h) == {decode_framing_header(h)}

(* AdbMessageHeader::decode; bytes that are no header fail the magic. *)
decode(h) == IF Aligned(h) THEN {decode_framing_header(h)} ELSE {}

Packet(h, data) == [p |-> h.p, data |-> data]

(***************************************************************************)
(* APacketReader: header_, packet_ and payload_, of which buf is the       *)
(* header's bytes, or those of the payload once packet_ is set.            *)
(***************************************************************************)
prepare_next(st) == [st EXCEPT !.buf = <<>>, !.packet_ = {}]

fill_from(b, size, block) == b \o SubSeq(block, 1, size - Len(b))
Rest(b, size, block) == SubSeq(block, size - Len(b) + 1, Len(block))

RECURSIVE process_block(_, _)
process_block(st, block) ==
    IF block = <<>> THEN st
    ELSE IF st.packet_ = {} THEN
        LET h == fill_from(st.buf, IF Len(st.buf) + Len(block) < Header THEN Len(st.buf) + Len(block) ELSE Header, block)
            rest == Rest(st.buf, Header, block)
            header == decode_framing_header(h)
        IN  CASE Len(h) < Header -> [st EXCEPT !.buf = h]
              [] Len(h) = Header /\ header.len > MaxPayload -> prepare_next(st)
              [] Len(h) = Header /\ header.len = 0 ->
                    process_block([prepare_next(st) EXCEPT !.got = Append(@, Packet(header, <<>>))], rest)
              [] OTHER -> process_block([st EXCEPT !.buf = <<>>, !.packet_ = {header}], rest)
    ELSE
        LET header == CHOOSE h \in st.packet_ : TRUE
        IN  IF Len(st.buf) + Len(block) < header.len
            THEN [st EXCEPT !.buf = @ \o block]
            ELSE process_block([prepare_next(st) EXCEPT !.got = Append(@, Packet(header, fill_from(st.buf, header.len, block)))],
                               Rest(st.buf, header.len, block))

add_bytes ==
    /\ kind = "add_bytes" /\ end = "no"
    /\ \E n \in 1 .. out - taken :
         LET st == process_block([buf |-> buf, packet_ |-> packet_, got |-> got], Slice(taken, n))
         IN  /\ taken' = taken + n
             /\ buf' = st.buf /\ packet_' = st.packet_ /\ got' = st.got
    /\ UNCHANGED <<kind, pkts, junk, wire, code, end, late, iovector>>

(***************************************************************************)
(* The readers that pull.                                                  *)
(***************************************************************************)
Awaited == CHOOSE h \in packet_ : TRUE

(* Bytes still missing from what the reader is after. *)
Missing ==
    CASE packet_ = {} -> Header - Len(buf)
      [] packet_ # {} /\ kind = "fill" -> Header + Awaited.len - Len(buf)
      [] OTHER -> Awaited.len - Len(buf)

Fails == end' = "error" /\ UNCHANGED <<buf, packet_, got>>

(* A complete header: checked, and delivered at once when no payload follows. *)
TakeHeader ==
    /\ packet_ = {} /\ Len(buf) >= Header
    /\ LET hs == decode(SubSeq(buf, 1, Header))
           rest == SubSeq(buf, Header + 1, Len(buf))
       IN  IF hs = {} THEN Fails
           ELSE LET h == CHOOSE x \in hs : TRUE
                IN  IF h.len > MaxPayload THEN Fails
                    ELSE /\ UNCHANGED end
                         /\ IF h.len = 0
                            THEN got' = Append(got, Packet(h, <<>>)) /\ buf' = rest /\ UNCHANGED packet_
                            ELSE /\ packet_' = {h} /\ UNCHANGED got
                                 /\ buf' = IF kind = "fill" THEN buf ELSE rest

TakePayload ==
    /\ packet_ # {} /\ Missing <= 0
    /\ LET skip == IF kind = "fill" THEN Header ELSE 0
       IN  /\ got' = Append(got, Packet(Awaited, SubSeq(buf, skip + 1, skip + Awaited.len)))
           /\ buf' = SubSeq(buf, skip + Awaited.len + 1, Len(buf))
    /\ packet_' = {} /\ UNCHANGED end

Parses == /\ TakeHeader \/ TakePayload
          /\ UNCHANGED <<taken, code, late>>

(* What one read returns: the pull parser reads all it finds while it wants a   *)
(* header and no more than it needs of a payload; read_exact_fd and read_exact  *)
(* never more than they need.                                                   *)
Reads ==
    /\ Missing > 0 /\ taken < out
    /\ \E n \in 1 .. out - taken :
         /\ n <= Missing \/ (kind = "fill" /\ packet_ = {})
         /\ taken' = taken + n /\ buf' = buf \o Slice(taken, n)
    /\ UNCHANGED <<packet_, got, code, end, late>>

(* The end of the stream between two packets ends fill; everywhere else it is  *)
(* an error.                                                                    *)
ReadsEof ==
    /\ Missing > 0 /\ taken = out /\ eof
    /\ end' = IF kind = "fill" /\ packet_ = {} /\ buf = <<>> THEN "done" ELSE "error"
    /\ UNCHANGED <<taken, buf, packet_, got, code, late>>

fill ==
    /\ kind = "fill" /\ end = "no"
    /\ Parses \/ Reads \/ ReadsEof
    /\ UNCHANGED <<kind, pkts, junk, wire, iovector>>

(* A read that would block or times out is an error of the call, which has lost *)
(* the bytes it had read; callers that treat it as "nothing yet" call again.    *)
TimesOut ==
    /\ Missing > 0 /\ taken = out /\ ~eof
    /\ late' = (late \/ buf # <<>> \/ packet_ # {})
    /\ buf' = <<>> /\ packet_' = {}
    /\ UNCHANGED <<taken, got, code, end>>

read_message ==
    /\ kind = "read_message" /\ end = "no"
    /\ Parses \/ Reads \/ ReadsEof \/ TimesOut
    /\ UNCHANGED <<kind, pkts, junk, wire, iovector>>

(***************************************************************************)
(* Bulk transfers.                                                         *)
(***************************************************************************)
(* The adapter's read: the transfer is rounded up to whole packets, ends with   *)
(* the transfer the device sent, and what the caller has no room for is gone.   *)
UsbReads ==
    /\ Missing > 0 /\ taken < out
    /\ LET b == Stream[taken + 1]
           left == (IF b[2] <= Header THEN Header ELSE Size(b[1])) - b[2] + 1
           transfer_len == ((Missing + PacketSize - 1) \div PacketSize) * PacketSize
           read == IF left < transfer_len THEN left ELSE transfer_len
       IN  /\ taken' = taken + read
           /\ buf' = buf \o Slice(taken, IF read < Missing THEN read ELSE Missing)
    /\ UNCHANGED <<packet_, got, code, end, late>>

usb_read ==
    /\ kind = "usb_in" /\ end = "no"
    /\ Parses \/ UsbReads \/ ReadsEof \/ TimesOut
    /\ UNCHANGED <<kind, pkts, junk, wire, iovector>>

(* External: the device at the other end of the adapter's writes.  It reads a   *)
(* header, then a payload up to the first packet that is not full.              *)
DeviceReads ==
    /\ kind = "usb_out" /\ end = "no" /\ taken < out
    /\ LET p == Stream[taken + 1][1]
           short == {q \in taken + Header + 1 .. out :
                       \/ q \in zlps
                       \/ (q - taken - Header) % PacketSize # 0 /\ Stream[q][2] \in {Header, Size(Stream[q][1])}}
       IN  \/ pkts[p].len = 0 /\ taken' = taken + Header /\ got' = Append(got, [p |-> p, data |-> <<>>])
           \/ /\ pkts[p].len # 0 /\ short # {}
              /\ taken' = CHOOSE q \in short : \A r \in short : q <= r
              /\ got' = Append(got, [p |-> p, data |-> Slice(taken + Header, taken' - taken - Header)])
    /\ UNCHANGED <<kind, pkts, junk, wire, buf, packet_, code, end, late, iovector>>

(***************************************************************************)
(* Shell v2.                                                               *)
(***************************************************************************)
(* ShellV2Packet::parse: {} when the packet is not all there. *)
parse(r) ==
    IF Len(r) < Header THEN {}
    ELSE LET p == r[1][1] IN IF Len(r) < Size(p) THEN {} ELSE {[p |-> p, data |-> SubSeq(r, Header + 1, Size(p))]}

RECURSIVE drain_shell_v2_stream(_)
drain_shell_v2_stream(st) ==
    LET ps == parse(st.remainder)
    IN  IF ps = {} THEN st
        ELSE LET pkt == CHOOSE x \in ps : TRUE
                 id == pkts[pkt.p].id
             IN  drain_shell_v2_stream(
                   [remainder |-> SubSeq(st.remainder, Size(pkt.p) + 1, Len(st.remainder)),
                    captured |-> IF id \in {"stdout", "stderr"} THEN Append(st.captured, pkt) ELSE st.captured,
                    exit_code |-> IF id = "exit" THEN {IF pkt.data = <<>> THEN <<0, 0>> ELSE pkt.data[1]}
                                  ELSE st.exit_code])

stream_shell_v2_server ==
    /\ kind = "shell" /\ end = "no"
    /\ \/ \E n \in 1 .. out - taken :
            LET st == drain_shell_v2_stream([remainder |-> buf \o Slice(taken, n), captured |-> got, exit_code |-> code])
            IN  /\ taken' = taken + n
                /\ buf' = st.remainder /\ got' = st.captured /\ code' = st.exit_code
                /\ UNCHANGED end
       \/ taken = out /\ eof /\ end' = "done" /\ UNCHANGED <<taken, buf, got, code>>
    /\ UNCHANGED <<kind, pkts, junk, wire, packet_, late, iovector>>

(***************************************************************************)
(* IOVector.                                                               *)
(***************************************************************************)
append ==
    /\ \E n \in 1 .. out - taken :
         /\ taken' = taken + n
         /\ vec' = [vec EXCEPT !.blocks = Append(@, Slice(taken, n)), !.total_len = @ + n]
    /\ UNCHANGED <<drained, mangled>>

(* All that copy_to shows from an offset on. *)
copy_to(offset) ==
    LET all == FlattenSeq(vec.blocks)
    IN  SubSeq(all, vec.front_skip + offset + 1, vec.front_skip + vec.total_len)

RECURSIVE Drain(_, _)
Drain(v, remaining) ==
    IF remaining = 0 \/ v.blocks = <<>> THEN v
    ELSE LET available == Len(Head(v.blocks)) - v.front_skip
         IN  IF available <= remaining
             THEN Drain([blocks |-> Tail(v.blocks), front_skip |-> 0, total_len |-> v.total_len - available],
                        remaining - available)
             ELSE [v EXCEPT !.front_skip = @ + remaining, !.total_len = @ - remaining]

drain_front ==
    /\ \E n \in 1 .. vec.total_len :
         /\ drained' = drained \o SubSeq(copy_to(0), 1, n)
         /\ vec' = Drain(vec, n)
    /\ UNCHANGED <<taken, mangled>>

(* The blocks are joined whole, the consumed part of the first one included. *)
coalesce ==
    /\ vec.blocks # <<>>
    /\ mangled' = (mangled \/ vec.front_skip # 0)
    /\ vec' = [vec EXCEPT !.blocks = <<FlattenSeq(@)>>, !.front_skip = 0]
    /\ UNCHANGED <<taken, drained>>

IOVector ==
    /\ kind = "iovector"
    /\ append \/ drain_front \/ coalesce
    /\ UNCHANGED <<kind, pkts, junk, wire, buf, packet_, got, code, end, late>>

Next ==
    \/ send_message \/ Close
    \/ add_bytes \/ fill \/ read_message \/ usb_read \/ DeviceReads \/ stream_shell_v2_server \/ IOVector

Spec == Init /\ [][Next]_vars

(***************************************************************************)
(* Properties.                                                             *)
(***************************************************************************)
EndOf(p) == Len(FlattenSeq([i \in 1 .. p |-> [k \in 1 .. Size(i) |-> k]]))
Sent(n, ids) ==
    LET ps == SelectSeq([p \in DOMAIN pkts |-> p], LAMBDA p : EndOf(p) <= n /\ pkts[p].id \in ids)
    IN  [i \in DOMAIN ps |-> [p |-> ps[i], data |-> Payload(ps[i])]]

(* A packet the parsers refuse ends what can be said of the ones after it. *)
Refused(n) == \E p \in DOMAIN pkts : Big(p) /\ EndOf(p) - pkts[p].len <= n

(* Every packet handed on is one that was sent, with its payload, in order. *)
Genuine ==
    /\ \A i \in DOMAIN got : got[i] = [p |-> got[i].p, data |-> Payload(got[i].p)]
    /\ \A i, j \in DOMAIN got : i < j => got[i].p < got[j].p

(* However the stream was cut into writes, reads and transfers, the packets      *)
(* handed on are the packets sent, in order, each with its own payload, and      *)
(* every packet whose last byte has been used is among them.  Packets are        *)
(* missing only behind one that is too long or after a read that timed out half  *)
(* way, and then no made-up packet appears, thanks to the magic; an error needs  *)
(* such a cause or a stream cut in the middle of a packet.  The shell's exit code is that of its   *)
(* last exit packet.  The bytes drained from an IOVector and those still in it   *)
(* are the bytes appended, as long as it is not coalesced half drained.          *)
PacketsSurvive ==
    /\ kind \in {"add_bytes", "fill", "read_message", "usb_in", "usb_out"} =>
         LET used == taken - Len(buf) - (IF packet_ # {} /\ kind # "fill" THEN Header ELSE 0)
         IN  /\ ~Refused(taken) \/ kind # "add_bytes" => Genuine
             /\ ~late /\ ~Refused(taken) => got = Sent(used, Ids)
             /\ end = "done" => got = Sent(out, Ids)
             /\ end = "error" => late \/ Refused(taken) \/ (eof /\ (kind = "fill" => ~\E p \in DOMAIN pkts : EndOf(p) = out))
    /\ kind = "shell" =>
         LET used == taken - Len(buf)
             exits == {p \in DOMAIN pkts : pkts[p].id = "exit" /\ EndOf(p) <= used}
         IN  /\ got = Sent(used, {"stdout", "stderr"})
             /\ end = "done" => got = Sent(out, {"stdout", "stderr"})
             /\ (code = {}) = (exits = {})
             /\ \A p \in exits : (\A q \in exits : q <= p) =>
                    code = {IF pkts[p].len = 0 THEN <<0, 0>> ELSE Payload(p)[1]}
    /\ kind = "iovector" /\ ~mangled =>
         /\ drained \o copy_to(0) = Slice(0, taken)
         /\ vec.total_len = Len(copy_to(0))
=============================================================================
