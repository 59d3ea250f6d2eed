---------------------------- MODULE FastbootUdp ----------------------------
(***************************************************************************)
(* The UDP transport of the fastboot host (FastbootUdpTransport in         *)
(* fastboot-protocol/src/udp.rs): a stop-and-wait exchange that numbers    *)
(* its packets, sends a packet again when the answer does not come or does *)
(* not match, asks for the rest of a long answer with an empty packet, and *)
(* gives up after max_retries.  The network may lose, repeat, delay and    *)
(* reorder packets: toDev and toHost hold every packet ever sent, and      *)
(* either side may receive any of them, any number of times or never.      *)
(*                                                                         *)
(* The device is not part of the repository; it is modelled from what the  *)
(* host relies on and the mock targets of the tests do: it takes a packet  *)
(* only with the number it expects, and answers the previous number with   *)
(* the previous answer (which toHost already holds).                       *)
(***************************************************************************)
EXTENDS Naturals, Sequences

CONSTANTS
    MaxRetries,  \* max_retries of a transport
    Numbers,      \* sequence numbers are 0 .. Numbers-1 (2^16 in the code)
    FirstSeqs,   \* numbers the device may expect when the host connects
    MaxOps,      \* bound: reads and writes of a behaviour
    MaxChunks,   \* bound: chunks of one write
    MaxParts,    \* bound: packets of one answer
    None         \* no packet, or a packet without payload

\* Fewer packets than numbers: no packet outlives a round of the counter.
PacketsAreFew == 2 + MaxOps * (MaxChunks * MaxParts) < Numbers

UdpAssumption ==
    /\ MaxRetries \in Nat /\ MaxOps \in Nat /\ Numbers \in Nat
    /\ MaxChunks \in Nat \ {0} /\ MaxParts \in Nat \ {0}
    /\ FirstSeqs \subseteq 0 .. Numbers - 1
    /\ None \notin Nat \X Nat
    /\ PacketsAreFew

VARIABLES
    op,       \* what the host is doing: "none" before connect
    seq,      \* FastbootUdpTransport.seq
    tx,       \* packet of the running exchange
    tries,    \* retransmissions of tx so far
    left,     \* chunks of the running write that follow tx
    errdata,  \* error_data of the running exchange is not empty
    nops,     \* reads and writes begun
    toDev, toHost,
    dseq, last,          \* the device's expected number and latest answer
    dleft, derr,         \* packets left of the answer it is giving, error or not
    wrote, taken, offered, got, ok

host    == <<op, seq, tx, tries, left, errdata, nops>>
device  == <<dseq, last, dleft, derr>>
promise == <<wrote, taken, offered, got, ok>>
vars    == <<host, toDev, toHost, device, promise>>

Chunks == (1 .. MaxOps) \X (0 .. MaxChunks - 1)
Parts  == {None} \cup {<<k>> : k \in 1 .. Numbers}
Busy   == {"query", "init", "write", "read"}

\* A packet: UdpHeader and the payload.
Packet(id, cont, s, data) == [id |-> id, cont |-> cont, seq |-> s, data |-> data]

Successor(s) == (s + 1) % Numbers

Init ==
    /\ op = "none" /\ seq = 0 /\ tx = None /\ tries = 0 /\ left = 0
    /\ errdata = FALSE /\ nops = 0
    /\ toDev = {} /\ toHost = {}
    /\ dseq \in FirstSeqs /\ last = None /\ dleft = 0 /\ derr = FALSE
    /\ wrote = <<>> /\ taken = <<>> /\ offered = <<>> /\ got = <<>> /\ ok = TRUE

(***************************************************************************)
(* The host: send_packet_with_ack, and the calls that use it.              *)
(***************************************************************************)
\* The head of the loop: encode the packet with the current number and send.
Send(id, cont, s, data) ==
    /\ tx' = Packet(id, cont, s, data)
    /\ toDev' = toDev \cup {tx'}
    /\ tries' = 0

\* An error return.  connect_timeout then drops the transport; read and write
\* leave it to the caller, who may go on using it.
Fail ==
    /\ op' = IF op \in {"query", "init"} THEN "closed" ELSE "idle"
    /\ ok' = FALSE
    /\ tx' = None /\ tries' = 0 /\ left' = 0 /\ errdata' = FALSE
    /\ UNCHANGED <<nops, toDev>>

\* One more turn of "for _ in 0..=self.max_retries".
Retry ==
    \/ /\ tries < MaxRetries
       /\ tries' = tries + 1
       /\ toDev' = toDev \cup {tx}
       /\ UNCHANGED <<op, tx, left, errdata, nops, ok>>
    \/ tries = MaxRetries /\ Fail

\* connect_timeout and the start of perform_handshake.
Connect ==
    /\ op = "none"
    /\ op' = "query"
    /\ Send("query", FALSE, seq, None)
    /\ UNCHANGED <<seq, left, errdata, nops, toHost, device, promise>>

\* Write::write cuts the buffer into chunks; all but the last are flagged.
Write ==
    /\ op = "idle" /\ nops < MaxOps
    /\ \E n \in 1 .. MaxChunks :
          /\ left' = n - 1
          /\ Send("fastboot", n > 1, seq, <<nops + 1, n - 1>>)
    /\ op' = "write" /\ nops' = nops + 1
    /\ UNCHANGED <<seq, errdata, toHost, device, promise>>

\* Read::read with nothing buffered.
Read ==
    /\ op = "idle" /\ nops < MaxOps
    /\ op' = "read" /\ nops' = nops + 1
    /\ Send("fastboot", FALSE, seq, None)
    /\ UNCHANGED <<seq, left, errdata, toHost, device, promise>>

\* The read timeout of the socket expires.
Timeout ==
    /\ op \in Busy
    /\ Retry
    /\ UNCHANGED <<seq, toHost, device, wrote, taken, offered, got>>

\* send or recv fails otherwise, or the answer is too short to have a header.
SocketError ==
    /\ op \in Busy
    /\ Fail
    /\ UNCHANGED <<seq, toHost, device, wrote, taken, offered, got>>

\* Taking any answer of the right kind for the answer to tx.
MatchesIdOnly(p) == p.id = tx.id \/ p.id = "error"

\* The answer carries tx's number and its id, or reports an error.
Matches(p) == p.seq = tx.seq /\ (p.id = tx.id \/ p.id = "error")

\* A packet that does not answer tx costs one of the tries.
ReceiveOther ==
    /\ op \in Busy
    /\ \E p \in toHost : ~Matches(p)
    /\ Retry
    /\ UNCHANGED <<seq, toHost, device, wrote, taken, offered, got>>

\* An answer with UDP_FLAG_CONTINUATION: ask for more under the id it came with.
ReceivePart ==
    /\ op \in Busy
    /\ \E p \in toHost :
          /\ Matches(p) /\ p.cont
          /\ seq' = Successor(seq)
          /\ errdata' = (errdata \/ p.id = "error")
          /\ got' = IF op = "read" /\ p.id # "error" THEN Append(got, p.data) ELSE got
          /\ Send(p.id, FALSE, seq', None)
    /\ UNCHANGED <<op, left, nops, toHost, device, wrote, taken, offered, ok>>

\* The last answer of an exchange that reported an error.
ReceiveError ==
    /\ op \in Busy
    /\ \E p \in toHost : Matches(p) /\ ~p.cont /\ (errdata \/ p.id = "error")
    /\ seq' = Successor(seq)
    /\ Fail
    /\ UNCHANGED <<toHost, device, wrote, taken, offered, got>>

\* Going on counting from 0 instead of taking the device's number.
KeepOwnSeq ==
    /\ op = "query"
    /\ \E p \in toHost :
          /\ Matches(p) /\ ~p.cont /\ p.id = "query"
          /\ seq' = Successor(seq)
          /\ Send("init", FALSE, seq', None)
    /\ op' = "init"
    /\ UNCHANGED <<left, errdata, nops, toHost, device, promise>>

\* perform_handshake: the number the device expects, then its answer to init.
ReceiveQuery ==
    /\ op = "query"
    /\ \E p \in toHost :
          /\ Matches(p) /\ ~p.cont /\ p.id = "query"
          /\ seq' = p.data[1]
          /\ Send("init", FALSE, seq', None)
    /\ op' = "init"
    /\ UNCHANGED <<left, errdata, nops, toHost, device, promise>>

ReceiveInit ==
    /\ op = "init"
    /\ \E p \in toHost :
          /\ Matches(p) /\ ~p.cont /\ p.id = "init"
          /\ seq' = Successor(seq)
          /\ \/ p.data[1] < 1 /\ Fail
             \/ /\ p.data[1] >= 1
                /\ op' = "idle" /\ tx' = None /\ tries' = 0
                /\ UNCHANGED <<left, errdata, nops, toDev, ok>>
    /\ UNCHANGED <<toHost, device, wrote, taken, offered, got>>

\* The device acknowledged a chunk: send the next one, or write returns.
ReceiveAck ==
    /\ op = "write" /\ ~errdata
    /\ \E p \in toHost : Matches(p) /\ ~p.cont /\ p.id = "fastboot"
    /\ seq' = Successor(seq)
    /\ wrote' = Append(wrote, <<nops, left>>)
    /\ \/ /\ left > 0
          /\ left' = left - 1
          /\ Send("fastboot", left > 1, seq', <<nops, left - 1>>)
          /\ UNCHANGED op
       \/ /\ left = 0
          /\ op' = "idle" /\ tx' = None /\ tries' = 0
          /\ UNCHANGED <<left, toDev>>
    /\ UNCHANGED <<errdata, nops, toHost, device, taken, offered, got, ok>>

\* The last packet of an answer: read returns it.
ReceiveReply ==
    /\ op = "read" /\ ~errdata
    /\ \E p \in toHost :
          /\ Matches(p) /\ ~p.cont /\ p.id = "fastboot"
          /\ got' = Append(got, p.data)
    /\ seq' = Successor(seq)
    /\ op' = "idle" /\ tx' = None /\ tries' = 0
    /\ UNCHANGED <<left, errdata, nops, toDev, toHost, device, wrote, taken, offered, ok>>

(***************************************************************************)
(* The device (external).                                                  *)
(***************************************************************************)
Answer(p, id, cont, data) ==
    /\ last' = Packet(id, cont, p.seq, data)
    /\ toHost' = toHost \cup {last'}
    /\ dseq' = Successor(dseq)

DevQuery ==
    /\ \E p \in toDev :
          /\ p.id = "query"
          /\ toHost' = toHost \cup {Packet("query", FALSE, p.seq, <<dseq>>)}
    /\ UNCHANGED <<host, toDev, device, promise>>

DevInit ==
    /\ \E p \in toDev, version \in {0, 1} :
          p.id = "init" /\ p.seq = dseq /\ Answer(p, "init", FALSE, <<version>>)
    /\ UNCHANGED <<host, toDev, dleft, derr, promise>>

DevTake ==
    /\ \E p \in toDev :
          /\ p.id = "fastboot" /\ p.data # None /\ p.seq = dseq
          /\ taken' = Append(taken, p.data)
          /\ Answer(p, "fastboot", FALSE, None)
    /\ UNCHANGED <<host, toDev, dleft, derr, wrote, offered, got, ok>>

\* An error, or the next packet of the answer to a read.
DevGive ==
    /\ \E p \in toDev, n \in 1 .. MaxParts, e \in BOOLEAN :
          /\ p.id \in {"fastboot", "error"} /\ p.seq = dseq
          /\ dleft > 0 => n = dleft /\ e = derr
          /\ p.data # None => e
          /\ dleft' = n - 1 /\ derr' = e
          /\ Answer(p, IF e THEN "error" ELSE "fastboot", n > 1, <<Len(offered) + 1>>)
          /\ offered' = IF e THEN offered ELSE Append(offered, <<Len(offered) + 1>>)
    /\ UNCHANGED <<host, toDev, wrote, taken, got, ok>>

Next ==
    \/ Connect \/ Write \/ Read \/ Timeout \/ SocketError
    \/ ReceiveOther \/ ReceivePart \/ ReceiveError \/ ReceiveQuery
    \/ ReceiveInit \/ ReceiveAck \/ ReceiveReply
    \/ DevQuery \/ DevInit \/ DevTake \/ DevGive

\* recv returns after the socket's timeout at the latest.
Spec == Init /\ [][Next]_vars /\ WF_vars(Timeout)

-----------------------------------------------------------------------------
(***************************************************************************)
(* Properties.                                                             *)
(***************************************************************************)
\* send_packet_with_ack over a network that loses, repeats and reorders is a
\* channel that delivers every chunk and every part of a reply exactly once and
\* in order, until an operation of the transport has reported an error.
Channel == INSTANCE FastbootChannel
IsReliableChannel == Channel!Spec

\* Once the handshake took over the device's number, the host's number is the
\* one the device expects or the one before it, whatever was lost, repeated or
\* given up: the transport never loses step for good.  And no retransmission is
\* taken for a new chunk, not even after an error, when the caller goes on with
\* the same transport.
StaysInStep ==
    /\ op \in {"init", "idle", "write", "read"} => dseq \in {seq, Successor(seq)}
    /\ \A i, j \in 1 .. Len(taken) : taken[i] = taken[j] => i = j

\* Whatever the network does, every read, write and connect returns.
OpReturns == (op \in Busy) ~> (op \notin Busy)
=============================================================================
