------------------------- MODULE IncrementalServer -------------------------
(* The incremental-install server: it answers the device's requests for      *)
(* missing blocks, prefetches whole files in the background and tells the    *)
(* device when everything was sent, over a pair of descriptors (serve_fds)   *)
(* or over a framed transport it owns (serve_over_transport).  The device is *)
(* a stream of tokens, requests behind a magic among plain output, that is   *)
(* cut anywhere.                                                             *)
EXTENDS Integers, Sequences, SequencesExt, FiniteSets

CONSTANTS
    Blocks,         \* Blocks[f]: number of data blocks of file f (ids from 0)
    Nodes,          \* Nodes[f]: number of hash tree blocks, 0 without a tree
    Priority,       \* Priority[f]: priority_blocks of file f
    HashesPerBlock, \* HASHES_PER_BLOCK
    Batch,          \* the 128 blocks of one run_prefetching
    Ahead,          \* the 7 blocks prefetched after a missing one
    ChunkFlush,     \* CHUNK_FLUSH_SIZE, in blocks
    Scripts,        \* what the device may send
    Faults,         \* the block whose first read fails, NoFault for none
    NoFault,
    MaxTimeouts     \* bound on the time-outs that repeat pending bytes

VARIABLES
    mode,      \* "fds" or "transport"
    script,    \* what the device has yet to send
    asked,     \* all the device sends (history)
    incoming,  \* bytes read and not consumed
    srv,       \* the server's books, see Init
    wire,      \* blocks shipped to the device, in order
    out,       \* what was forwarded to output_fd
    handled,   \* requests handled, in order (history)
    timeouts,  \* time-outs that repeated pending bytes
    pc, blocking,
    turn       \* alternates with the server's steps

vars == <<mode, script, asked, incoming, srv, wire, out, handled, timeouts, pc, blocking, turn>>

Files == DOMAIN Blocks

(* Tokens: the magic is two of them, a request's body two, the first of which *)
(* names it; anything else is plain output.                                   *)
Magic == <<<<"magic", 1, 0, 0>>, <<"magic", 2, 0, 0>>>>
Body == 2
Request(kind, f, b) == Magic \o <<<<kind, f, b, 0>>, <<"end", 0, 0, 0>>>>

(* The done marker is a block header with file id -1. *)
DoneMarker == <<-1, "done", 0>>

Leaves(f) == (Blocks[f] + HashesPerBlock - 1) \div HashesPerBlock
LeafOffset(f) == Nodes[f] - Leaves(f)
LeafOf(f, b) == LeafOffset(f) + (b \div HashesPerBlock)

(***************************************************************************)
(* The pending chunk and the output buffer.                                *)
(***************************************************************************)
Flush(st) == [st EXCEPT !.output = @ \o st.pending, !.pending = <<>>]

EmitBlock(st, item, flush) ==
    LET put == [st EXCEPT !.pending = Append(@, item)]
    IN  IF flush \/ Len(put.pending) > ChunkFlush THEN Flush(put) ELSE put

(***************************************************************************)
(* send_tree_block, send_tree_blocks_for_data_block, send_data_block.  Each *)
(* yields the state and whether it went well; a read of the faulty block    *)
(* fails once.                                                             *)
(***************************************************************************)
Read(st, item) ==
    IF st.bad = item THEN [ok |-> FALSE, st |-> [st EXCEPT !.bad = NoFault]]
                     ELSE [ok |-> TRUE, st |-> st]

SendTreeBlock(st, f, i) ==
    LET r == Read(st, <<f, "hash", i>>)
    IN  IF r.ok THEN [ok |-> TRUE, st |-> [EmitBlock(r.st, <<f, "hash", i>>, FALSE)
                                           EXCEPT !.tree[f] = @ \cup {i}]]
                ELSE r

RECURSIVE SendInner(_, _, _)
SendInner(st, f, i) ==
    IF i = LeafOffset(f) THEN [ok |-> TRUE, st |-> st]
    ELSE LET r == SendTreeBlock(st, f, i)
         IN  IF r.ok THEN SendInner(r.st, f, i + 1) ELSE r

(* Mutant: the data block goes out without its hashes' being looked at. *)
SendTreeBlocksLeafOnly(st, f, b) ==
    IF Nodes[f] = 0 \/ LeafOf(f, b) \in st.tree[f] THEN [ok |-> TRUE, st |-> st]
    ELSE SendTreeBlock(st, f, LeafOf(f, b))

SendTreeBlocks(st, f, b) ==
    IF Nodes[f] = 0 \/ LeafOf(f, b) \in st.tree[f] THEN [ok |-> TRUE, st |-> st]
    ELSE LET leaf == SendTreeBlock(st, f, LeafOf(f, b))
         IN  IF ~leaf.ok \/ LeafOffset(f) = 0 \/ 0 \in leaf.st.tree[f] THEN leaf
             ELSE SendInner(leaf.st, f, 0)

(* send_data_block: hashes first, then the data, once for each block. *)
SendDataBlock(st, f, b, flush) ==
    IF b \notin 0 .. Blocks[f] - 1 \/ b \in st.sent[f] THEN [res |-> "skipped", st |-> st]
    ELSE LET tree == SendTreeBlocks(st, f, b)
             data == Read(tree.st, <<f, "data", b>>)
         IN  IF ~tree.ok THEN [res |-> "error", st |-> tree.st]
             ELSE IF ~data.ok THEN [res |-> "error", st |-> data.st]
             ELSE [res |-> "sent",
                   st |-> EmitBlock([data.st EXCEPT !.sent[f] = @ \cup {b}],
                                    <<f, "data", b>>, flush)]

AllFilesSent(st) == \A f \in Files : Cardinality(st.sent[f]) = Blocks[f]

(***************************************************************************)
(* Prefetching.                                                            *)
(***************************************************************************)
Smaller(a, b) == IF a < b THEN a ELSE b

Prefetch(f, start, count) ==
    [file |-> f, at |-> start, end |-> Smaller(start + count, Blocks[f]), prio |-> 0]

(* PrefetchState::done. *)
Through(p) == p.at >= p.end /\ p.prio >= Len(Priority[p.file])

(* One block of the front prefetch: the priority blocks, then the range. *)
PrefetchOne(st, budget) ==
    LET p == Head(st.prefetches)
        prio == p.prio < Len(Priority[p.file])
        r == SendDataBlock(st, p.file, IF prio THEN Priority[p.file][p.prio + 1] ELSE p.at, FALSE)
        next == IF prio THEN [p EXCEPT !.prio = @ + 1] ELSE [p EXCEPT !.at = @ + 1]
    IN  [st |-> [r.st EXCEPT !.prefetches = <<next>> \o Tail(@)],
         budget |-> IF r.res = "sent" THEN budget - 1 ELSE budget]

(* run_prefetching: at most Batch blocks, a finished prefetch leaves the queue. *)
RECURSIVE RunPrefetching(_, _)
RunPrefetching(st, budget) ==
    IF st.prefetches = <<>> THEN st
    ELSE IF Through(Head(st.prefetches))
         THEN RunPrefetching([st EXCEPT !.prefetches = Tail(@)], budget)
    ELSE IF budget = 0 THEN st
    ELSE LET one == PrefetchOne(st, budget) IN RunPrefetching(one.st, one.budget)

(***************************************************************************)
(* take_request: everything before a magic is plain output; without one all *)
(* but the last bytes are, which may hold the start of a magic.             *)
(***************************************************************************)
Starts(buf, i) == SubSeq(buf, i + 1, i + Len(Magic)) = Magic

(* Mutant: without a magic nothing is kept back. *)
SkippedAll(buf) ==
    LET found == {i \in 0 .. Len(buf) - 1 : i + Len(Magic) < Len(buf) /\ Starts(buf, i)}
    IN  IF found = {} THEN Len(buf) ELSE CHOOSE i \in found : \A j \in found : i <= j

Skipped(buf) ==
    LET found == {i \in 0 .. Len(buf) - 1 : i + Len(Magic) < Len(buf) /\ Starts(buf, i)}
    IN  IF found # {} THEN CHOOSE i \in found : \A j \in found : i <= j
        ELSE IF Len(buf) > Len(Magic) THEN Len(buf) - Len(Magic) ELSE 0

TakeRequest(buf) ==
    LET rest == SubSeq(buf, Skipped(buf) + 1, Len(buf))
        whole == Len(rest) > Len(Magic) /\ Starts(rest, 0) /\ Len(rest) >= Len(Magic) + Body
    IN  [forward |-> SubSeq(buf, 1, Skipped(buf)),
         request |-> IF whole THEN <<rest[Len(Magic) + 1]>> ELSE <<>>,
         rest    |-> IF whole THEN SubSeq(rest, Len(Magic) + Body + 1, Len(rest)) ELSE rest]

(***************************************************************************)
(* handle_request.                                                         *)
(***************************************************************************)
HandleMissing(st, f, b) ==
    LET r == SendDataBlock(st, f, b, TRUE)
    IN  IF f \notin Files THEN st
        ELSE IF r.res = "sent"
             THEN [r.st EXCEPT !.prefetches = <<Prefetch(f, b + 1, Ahead)>> \o @]
             ELSE r.st

HandlePrefetch(st, f) ==
    IF f \in st.prefetched THEN st
    ELSE [st EXCEPT !.prefetched = @ \cup {f},
                    !.prefetches = Append(@, Prefetch(f, 0, Blocks[f]))]

HandleRequest(st, q) ==
    CASE q[1] = "missing" -> HandleMissing(st, q[2], q[3])
      [] q[1] = "prefetch" -> HandlePrefetch(st, q[2])
      [] q[1] = "complete" -> [st EXCEPT !.complete = TRUE]
      [] OTHER -> st

(***************************************************************************)
(* ship_output sends what was flushed; ship_framed flushes first.          *)
(***************************************************************************)
Flushed(st) == IF mode = "transport" THEN Flush(st) ELSE st

(* Mutant: waiting for the device, the last chunk is kept back. *)
BeforeReadUnflushed(st) == st

(* The flush before a read that may block. *)
BeforeRead(st) == IF mode = "transport" \/ st.prefetches = <<>> THEN Flush(st) ELSE st

Ship(st) == /\ srv' = [st EXCEPT !.output = <<>>]
            /\ wire' = wire \o st.output

Init ==
    /\ mode \in {"fds", "transport"}
    /\ script \in Scripts /\ asked = script
    /\ srv \in {[sent |-> [f \in Files |-> {}], tree |-> [f \in Files |-> {}],
                 pending |-> <<>>, output |-> <<>>, prefetches |-> <<>>, prefetched |-> {},
                 complete |-> FALSE, done |-> FALSE, bad |-> b, fault |-> b # NoFault] : b \in Faults}
    /\ incoming = <<>> /\ wire = <<>> /\ out = <<>> /\ handled = <<>> /\ timeouts = 0
    /\ pc = "top" /\ blocking = FALSE /\ turn = 0

(* All files were sent and nothing is queued. *)
Notifies(st) == ~st.done /\ st.prefetches = <<>> /\ AllFilesSent(st)

(* The head of the loop of serve_fds and serve_over_transport. *)
Top ==
    /\ pc = "top"
    /\ LET st == IF Notifies(srv) THEN [EmitBlock(srv, DoneMarker, TRUE) EXCEPT !.done = TRUE]
                                  ELSE srv
       IN  Ship(BeforeRead(st))
    /\ blocking' = (srv.prefetches = <<>>)
    /\ pc' = "read"
    /\ UNCHANGED <<mode, script, asked, incoming, out, handled, timeouts>>

(* The rest of the loop: a request is handled and its answer shipped, then the *)
(* prefetch queue moves on.                                                    *)
Pump(st) == Ship(Flushed(RunPrefetching(st, Batch)))

Taken == TakeRequest(incoming)

(* A whole request is in the buffer. *)
GotRequest ==
    /\ pc = "read" /\ Taken.request # <<>>
    /\ out' = out \o Taken.forward
    /\ incoming' = Taken.rest
    /\ LET q == Taken.request[1]
       IN  /\ handled' = Append(handled, q)
           /\ \/ /\ q[1] = "destroy"
                 /\ pc' = "stopped" /\ UNCHANGED <<srv, wire>>
              \/ /\ q[1] # "destroy"
                 /\ pc' = "top" /\ Pump(HandleRequest(srv, q))
    /\ UNCHANGED <<mode, script, asked, timeouts, blocking>>

(* read_request_fd, read_request_transport: more of the stream, cut anywhere. *)
ReadMore ==
    /\ pc = "read" /\ Taken.request = <<>>
    /\ out' = out \o Taken.forward
    /\ \E k \in 1 .. Len(script) :
         /\ incoming' = Taken.rest \o SubSeq(script, 1, k)
         /\ script' = SubSeq(script, k + 1, Len(script))
    /\ UNCHANGED <<mode, asked, srv, wire, handled, timeouts, pc, blocking>>

(* poll timed out, at once while blocks are queued: the pending bytes go to the *)
(* output and stay; a completed session ends.                                   *)
TimedOut ==
    /\ pc = "read" /\ mode = "fds" /\ Taken.request = <<>>
    /\ timeouts < MaxTimeouts \/ Taken.rest = <<>>
    /\ out' = out \o Taken.forward \o Taken.rest
    /\ incoming' = Taken.rest
    /\ timeouts' = IF Taken.rest = <<>> THEN timeouts ELSE timeouts + 1
    /\ \/ /\ blocking /\ srv.complete
          /\ pc' = "stopped" /\ UNCHANGED <<srv, wire>>
       \/ /\ ~(blocking /\ srv.complete)
          /\ pc' = "top" /\ Pump(srv)
    /\ UNCHANGED <<mode, script, asked, handled, blocking>>

(* The device hung up: CLSE, end of file, an error. *)
Disconnected ==
    /\ pc = "read" /\ script = <<>> /\ Taken.request = <<>>
    /\ out' = out \o Taken.forward \o Taken.rest
    /\ incoming' = Taken.rest
    /\ pc' = "stopped"
    /\ UNCHANGED <<mode, script, asked, srv, wire, handled, timeouts, blocking>>

Next ==
    /\ Top \/ GotRequest \/ ReadMore \/ TimedOut \/ Disconnected
    /\ turn' = 1 - turn

(* The server's thread runs until it stops, and what the device sent arrives. *)
Fairness ==
    /\ []<>(pc = "stopped" \/ turn = 0) /\ []<>(pc = "stopped" \/ turn = 1)
    /\ <>(pc = "stopped" \/ script = <<>>)

Spec == Init /\ [][Next]_vars /\ Fairness

-----------------------------------------------------------------------------
Stream == wire \o srv.output \o srv.pending

Before(a, b) == \E i, j \in DOMAIN Stream : i < j /\ Stream[i] = a /\ Stream[j] = b

(* The plain tokens and the requests of a stream, cut by nobody: a reference. *)
RECURSIVE RequestsOf(_)
RequestsOf(buf) ==
    IF Len(buf) < Len(Magic) + Body THEN <<>>
    ELSE IF Starts(buf, 0)
         THEN <<buf[Len(Magic) + 1]>> \o RequestsOf(SubSeq(buf, Len(Magic) + Body + 1, Len(buf)))
         ELSE RequestsOf(Tail(buf))

(* The blocks on the wire.  Nothing is sent twice and the books say what was  *)
(* sent, whatever mixture of missing-block requests, look-ahead and           *)
(* prefetching asks for it; "tree blocks first": without read errors a data   *)
(* block is preceded by its leaf and by all inner nodes of its file; and the  *)
(* marker that everything is loaded comes last, after every block.  And when   *)
(* the server waits for the device nothing the device may wait for is held     *)
(* back in a buffer.                                                          *)
BlocksInOrder ==
    /\ IsInjective(Stream)
    /\ ToSet(Stream) \ {DoneMarker} =
         UNION {({f} \X {"data"} \X srv.sent[f]) \cup ({f} \X {"hash"} \X srv.tree[f]) : f \in Files}
    /\ ~srv.fault =>
         \A f \in Files : \A b \in srv.sent[f] : Nodes[f] > 0 =>
            \A n \in {LeafOf(f, b)} \cup 0 .. LeafOffset(f) - 1 : Before(<<f, "hash", n>>, <<f, "data", b>>)
    /\ \A i \in DOMAIN Stream : Stream[i] = DoneMarker => i = Len(Stream) /\ AllFilesSent(srv)
    /\ pc = "read" /\ (blocking \/ mode = "transport") => srv.pending = <<>> /\ srv.output = <<>>

(* Requests are found and handled in order however the stream is cut. *)
RequestsInOrder ==
    pc # "stopped" => handled \o RequestsOf(incoming \o script) = RequestsOf(asked)

(* The files the device wants prefetched are sent to their last blocks,        *)
(* whatever else is asked in between, unless the session ends (descriptors     *)
(* only).                                                                      *)
PrefetchCompletes ==
    mode = "fds" /\ ~srv.fault /\ srv.prefetched # {}
      ~> \/ pc = "stopped"
         \/ \A f \in srv.prefetched : \A b \in 0 .. Blocks[f] - 1 : <<f, "data", b>> \in ToSet(wire)

(* DESTROY ends the server. *)
DestroyStops == (\E i \in DOMAIN asked : asked[i][1] = "destroy") ~> pc = "stopped"
=============================================================================
