---------------------------- MODULE SparseImage ----------------------------
(***************************************************************************)
(* Android sparse images as crates/fastboot-protocol/src/sparse.rs builds, *)
(* parses, expands and splits them.  A file is a record of its block size  *)
(* and its chunks; bytes are small numbers, sizes are counted in bytes     *)
(* with the header sizes of the code.                                      *)
(***************************************************************************)
EXTENDS Integers, Sequences, SequencesExt, FiniteSetsExt

(* SparseHeader::SIZE and SparseChunkHeader::SIZE. *)
HeaderSize == 28
ChunkHeaderSize == 12

(* A chunk: RAW carries its blocks, FILL and CRC32 one word of four bytes, *)
(* DONT_CARE nothing; CRC32 stands for no block.                           *)
Chunk(t, n, payload) == [type |-> t, blocks |-> n, payload |-> payload]

ChunkTotal(c) == ChunkHeaderSize + Len(c.payload)

NewFile(blk) == [blk |-> blk, chunks |-> <<>>]

AddChunk(f, c) == [f EXCEPT !.chunks = Append(@, c)]

TotalBlocks(f) == FoldSeq(LAMBDA c, n : c.blocks + n, 0, f.chunks)

TotalSize(f) == HeaderSize + FoldSeq(LAMBDA c, n : ChunkTotal(c) + n, 0, f.chunks)

Zeros(n) == [i \in 1..n |-> 0]

(* SparseFile::from_raw: one RAW chunk, padded with zeros to whole blocks. *)
FromRaw(raw, blk) ==
    LET pad  == (blk - (Len(raw) % blk)) % blk
        data == raw \o Zeros(pad)
    IN  IF raw = <<>> THEN NewFile(blk)
        ELSE AddChunk(NewFile(blk), Chunk("RAW", Len(data) \div blk, data))

(* The bytes one chunk expands to in SparseFile::to_raw. *)
Expand(c, blk) ==
    CASE c.type = "RAW"       -> c.payload
      [] c.type = "FILL"      -> [i \in 1..(4 * ((c.blocks * blk) \div 4)) |-> c.payload[((i - 1) % 4) + 1]]
      [] c.type = "DONT_CARE" -> Zeros(c.blocks * blk)
      [] c.type = "CRC32"     -> <<>>

ToRaw(f) == FlattenSeq([i \in DOMAIN f.chunks |-> Expand(f.chunks[i], f.blk)])

(* SparseFile::encode: the header counts what the chunks hold, every chunk *)
(* header gives its blocks and its size in bytes.                          *)
EncodeFile(f) ==
    [blk |-> f.blk, total_blks |-> TotalBlocks(f), total_chunks |-> Len(f.chunks),
     body |-> [i \in DOMAIN f.chunks |->
                 [type |-> f.chunks[i].type, chunk_sz |-> f.chunks[i].blocks,
                  total_sz |-> ChunkTotal(f.chunks[i]), payload |-> f.chunks[i].payload]]]

(* The payload length from_bytes insists on for each type of chunk. *)
PayloadLen(t, n, blk) == CASE t = "RAW" -> n * blk [] t = "FILL" -> 4 [] t = "DONT_CARE" -> 0 [] t = "CRC32" -> 4

(* SparseFile::from_bytes: {} when a chunk is missing, cut short or of the *)
(* wrong length, else the parsed file.                                     *)
FromBytes(e) ==
    LET bad == \E i \in 1..e.total_chunks :
                  \/ i > Len(e.body)
                  \/ e.body[i].total_sz < ChunkHeaderSize
                  \/ e.body[i].total_sz - ChunkHeaderSize > Len(e.body[i].payload)
                  \/ e.body[i].total_sz - ChunkHeaderSize # PayloadLen(e.body[i].type, e.body[i].chunk_sz, e.blk)
    IN  IF bad THEN {}
        ELSE {[blk |-> e.blk,
               chunks |-> [i \in 1..e.total_chunks |->
                             Chunk(e.body[i].type, e.body[i].chunk_sz, e.body[i].payload)]]}

MinRequired(blk) == HeaderSize + ChunkHeaderSize + blk

(* Defective form: the room is measured without the chunk's own header. *)
BlocksThatFitNoHeader(f, max) == Max({0, max - TotalSize(f)}) \div f.blk

(* The blocks of a RAW chunk that still fit into piece f below max bytes. *)
BlocksThatFit(f, max) == Max({0, Max({0, max - TotalSize(f)}) - ChunkHeaderSize}) \div f.blk

(* Whether something of chunk c fits into piece f below max bytes. *)
Fits(f, c, max) ==
    IF c.type = "RAW" THEN BlocksThatFit(f, max) > 0
    ELSE Max({0, max - TotalSize(f)}) >= ChunkTotal(c)

(* What is left of a RAW chunk when n of its blocks have been taken. *)
Rest(c, n, blk) == Chunk("RAW", c.blocks - n, SubSeq(c.payload, n * blk + 1, Len(c.payload)))

(* One turn of split's loop: what is left of the chunk in front goes into  *)
(* the current piece, or closes that piece when nothing of it fits.        *)
RECURSIVE SplitLoop(_, _, _, _)
SplitLoop(todo, cur, pieces, max) ==
    IF todo = <<>> THEN [ok |-> TRUE, pieces |-> IF cur.chunks = <<>> THEN pieces ELSE Append(pieces, cur)]
    ELSE LET c == Head(todo) IN
         IF c.blocks = 0 /\ c.type # "CRC32" THEN SplitLoop(Tail(todo), cur, pieces, max)
         ELSE IF ~Fits(cur, c, max)
         THEN IF cur.chunks = <<>> THEN [ok |-> FALSE, pieces |-> <<>>]
              ELSE SplitLoop(todo, NewFile(cur.blk), Append(pieces, cur), max)
         ELSE IF c.type # "RAW" THEN SplitLoop(Tail(todo), AddChunk(cur, c), pieces, max)
         ELSE LET n    == Min({c.blocks, BlocksThatFit(cur, max)})
                  took == Chunk("RAW", n, SubSeq(c.payload, 1, n * cur.blk))
              IN  SplitLoop(<<Rest(c, n, cur.blk)>> \o Tail(todo), AddChunk(cur, took), pieces, max)

(* SparseFile::split. *)
Split(f, max) ==
    IF f.blk = 0 \/ max < MinRequired(f.blk) THEN [ok |-> FALSE, pieces |-> <<>>]
    ELSE SplitLoop(f.chunks, NewFile(f.blk), <<>>, max)

=============================================================================
