-------------------------- MODULE FastbootFormats --------------------------
(***************************************************************************)
(* The pure algorithms of fastboot on small inputs: a state is one input,  *)
(* and every invariant compares what the code computes from it with what   *)
(* it should.                                                              *)
(***************************************************************************)
EXTENDS SparseImage, FastbootFraming, BootImages

VARIABLE job

(* Sparse files of up to three chunks and download limits around the least one. *)
RawChunk(n, blk) == Chunk("RAW", n, [i \in 1..(n * blk) |-> i])
ChunksFor(blk) ==
    {RawChunk(n, blk) : n \in 1..3} \cup
    {Chunk("FILL", 3, <<5, 6, 7, 8>>), Chunk("DONT_CARE", 2, <<>>), Chunk("CRC32", 0, <<1, 1, 1, 1>>)}
SparseJobs ==
    UNION {{[what |-> "sparse", file |-> [blk |-> blk, chunks |-> cs], max |-> max] :
               cs \in UNION {[1..n -> ChunksFor(blk)] : n \in 0..3}, max \in {43, 44, 45, 48, 52, 60, 64, 72}} :
           blk \in {4, 8}}
RawJobs == {[what |-> "raw", data |-> [i \in 1..n |-> i], blk |-> blk, max |-> max] :
               n \in 0..11, blk \in {4, 8}, max \in {44, 48, 52, 60}}

(* Boot images: section lengths around page boundaries, every version. *)
Section(n, v) == [i \in 1..n |-> v]
BootJobs ==
    {[what |-> "boot", kernel |-> Section(k, 1), ramdisk |-> Section(r, 2), second |-> Section(s, 3),
      dtb |-> Section(d, 4), page |-> page, version |-> v] :
        k \in {0, 1, 4, 16, 17}, r \in {0, 5}, s \in {0, 5}, d \in {0, 3},
        page \in {0, 16, 24, 2048}, v \in 0..5}
RecoveryJobs ==
    {[what |-> "recovery", kernel |-> Section(k, 1), recovery |-> Section(7, 6), shift |-> d] :
        k \in {1, 17}, d \in {-16, 0, 16, 32}}
VendorJobs ==
    {[what |-> "vendor", version |-> v, page |-> 64, ramdisk |-> Section(r, 1), dtb |-> Section(d, 2),
      conf |-> Section(c, 3), entries |-> es] :
        v \in {3, 4}, r \in {0, 3, 65}, d \in {0, 2}, c \in {0, 4},
        es \in UNION {[1..n -> [size : {1, 3}, offset : {0, 2}, name : {<<1>>, <<1, 2>>, <<1, 2, 3>>}]] : n \in 0..2}}
OsJobs == {[what |-> "os", v |-> [major |-> a, minor |-> b, patch |-> c, year |-> y, month |-> m, day |-> d]] :
              a \in {0, 14, 255}, b \in {0, 7}, c \in {0, 3}, y \in {0, 26, 255}, m \in {1, 12}, d \in {1, 15}}

(* Streams of responses cut into segments anywhere. *)
Bodies == {<<>>, <<Text(1)>>, <<Text(1), Text(2)>>, <<Text(1), <<"FAIL", 1>>>>}
Terminals == {Response("OKAY", b) : b \in Bodies} \cup {Response("FAIL", <<Text(1)>>), Response("DATA", SizeOf(3))}
Streams ==
    {<<t>> : t \in Terminals} \cup {<<Response("INFO", b), t>> : b \in Bodies, t \in Terminals} \cup
    {<<t, u>> : t \in Terminals, u \in Terminals}
Wire(rs) == FlattenSeq([i \in DOMAIN rs |-> OnTheWire(rs[i])])
CutAt(s, cuts) ==
    LET all  == cuts \cup {Len(s)}
        ends == [i \in 1..Cardinality(all) |-> CHOOSE e \in all : Cardinality({f \in all : f < e}) = i - 1]
    IN  [i \in DOMAIN ends |-> SubSeq(s, IF i = 1 THEN 1 ELSE ends[i - 1] + 1, ends[i])]
FrameJobs ==
    UNION {{[what |-> "frames", sent |-> rs, segs |-> CutAt(Wire(rs), cuts)] :
               cuts \in SUBSET (1..(Len(Wire(rs)) - 1))} : rs \in Streams}

Jobs == job \in SparseJobs \/ job \in RawJobs \/ job \in BootJobs \/ job \in RecoveryJobs
        \/ job \in VendorJobs \/ job \in OsJobs \/ job \in FrameJobs

-----------------------------------------------------------------------------
Pieces == Split(job.file, job.max)

(* A split image is the image.  No piece is longer than the                *)
(* max-download-size it was split for, nor empty, and the pieces expand,   *)
(* one after another, to exactly the bytes the whole image expands to      *)
(* (SparseFile::split).  Every raw image can be split for any limit that   *)
(* leaves room for one block, and its pieces begin with the image and add  *)
(* less than one block (from_raw, split, encode and from_bytes in the      *)
(* order flashing uses).                                                   *)
SplitIsExact ==
    /\ job.what = "sparse" /\ Pieces.ok =>
        /\ \A p \in Range(Pieces.pieces) : TotalSize(p) <= job.max /\ p.chunks # <<>>
        /\ FlattenSeq([i \in DOMAIN Pieces.pieces |-> ToRaw(Pieces.pieces[i])]) = ToRaw(job.file)
    /\ job.what = "raw" /\ job.max >= MinRequired(job.blk) =>
        LET s    == Split(FromRaw(job.data, job.blk), job.max)
            back == FlattenSeq([i \in DOMAIN s.pieces |->
                        ToRaw(CHOOSE f \in FromBytes(EncodeFile(s.pieces[i])) : TRUE)])
        IN  /\ s.ok
            /\ \A p \in Range(s.pieces) : FromBytes(EncodeFile(p)) = {p}
            /\ IsPrefix(job.data, back)
            /\ Len(back) < Len(job.data) + job.blk

BuiltBoot == BuildBootImage(job.kernel, job.ramdisk, job.second, job.dtb, job.page, job.version)

WithRecovery ==
    LET img == BuildBootImage(job.kernel, <<>>, <<>>, <<>>, 16, 1)
        at  == img.len + job.shift
    IN  [hdr |-> [img.hdr EXCEPT !.rsize = Len(job.recovery), !.roff = at],
         len |-> img.len + 32, ext |-> Append(img.ext, Extent(at, job.recovery))]

BuiltVendor == BuildVendorBoot(job.version, job.page, job.ramdisk, job.dtb, job.conf, job.entries)

(* What one half of the image code wrote the other half reads.             *)
(* parse_boot_image finds in what build_boot_image wrote the sections that *)
(* the header version has, byte for byte; a kernel of three or four bytes  *)
(* is taken for a version (the ambiguity decode's comment accepts).  A     *)
(* recovery dtbo is only accepted where it overlaps no other section and   *)
(* ends inside the image.  What VendorBootBuilder::build wrote is parsed   *)
(* back unchanged, and an image is accepted only if every entry of its     *)
(* table slices the ramdisk.  OsVersion::decode undoes encode for fields   *)
(* within the documented bits.                                             *)
ImagesRoundTrip ==
    /\ job.what = "boot" /\ job.version <= 4 /\ (job.version <= 2 => Len(job.kernel) \notin {3, 4}) =>
        ParseBootImage(BuiltBoot) =
            {[version |-> job.version, kernel |-> job.kernel, ramdisk |-> job.ramdisk,
              second |-> IF job.version <= 2 THEN job.second ELSE <<>>,
              dtb |-> IF job.version = 2 THEN job.dtb ELSE <<>>, recovery |-> <<>>]}
    /\ job.what = "recovery" =>
        \A b \in ParseBootImage(WithRecovery) : b.kernel = job.kernel /\ b.recovery = job.recovery /\ job.shift \in {0, 16}
    /\ job.what = "vendor" =>
        /\ \A p \in ParseVendorBoot(BuiltVendor) :
              /\ p.ramdisk = job.ramdisk /\ p.dtb = job.dtb
              /\ p.bootconfig = IF job.version = 4 THEN job.conf ELSE <<>>
              /\ \A e \in Range(p.entries) : e.offset + e.size <= Len(p.ramdisk)
        /\ job.version = 3 => ParseVendorBoot(BuiltVendor) # {}
    /\ job.what = "os" => OsDecode(OsEncode(job.v)) = job.v

Received == ReceiveAll(<<>>, job.segs, <<>>, <<>>, TRUE)

(* However the stream of a raw TCP connection is cut into segments, the    *)
(* terminal responses come out in the order and of the kinds the device    *)
(* sent, each with a body that is at most cut short; a DATA size is whole. *)
ResponsesInOrder ==
    job.what = "frames" =>
        LET sent == SelectSeq(job.sent, Terminal) IN
        /\ Len(Received) = Len(sent)
        /\ \A i \in DOMAIN sent : /\ Received[i].resp.kind = sent[i].kind
                                  /\ IsPrefix(Received[i].resp.body, sent[i].body)
                                  /\ sent[i].kind = "DATA" => Received[i].resp = sent[i]

=============================================================================
