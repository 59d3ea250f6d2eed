----------------------------- MODULE BootImages -----------------------------
(***************************************************************************)
(* Boot and vendor_boot images: crates/fastboot-protocol/src/boot_image.rs *)
(* and vendor_boot.rs.  An image is its header fields, its length and the  *)
(* extents of bytes laid out in it; every other byte is the padding zero.  *)
(* The header's words at offsets 8 and 40 are kept, since decode tells the *)
(* header versions apart by them.                                          *)
(***************************************************************************)
EXTENDS Integers, Sequences, SequencesExt, FiniteSetsExt, Bitwise

(* VENDOR_RAMDISK_NAME_SIZE, in the letters of a modelled name. *)
CONSTANT NameSize

(* Size constants of boot_image.rs; a header of an unknown version has the *)
(* magic only.                                                             *)
DefaultPageSize == 2048
BootHeaderSize(v) == IF v \in 0..4 THEN <<1632, 1648, 1664, 4096, 4096>>[v + 1] ELSE 8

IsPowerOfTwo(n) == \E i \in 0..16 : n = 2 ^ i

(* align_up and the align closures of vendor_boot.rs. *)
AlignUp(n, page) == ((n + page - 1) \div page) * page

(* Extents appended one after another, each padded to a page. *)
Extent(at, data) == [at |-> at, data |-> data]

RECURSIVE Lay(_, _, _)
Lay(at, sections, page) ==
    IF sections = <<>> THEN [len |-> at, ext |-> <<>>]
    ELSE LET rest == Lay(at + AlignUp(Len(Head(sections)), page), Tail(sections), page)
         IN  [rest EXCEPT !.ext = <<Extent(at, Head(sections))>> \o @]

Bytes(img, at, n) ==
    [i \in 1..n |->
        LET here == {e \in Range(img.ext) : e.at < at + i /\ at + i <= e.at + Len(e.data)}
        IN  IF here = {} THEN 0 ELSE LET e == CHOOSE e \in here : TRUE IN e.data[at + i - e.at]]

-----------------------------------------------------------------------------
(* OsVersion::encode and decode: six fields packed into one u32.  encode   *)
(* shifts and ors without masking.                                         *)
OsEncode(o) ==
    (o.major * 2^16) | (o.minor * 2^24) | (o.patch * 2^28) | o.year | (o.month * 2^8) | (o.day * 2^12)

OsDecode(raw) ==
    [year |-> raw % 2^8, month |-> (raw \div 2^8) % 2^4, day |-> (raw \div 2^12) % 2^4,
     major |-> (raw \div 2^16) % 2^8, minor |-> (raw \div 2^24) % 2^4, patch |-> (raw \div 2^28) % 2^4]

-----------------------------------------------------------------------------
(* BootImageHeader::encode: v0-v2 have the kernel size at offset 8 and the *)
(* version at 40; v3 and v4 the version at 8, and no second or dtb size.   *)
EncodeHeader(v, k, r, s, d, page) ==
    CASE v \in 0..2 -> [w8 |-> k, w40 |-> v, kernel |-> k, ramdisk |-> r, second |-> s,
                        dtb |-> IF v = 2 THEN d ELSE 0, page |-> page, rsize |-> 0, roff |-> 0]
      [] v \in 3..4 -> [w8 |-> v, w40 |-> 0, kernel |-> k, ramdisk |-> r, second |-> 0,
                        dtb |-> 0, page |-> 4096, rsize |-> 0, roff |-> 0]
      [] OTHER      -> [w8 |-> 0, w40 |-> 0, kernel |-> 0, ramdisk |-> 0, second |-> 0,
                        dtb |-> 0, page |-> 0, rsize |-> 0, roff |-> 0]

(* build_boot_image: a page size that is no power of two is replaced by    *)
(* the default one; empty sections take no page; the second stage is laid  *)
(* out up to v2, the dtb from v2 on.                                       *)
BuildBootImage(kernel, ramdisk, second, dtb, page_size, v) ==
    LET page == IF v \notin 0..2 THEN 4096
                ELSE IF IsPowerOfTwo(page_size) THEN page_size ELSE DefaultPageSize
        secs == <<kernel, ramdisk>> \o (IF v <= 2 THEN <<second>> ELSE <<>>)
                                    \o (IF v >= 2 THEN <<dtb>> ELSE <<>>)
        lay  == Lay(AlignUp(BootHeaderSize(v), page), SelectSeq(secs, LAMBDA x : x # <<>>), page)
    IN  [hdr |-> EncodeHeader(v, Len(kernel), Len(ramdisk), Len(second), Len(dtb), page),
         len |-> lay.len, ext |-> lay.ext]

(* The header version decode settles on: the word at 8 if it is 3 or 4,    *)
(* else the word at 40.                                                    *)
DecodeVersion(hdr) == IF hdr.w8 \in {3, 4} THEN hdr.w8 ELSE hdr.w40

(* Where parse_boot_image expects each section, in the order it reads them. *)
SectionSizes(hdr, v) ==
    <<hdr.kernel, hdr.ramdisk, IF v <= 2 THEN hdr.second ELSE 0, IF v = 2 THEN hdr.dtb ELSE 0>>

SectionStart(sizes, first, i, page) ==
    FoldSeq(LAMBDA n, at : at + AlignUp(n, page), first, SubSeq(sizes, 1, i - 1))

(* Defective form: the recovery dtbo may lie anywhere in the image. *)
RecoveryAnywhere(hdr, len, end, page) == hdr.roff + AlignUp(hdr.rsize, page) <= len

(* The recovery dtbo of v1 lies at an offset of its own, behind the other  *)
(* sections and inside the image.                                          *)
RecoveryInBounds(hdr, len, end, page) ==
    hdr.roff >= end /\ hdr.roff + AlignUp(hdr.rsize, page) <= len

(* parse_boot_image: {} on an error, else the sections. *)
ParseBootImage(img) ==
    LET v     == DecodeVersion(img.hdr)
        page  == IF v \in 0..2 THEN img.hdr.page ELSE 4096
        first == IF v \in 0..2 THEN AlignUp(BootHeaderSize(v), page) ELSE 4096
        sizes == SectionSizes(img.hdr, v)
        start(i) == SectionStart(sizes, first, i, page)
        rsize == IF v = 1 THEN img.hdr.rsize ELSE 0
    IN  IF v \notin 0..4 \/ page = 0 THEN {}
        ELSE IF ~IsPowerOfTwo(page) \/ img.len < first THEN {}
        ELSE IF \/ \E i \in 1..4 : sizes[i] > 0 /\ start(i) + AlignUp(sizes[i], page) > img.len
                \/ rsize > 0 /\ ~RecoveryInBounds(img.hdr, img.len, start(4), page) THEN {}
        ELSE {[version |-> v, kernel |-> Bytes(img, start(1), sizes[1]), ramdisk |-> Bytes(img, start(2), sizes[2]),
               second |-> Bytes(img, start(3), sizes[3]), dtb |-> Bytes(img, start(4), sizes[4]),
               recovery |-> Bytes(img, img.hdr.roff, rsize)]}

-----------------------------------------------------------------------------
(* vendor_boot.  A table entry names a slice of the ramdisk. *)
VendorHeaderSize(v) == IF v = 3 THEN 2112 ELSE 2128
TableEntrySize == 108

Cut(name) == SubSeq(name, 1, Min({Len(name), NameSize}))

(* VendorBootBuilder::build; the table and the bootconfig are v4 only, and *)
(* a name longer than its field is cut.                                    *)
BuildVendorBoot(v, page, ramdisk, dtb, bootconfig, entries) ==
    LET table == IF v = 4 THEN [i \in 1..Len(entries) |-> [entries[i] EXCEPT !.name = Cut(@)]] ELSE <<>>
        space == [i \in 1..(TableEntrySize * Len(table)) |-> 0]
        lay   == Lay(AlignUp(VendorHeaderSize(v), page),
                     <<ramdisk, dtb>> \o (IF v = 4 THEN <<space, bootconfig>> ELSE <<>>), page)
    IN  [version |-> v, page |-> page, header_size |-> VendorHeaderSize(v), ramdisk |-> Len(ramdisk), dtb |-> Len(dtb),
         table_size |-> Len(space), entry_num |-> Len(table), entry_size |-> IF v = 4 THEN TableEntrySize ELSE 0,
         bootconfig |-> IF v = 4 THEN Len(bootconfig) ELSE 0,
         table |-> table, len |-> lay.len, ext |-> lay.ext]

(* section_offsets_for. *)
VendorOffsets(h) ==
    LET ramdisk == AlignUp(h.header_size, h.page)
        dtb     == ramdisk + AlignUp(h.ramdisk, h.page)
        table   == dtb + AlignUp(h.dtb, h.page)
        conf    == table + AlignUp(h.table_size, h.page)
    IN  [ramdisk |-> ramdisk, dtb |-> dtb, table |-> table, bootconfig |-> conf,
         end |-> conf + AlignUp(h.bootconfig, h.page)]

(* The bounds check of one table entry against the ramdisk it slices. *)
EntryInBounds(h, e) == e.offset + e.size <= h.ramdisk

(* VendorBootImage::parse: {} on an error, else the sections and entries. *)
ParseVendorBoot(h) ==
    LET o == VendorOffsets(h) IN
    IF \/ h.version \notin {3, 4} \/ h.page = 0
       \/ h.header_size # VendorHeaderSize(h.version)
       \/ o.end > h.len
       \/ h.version = 4 /\ (h.entry_size # TableEntrySize \/ h.entry_num * h.entry_size # h.table_size)
       \/ \E i \in 1..h.entry_num : ~EntryInBounds(h, h.table[i])
       \/ \E i, j \in 1..h.entry_num : i # j /\ h.table[i].name = h.table[j].name
    THEN {}
    ELSE {[ramdisk |-> Bytes(h, o.ramdisk, h.ramdisk), dtb |-> Bytes(h, o.dtb, h.dtb),
           bootconfig |-> Bytes(h, o.bootconfig, h.bootconfig), entries |-> h.table]}

=============================================================================
